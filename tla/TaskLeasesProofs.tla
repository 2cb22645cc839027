-------------------------- MODULE TaskLeasesProofs --------------------------
(***************************************************************************)
(* Theorems about TaskLeases for any number of tasks, capabilities and     *)
(* connections, any retentions and any bounds on the clock and the crashes.*)
(***************************************************************************)
EXTENDS TaskLeases, FiniteSetTheorems, TLAPS

(* The capabilities a row holds. *)
Holds(row, cap) == cap # None /\ cap \in {row.resume, row.pending}

-----------------------------------------------------------------------------
(* What a connection has by the time it is in a phase.  A host that is     *)
(* down serves nobody.                                                     *)
Fresh(k) ==
    /\ k.task = None /\ k.cap = None /\ ~k.rotation /\ k.fresh = "none"
    /\ k.confirm = None /\ ~k.cancelled /\ k.thread = "none" /\ k.close = "none"

KnowsOK(k) ==
    /\ k.phase \in {"free", "sent", "classify", "rejected"} => Fresh(k)
    /\ k.phase \in {"classify", "rejected"} => k.offered # None
    /\ k.phase = "barrier" => /\ k.rotation /\ ~k.cancelled
                              /\ k.thread = "none" /\ k.close = "none"
    /\ k.phase = "open" => ~k.rotation
    /\ k.rotation => k.offered # None /\ k.task # None /\ k.fresh = "none"
    /\ k.fresh # "none" => k.offered = None /\ k.task # None
    /\ k.task # None <=> k.cap # None
    /\ k.offered # None /\ (k.phase = "open" \/ k.thread # "none") => k.task # None
    /\ k.close # "none" => k.task # None

Served == {"classify", "rejected", "barrier", "open", "leaving"}

ConnOK == \A c \in Conn : KnowsOK(conn[c]) /\ (~up => conn[c].phase \notin Served)

(* Capabilities are generated once, and everything that names one has it   *)
(* from there.                                                             *)
FromIssued ==
    /\ \A t \in Task : /\ rows[t].resume \in issued \cup {None}
                       /\ rows[t].pending \in issued \cup {None}
    /\ \A c \in Conn : /\ conn[c].cap \in issued \cup {None}
                       /\ conn[c].offered \in issued \cup {None}
    /\ store.active \in issued \cup {None}
    /\ store.pending \in issued \cup {None}
    /\ client.rest \in issued \cup {None}

(* No capability is held by two rows, or twice by one, and none by a task  *)
(* that does not exist.                                                    *)
HeldOnce ==
    /\ \A t, u \in Task : \A cap \in Capability :
          Holds(rows[t], cap) /\ Holds(rows[u], cap) => t = u
    /\ \A t \in Task : rows[t].pending # None => rows[t].pending # rows[t].resume
    /\ \A t \in Task : rows[t].state = "absent" =>
          rows[t].resume = None /\ rows[t].pending = None

(* The capability of a connection is nobody else's and is held by its task *)
(* or by none.                                                             *)
CapsOwned ==
    /\ \A c \in Conn : conn[c].task # None => rows[conn[c].task].state # "absent"
    /\ \A c \in Conn : \A u \in Task : Holds(rows[u], conn[c].cap) => u = conn[c].task
    /\ \A c, d \in Conn : c # d /\ conn[c].cap # None => conn[c].cap # conn[d].cap

(* A connection at the barrier rotates what it offered; once it is past    *)
(* the barrier, no row holds that any more.                                *)
AtBarrier ==
    \A c \in Conn : conn[c].phase = "barrier" =>
        /\ rows[conn[c].task].resume = conn[c].offered
        /\ rows[conn[c].task].pending = conn[c].cap

Spent ==
    \A c \in Conn : conn[c].phase = "open" /\ conn[c].offered # None =>
        \A t \in Task : ~Holds(rows[t], conn[c].offered)

CapInv == /\ ConnOK /\ FromIssued /\ HeldOnce /\ CapsOwned /\ AtBarrier /\ Spent
          /\ OldCapabilityIsDead

-----------------------------------------------------------------------------
(* Counts *)

AttachedFinite == \A t \in Task : IsFiniteSet(Attached(t))

CountInv == AttachedFinite /\ PendingHasOwner /\ ConnectionsCounted

-----------------------------------------------------------------------------
(* The client and its file *)

(* The task of row t can still be resumed with what is in the file. *)
Reaches(t) == Active(rows[t]) /\ \E cap \in Stored : Holds(rows[t], cap)

(* What is in the file, by the phase of the client. *)
FileOK ==
    client.phase # "idle" =>
        LET k == conn[client.conn] IN
        /\ client.conn \in Conn /\ k.phase # "free"
        /\ client.phase = "waiting" =>
             /\ k.confirm = None
             /\ IF k.offered = None THEN Stored = {} /\ client.rest = None
                                    ELSE k.phase # "open" /\ k.offered \in Stored
             /\ client.rest = None \/ client.rest \in Stored
             /\ k.reason = "task_closed" => \A t \in Task : ~Reaches(t)
        /\ client.phase = "rotating" =>
             /\ k.offered # None /\ k.cap # None
             /\ store = [active |-> k.offered, pending |-> k.cap]
        /\ client.phase \in {"ready", "closing"} => Stored \subseteq {k.cap}
        /\ k.cap # None => \A d \in Conn : conn[d].offered # k.cap
        /\ k.phase = "open" /\ k.cap # None => rows[k.task].resume = k.cap

(* A confirmation is under way only for a replacement that is in the file, *)
(* if the capability it replaces is.                                       *)
Prepared ==
    \A c \in Conn : /\ conn[c].phase = "barrier" /\ conn[c].confirm # None
                    /\ conn[c].offered \in Stored
                    => conn[c].cap \in Stored

DoneIsClosed ==
    \A c \in Conn : conn[c].close = "done" => ~Active(rows[conn[c].task])

(* Everything in the file is of one task, and nothing in it has a tomb     *)
(* while that task lives.                                                  *)
FileOfOneTask ==
    \A t \in Task : Reaches(t) =>
        \A cap \in Stored : /\ tombs[cap] = None
                            /\ \A u \in Task : Holds(rows[u], cap) => u = t

(* A tomb carries the time the task of its capability was closed at; the   *)
(* row is not deleted before it, and the tomb is not given up too early.   *)
TombsRight(r, tb, t) ==
    \A k \in Task : \A cap \in Capability :
       /\ Active(r[k]) /\ Holds(r[k], cap) => tb[cap] = None
       /\ r[k].resume = cap /\ tb[cap] # None => tb[cap] = r[k].closedAt
       /\ r[k].state = "deleted" /\ r[k].resume = cap =>
            tb[cap] # None \/ r[k].closedAt < t - TombstoneRetention

TombsOK == /\ \A cap \in Capability : tombs[cap] # None => cap \in issued
           /\ TombsRight(rows, tombs, now)

(* The file always has the current capability of some task. *)
FileIsCurrent == Stored # {} => \E t \in Task : rows[t].resume \in Stored

FileInv == FileOK /\ Prepared /\ DoneIsClosed /\ FileOfOneTask /\ TombsOK /\ FileIsCurrent

-----------------------------------------------------------------------------
(* What the statements of the journal do to a row *)

(* A row after a cleanup: at most it was closed or deleted. *)
Aged(row, s) ==
    /\ s \in Row
    /\ s.resume = row.resume /\ s.pending = row.pending
    /\ Active(s) => s = row
    /\ s.state = "absent" <=> row.state = "absent"
    /\ ~Active(row) => ~Active(s) /\ s.closedAt = row.closedAt

LEMMA IdleClosedAged ==
    ASSUME NEW r \in [Task -> Row], NEW t \in Nat
    PROVE  /\ IdleClosed(r, t) \in [Task -> Row]
           /\ \A k \in Task : Aged(r[k], IdleClosed(r, t)[k])
<1> DEFINE c(row) == IF Idle(row, t)
                     THEN [row EXCEPT !.state = "closed", !.updated = t, !.closedAt = t]
                     ELSE row
<1>1. ASSUME NEW row \in Row
      PROVE  c(row) \in Row /\ Aged(row, c(row))
  BY DEF Aged, Active, Idle, Row, TaskState
<1>2. IdleClosed(r, t) = [k \in Task |-> c(r[k])]
  BY DEF IdleClosed
<1> HIDE DEF c
<1>3. QED  BY <1>1, <1>2

LEMMA DeletedAged ==
    ASSUME NEW r \in [Task -> Row], NEW t \in Nat
    PROVE  /\ Deleted(r, t) \in [Task -> Row]
           /\ \A k \in Task : Aged(r[k], Deleted(r, t)[k])
<1> DEFINE c(row) == IF Expired(row, t) THEN [row EXCEPT !.state = "deleted"] ELSE row
<1>1. ASSUME NEW row \in Row
      PROVE  c(row) \in Row /\ Aged(row, c(row))
  BY DEF Aged, Active, Expired, Row, TaskState
<1>2. Deleted(r, t) = [k \in Task |-> c(r[k])]
  BY DEF Deleted
<1> HIDE DEF c
<1>3. QED  BY <1>1, <1>2

LEMMA AgedTwice ==
    ASSUME NEW x, NEW y, NEW z, Aged(x, y), Aged(y, z)
    PROVE  Aged(x, z)
<1>1. CASE Active(z)
  BY <1>1 DEF Aged
<1>2. CASE ~Active(z)
  BY <1>2 DEF Aged
<1>3. QED  BY <1>1, <1>2

LEMMA SweptRowsAged ==
    ASSUME NEW r \in [Task -> Row], NEW t \in Nat, NEW n \in 0..4
    PROVE  /\ SweptRows(r, t, n) \in [Task -> Row]
           /\ \A k \in Task : Aged(r[k], SweptRows(r, t, n)[k])
<1>1. PICK a : a = IF n >= 1 THEN IdleClosed(r, t) ELSE r
  OBVIOUS
<1>2. a \in [Task -> Row] /\ \A k \in Task : Aged(r[k], a[k])
  <2>1. CASE n >= 1
    BY <1>1, <2>1, IdleClosedAged
  <2>2. CASE ~(n >= 1)
    BY <1>1, <2>2 DEF Aged
  <2>3. QED  BY <2>1, <2>2
<1>3. PICK b : b = IF n >= 3 THEN Deleted(a, t) ELSE a
  OBVIOUS
<1>4. b \in [Task -> Row] /\ \A k \in Task : Aged(a[k], b[k])
  <2>1. CASE n >= 3
    BY <1>2, <1>3, <2>1, DeletedAged
  <2>2. CASE ~(n >= 3)
    BY <1>2, <1>3, <2>2 DEF Aged
  <2>3. QED  BY <2>1, <2>2
<1>5. SweptRows(r, t, n) = b
  BY <1>1, <1>3 DEF SweptRows
<1>6. \A k \in Task : Aged(r[k], b[k])
  BY <1>2, <1>4, AgedTwice, Zenon
<1>7. QED  BY <1>4, <1>5, <1>6

(* Whose tomb a capability gets. *)
LEMMA EntombedIs ==
    ASSUME NEW r \in [Task -> Row], NEW tb \in [Capability -> Nat \cup {None}],
           NEW t \in Nat
    PROVE  /\ Entombed(r, tb, t) \in [Capability -> Nat \cup {None}]
           /\ \A cap \in Capability :
                \/ Entombed(r, tb, t)[cap] = tb[cap]
                \/ /\ tb[cap] = None
                   /\ \E k \in Task : /\ Expired(r[k], t)
                                      /\ cap \in {r[k].resume, r[k].pending}
                                      /\ Entombed(r, tb, t)[cap] = r[k].closedAt
           /\ \A k \in Task : \A cap \in Capability :
                Expired(r[k], t) /\ cap \in {r[k].resume, r[k].pending}
                  => Entombed(r, tb, t)[cap] # None
<1> DEFINE theirs(cap, k) == Expired(r[k], t) /\ cap \in {r[k].resume, r[k].pending}
           whose(cap) == CHOOSE k \in Task : theirs(cap, k)
<1>1. Entombed(r, tb, t) =
        [cap \in Capability |->
           IF tb[cap] # None THEN tb[cap]
           ELSE IF \E k \in Task : theirs(cap, k) THEN r[whose(cap)].closedAt ELSE None]
  BY DEF Entombed
<1>2. \A cap : (\E k \in Task : theirs(cap, k)) =>
                 whose(cap) \in Task /\ theirs(cap, whose(cap))
  <2> HIDE DEF theirs
  <2>1. QED  BY Zenon
<1>3. \A k \in Task : r[k].closedAt \in Nat
  BY DEF Row
<1>4. None \notin Nat
  BY RowsAssumption
<1>5. PICK f : f = Entombed(r, tb, t)
  OBVIOUS
<1> HIDE DEF whose, theirs
<1>6. f \in [Capability -> Nat \cup {None}]
  BY <1>1, <1>2, <1>3, <1>5
<1>7. ASSUME NEW cap \in Capability
      PROVE  \/ f[cap] = tb[cap]
             \/ /\ tb[cap] = None
                /\ \E k \in Task : theirs(cap, k) /\ f[cap] = r[k].closedAt
  <2>1. f[cap] = IF tb[cap] # None THEN tb[cap]
                 ELSE IF \E k \in Task : theirs(cap, k) THEN r[whose(cap)].closedAt
                                                       ELSE None
    BY <1>1, <1>5
  <2>2. CASE tb[cap] = None /\ \E k \in Task : theirs(cap, k)
    BY <1>2, <2>1, <2>2, Zenon
  <2>3. CASE tb[cap] # None \/ ~\E k \in Task : theirs(cap, k)
    BY <2>1, <2>3, Zenon
  <2>4. QED  BY <2>2, <2>3
<1>8. ASSUME NEW cap \in Capability, NEW k \in Task, theirs(cap, k)
      PROVE  f[cap] # None
  BY <1>1, <1>2, <1>3, <1>4, <1>5, <1>8
<1>9. QED  BY <1>5, <1>6, <1>7, <1>8 DEF theirs

LEMMA SweptTombsType ==
    ASSUME NEW r \in [Task -> Row], NEW tb \in [Capability -> Nat \cup {None}],
           NEW t \in Nat, NEW n \in 0..4
    PROVE  SweptTombs(r, tb, t, n) \in [Capability -> Nat \cup {None}]
<1>1. PICK a : a = IF n >= 1 THEN IdleClosed(r, t) ELSE r
  OBVIOUS
<1>2. a \in [Task -> Row]
  BY <1>1, IdleClosedAged
<1>3. PICK e : e = IF n >= 2 THEN Entombed(a, tb, t) ELSE tb
  OBVIOUS
<1>4. e \in [Capability -> Nat \cup {None}]
  BY <1>2, <1>3, EntombedIs
<1>5. Forgotten(e, t) \in [Capability -> Nat \cup {None}]
  BY <1>4 DEF Forgotten
<1>6. SweptTombs(r, tb, t, n) = IF n >= 4 THEN Forgotten(e, t) ELSE e
  BY <1>1, <1>3 DEF SweptTombs
<1>7. QED  BY <1>4, <1>5, <1>6

LEMMA RowsTyped ==
    ASSUME NEW row \in Row, NEW t \in Nat, NEW cap \in Capability
    PROVE  Created(cap, t) \in Row /\ Resumed(row, cap, t) \in Row
<1> USE DEF Row, TaskState
<1>1. NoRow \in Row
  BY DEF NoRow
<1>2. Created(cap, t) \in Row
  BY <1>1 DEF Created
<1>3. Resumed(row, cap, t) \in Row
  <2>1. PICK n \in Nat : n = row.conns + 1
    OBVIOUS
  <2>2. Resumed(row, cap, t) = [row EXCEPT !.pending = cap, !.conns = n, !.updated = t]
    BY <2>1 DEF Resumed
  <2>3. QED  BY <2>2
<1>4. QED  BY <1>2, <1>3

LEMMA RowsKept ==
    ASSUME NEW row \in Row, NEW t \in Nat
    PROVE  /\ Acknowledged(row, t) \in Row /\ RolledBack(row, t) \in Row
           /\ Detached(row, t) \in Row /\ Closed(row, t) \in Row
           /\ \A owned \in BOOLEAN : Inventoried(row, owned, t) \in Row
           /\ Reopened(row, t) \in Row
<1> USE DEF Row, TaskState
<1>1. Acknowledged(row, t) \in Row
  BY DEF Acknowledged
<1>2. RolledBack(row, t) \in Row
  BY DEF RolledBack
<1>3. Detached(row, t) \in Row
  <2>1. PICK n \in Nat : n = IF row.conns > 0 THEN row.conns - 1 ELSE 0
    OBVIOUS
  <2>2. Detached(row, t) = IF Active(row) THEN [row EXCEPT !.conns = n, !.updated = t]
                           ELSE row
    BY <2>1 DEF Detached
  <2>3. QED  BY <2>2
<1>4. Closed(row, t) \in Row
  BY DEF Closed
<1>5. \A owned \in BOOLEAN : Inventoried(row, owned, t) \in Row
  BY DEF Inventoried
<1>6. Reopened(row, t) \in Row
  BY DEF Reopened
<1>7. QED  BY <1>1, <1>2, <1>3, <1>4, <1>5, <1>6

-----------------------------------------------------------------------------
(* Type correctness *)

LEMMA TypeInit == Init => TypeOK
<1> SUFFICES ASSUME Init PROVE TypeOK
  OBVIOUS
<1>1. rows \in [Task -> Row]
  BY DEF Init, NoRow, Row, TaskState
<1>2. conn \in [Conn -> Connection]
  BY DEF Init, FreeConnection, Connection
<1>3. \A c \in Conn : ~conn[c].rotation /\ conn[c].fresh = "none"
  BY DEF Init, FreeConnection
<1>4. store \in Store /\ client \in Client
  BY DEF Init, EmptyStore, Store, IdleClient, Client
<1>5. QED  BY <1>1, <1>2, <1>3, <1>4 DEF Init, TypeOK

-----------------------------------------------------------------------------
(* What each action does to the connections *)

(* Connection x is k but for the fields F. *)
Keeps(x, k, F) ==
    /\ "phase" \in F \/ x.phase = k.phase
    /\ "peer" \in F \/ x.peer = k.peer
    /\ "offered" \in F \/ x.offered = k.offered
    /\ "task" \in F \/ x.task = k.task
    /\ "cap" \in F \/ x.cap = k.cap
    /\ "rotation" \in F \/ x.rotation = k.rotation
    /\ "fresh" \in F \/ x.fresh = k.fresh
    /\ "confirm" \in F \/ x.confirm = k.confirm
    /\ "reason" \in F \/ x.reason = k.reason
    /\ "cancelled" \in F \/ x.cancelled = k.cancelled
    /\ "thread" \in F \/ x.thread = k.thread
    /\ "close" \in F \/ x.close = k.close

(* Connection c becomes x; the others stay. *)
Becomes(c, x) == /\ conn' \in [Conn -> Connection] /\ conn'[c] = x
                 /\ \A d \in Conn : d # c => conn'[d] = conn[d]

LEMMA Written ==
    ASSUME TypeOK, NEW c \in Conn, NEW x \in Connection, Set(c, x)
    PROVE  Becomes(c, x)
BY DEF TypeOK, Set, Becomes

LEMMA EffectConnects ==
    ASSUME TypeOK, NEW c \in Conn, ClientConnects(c)
    PROVE  \E x \in Connection :
             /\ Becomes(c, x) /\ Fresh(x) /\ x.phase = "sent" /\ x.reason = "none"
             /\ x.offered = IF store.pending # None THEN store.pending ELSE store.active
<1>1. PICK first : first = IF store.pending # None THEN store.pending ELSE store.active
  OBVIOUS
<1>2. first \in Capability \cup {None}
  BY <1>1 DEF TypeOK, Store
<1>3. PICK x : x = [FreeConnection EXCEPT !.phase = "sent", !.peer = TRUE, !.offered = first]
  OBVIOUS
<1>4. /\ x \in Connection /\ Fresh(x) /\ x.phase = "sent" /\ x.reason = "none"
      /\ x.offered = first
  BY <1>2, <1>3 DEF FreeConnection, Connection, Fresh
<1>5. Set(c, x)
  BY <1>1, <1>3 DEF ClientConnects
<1>6. QED  BY <1>1, <1>4, <1>5, Written

LEMMA EffectConfirming ==
    ASSUME TypeOK, NEW c \in Conn, ClientPrepares(c) \/ ClientSaves(c)
    PROVE  \E x \in Connection : /\ Becomes(c, x) /\ Keeps(x, conn[c], {"confirm"})
                                 /\ x.confirm = conn[c].cap
<1>1. PICK k : k = conn[c]
  OBVIOUS
<1>2. k \in Connection
  BY <1>1 DEF TypeOK
<1>3. PICK x : x = [k EXCEPT !.confirm = k.cap]
  OBVIOUS
<1>4. x \in Connection /\ Keeps(x, k, {"confirm"}) /\ x.confirm = k.cap
  BY <1>2, <1>3 DEF Connection, Keeps
<1>5. Set(c, x)
  BY <1>1, <1>3 DEF ClientPrepares, ClientSaves
<1>6. QED  BY <1>1, <1>4, <1>5, Written

LEMMA EffectBegins ==
    ASSUME TypeOK, NEW c \in Conn, DisconnectBegins(c)
    PROVE  \E x \in Connection :
             /\ Becomes(c, x)
             /\ \/ /\ conn[c].cancelled /\ Keeps(x, conn[c], {"phase"})
                   /\ x.phase = "gone" /\ rows' = rows
                \/ /\ ~conn[c].cancelled /\ conn[c].rotation
                   /\ RotationHeld(rows[conn[c].task], conn[c].cap)
                   /\ Keeps(x, conn[c], {"phase", "cancelled", "rotation"})
                   /\ x.phase = "leaving" /\ x.cancelled /\ ~x.rotation
                   /\ rows' = [rows EXCEPT ![conn[c].task] = RolledBack(@, now)]
                \/ /\ ~conn[c].cancelled
                   /\ ~(conn[c].rotation /\ RotationHeld(rows[conn[c].task], conn[c].cap))
                   /\ Keeps(x, conn[c], {"phase", "cancelled"})
                   /\ x.phase = "leaving" /\ x.cancelled /\ rows' = rows
<1>1. PICK k : k = conn[c]
  OBVIOUS
<1>2. k \in Connection
  BY <1>1 DEF TypeOK
<1>3. CASE k.cancelled
  <2>1. PICK x : x = [k EXCEPT !.phase = "gone"]
    OBVIOUS
  <2>2. x \in Connection /\ Keeps(x, k, {"phase"}) /\ x.phase = "gone"
    BY <1>2, <2>1 DEF Connection, Keeps
  <2>3. Set(c, x) /\ rows' = rows
    BY <1>1, <1>3, <2>1 DEF DisconnectBegins
  <2>4. QED  BY <1>1, <1>3, <2>2, <2>3, Written
<1>4. CASE ~k.cancelled /\ k.rotation /\ RotationHeld(rows[k.task], k.cap)
  <2>1. PICK x : x = [k EXCEPT !.phase = "leaving", !.cancelled = TRUE, !.rotation = FALSE]
    OBVIOUS
  <2>2. /\ x \in Connection /\ Keeps(x, k, {"phase", "cancelled", "rotation"})
        /\ x.phase = "leaving" /\ x.cancelled /\ ~x.rotation
    BY <1>2, <2>1 DEF Connection, Keeps
  <2>3. Set(c, x) /\ rows' = [rows EXCEPT ![k.task] = RolledBack(@, now)]
    BY <1>1, <1>4, <2>1 DEF DisconnectBegins
  <2>4. QED  BY <1>1, <1>4, <2>2, <2>3, Written
<1>5. CASE ~k.cancelled /\ ~(k.rotation /\ RotationHeld(rows[k.task], k.cap))
  <2>1. PICK x : x = [k EXCEPT !.phase = "leaving", !.cancelled = TRUE]
    OBVIOUS
  <2>2. /\ x \in Connection /\ Keeps(x, k, {"phase", "cancelled"})
        /\ x.phase = "leaving" /\ x.cancelled
    BY <1>2, <2>1 DEF Connection, Keeps
  <2>3. Set(c, x) /\ rows' = rows
    BY <1>1, <1>5, <2>1 DEF DisconnectBegins
  <2>4. QED  BY <1>1, <1>5, <2>2, <2>3, Written
<1>6. QED  BY <1>3, <1>4, <1>5

LEMMA EffectAsksClose ==
    ASSUME TypeOK, NEW c \in Conn, ClientAsksClose(c)
    PROVE  \E x \in Connection :
             /\ Becomes(c, x) /\ Keeps(x, conn[c], {"close"})
             /\ x.close = "asked"
<1>1. PICK k : k = conn[c]
  OBVIOUS
<1>2. k \in Connection
  BY <1>1 DEF TypeOK
<1>3. PICK x : x = [k EXCEPT !.close = "asked"]
  OBVIOUS
<1>4. x \in Connection /\ Keeps(x, k, {"close"}) /\ x.close = "asked"
  BY <1>2, <1>3 DEF Connection, Keeps
<1>5. Set(c, x)
  BY <1>1, <1>3 DEF ClientAsksClose
<1>6. QED  BY <1>1, <1>4, <1>5, Written

LEMMA EffectLeaves ==
    ASSUME TypeOK, NEW c \in Conn, ClientClears(c) \/ ClientLeaves(c)
    PROVE  \E x \in Connection :
             /\ Becomes(c, x) /\ Keeps(x, conn[c], {"peer"})
<1>1. PICK k : k = conn[c]
  OBVIOUS
<1>2. k \in Connection
  BY <1>1 DEF TypeOK
<1>3. PICK x : x = [k EXCEPT !.peer = FALSE]
  OBVIOUS
<1>4. x \in Connection /\ Keeps(x, k, {"peer"})
  BY <1>2, <1>3 DEF Connection, Keeps
<1>5. Set(c, x)
  BY <1>1, <1>3 DEF ClientClears, ClientLeaves
<1>6. QED  BY <1>1, <1>4, <1>5, Written

LEMMA EffectEnds ==
    ASSUME TypeOK, NEW c \in Conn, DisconnectEnds(c)
    PROVE  \E x \in Connection :
             /\ Becomes(c, x) /\ Keeps(x, conn[c], {"phase"})
             /\ x.phase = "gone"
<1>1. PICK k : k = conn[c]
  OBVIOUS
<1>2. k \in Connection
  BY <1>1 DEF TypeOK
<1>3. PICK x : x = [k EXCEPT !.phase = "gone"]
  OBVIOUS
<1>4. x \in Connection /\ Keeps(x, k, {"phase"}) /\ x.phase = "gone"
  BY <1>2, <1>3 DEF Connection, Keeps
<1>5. Set(c, x)
  BY <1>1, <1>3 DEF DisconnectEnds
<1>6. QED  BY <1>1, <1>4, <1>5, Written

LEMMA EffectChecked ==
    ASSUME TypeOK, NEW c \in Conn, RequestChecked(c)
    PROVE  \E x \in Connection :
             /\ Becomes(c, x) /\ Keeps(x, conn[c], {"thread"})
             /\ x.thread = "checked"
<1>1. PICK k : k = conn[c]
  OBVIOUS
<1>2. k \in Connection
  BY <1>1 DEF TypeOK
<1>3. PICK x : x = [k EXCEPT !.thread = "checked"]
  OBVIOUS
<1>4. x \in Connection /\ Keeps(x, k, {"thread"}) /\ x.thread = "checked"
  BY <1>2, <1>3 DEF Connection, Keeps
<1>5. Set(c, x)
  BY <1>1, <1>3 DEF RequestChecked
<1>6. QED  BY <1>1, <1>4, <1>5, Written

LEMMA EffectDelivered ==
    ASSUME TypeOK, NEW c \in Conn, Delivered(c)
    PROVE  \E x \in Connection :
             /\ Becomes(c, x) /\ Keeps(x, conn[c], {"fresh"})
             /\ x.fresh = "delivered"
<1>1. PICK k : k = conn[c]
  OBVIOUS
<1>2. k \in Connection
  BY <1>1 DEF TypeOK
<1>3. PICK x : x = [k EXCEPT !.fresh = "delivered"]
  OBVIOUS
<1>4. x \in Connection /\ Keeps(x, k, {"fresh"}) /\ x.fresh = "delivered"
  BY <1>2, <1>3 DEF Connection, Keeps
<1>5. Set(c, x)
  BY <1>1, <1>3 DEF Delivered
<1>6. QED  BY <1>1, <1>4, <1>5, Written

LEMMA EffectConfirm ==
    ASSUME TypeOK, NEW c \in Conn, Confirm(c)
    PROVE  \E x \in Connection :
             /\ Becomes(c, x)
             /\ \/ /\ conn[c].rotation /\ RotationHeld(rows[conn[c].task], conn[c].cap)
                   /\ Keeps(x, conn[c], {"phase", "rotation", "confirm"})
                   /\ x.phase = "open" /\ ~x.rotation /\ x.confirm = None
                   /\ rows' = [rows EXCEPT ![conn[c].task] = Acknowledged(@, now)]
                \/ /\ conn[c].rotation /\ ~RotationHeld(rows[conn[c].task], conn[c].cap)
                   /\ Keeps(x, conn[c], {"peer", "confirm"})
                   /\ x.confirm = None
                   /\ rows' = rows
                \/ /\ ~conn[c].rotation
                   /\ Keeps(x, conn[c], {"fresh", "confirm"})
                   /\ x.fresh = "none" /\ x.confirm = None
                   /\ rows' = rows
<1>1. PICK k : k = conn[c]
  OBVIOUS
<1>2. k \in Connection
  BY <1>1 DEF TypeOK
<1>3. CASE Set(c, [k EXCEPT !.phase = "open", !.rotation = FALSE, !.confirm = None]) /\ k.rotation /\ RotationHeld(rows[k.task], k.cap) /\ rows' = [rows EXCEPT ![k.task] = Acknowledged(@, now)]
  <2>1. PICK x : x = [k EXCEPT !.phase = "open", !.rotation = FALSE, !.confirm = None]
    OBVIOUS
  <2>2. x \in Connection /\ Keeps(x, k, {"phase", "rotation", "confirm"}) /\ x.phase = "open" /\ ~x.rotation /\ x.confirm = None
    BY <1>2, <2>1 DEF Connection, Keeps
  <2>3. QED  BY <1>1, <1>3, <2>1, <2>2, Written
<1>4. CASE Set(c, [k EXCEPT !.peer = FALSE, !.confirm = None]) /\ k.rotation /\ ~RotationHeld(rows[k.task], k.cap) /\ rows' = rows
  <2>1. PICK x : x = [k EXCEPT !.peer = FALSE, !.confirm = None]
    OBVIOUS
  <2>2. x \in Connection /\ Keeps(x, k, {"peer", "confirm"}) /\ x.confirm = None
    BY <1>2, <2>1 DEF Connection, Keeps
  <2>3. QED  BY <1>1, <1>4, <2>1, <2>2, Written
<1>5. CASE Set(c, [k EXCEPT !.fresh = "none", !.confirm = None]) /\ ~k.rotation /\ rows' = rows
  <2>1. PICK x : x = [k EXCEPT !.fresh = "none", !.confirm = None]
    OBVIOUS
  <2>2. x \in Connection /\ Keeps(x, k, {"fresh", "confirm"}) /\ x.fresh = "none" /\ x.confirm = None
    BY <1>2, <2>1 DEF Connection, Keeps
  <2>3. QED  BY <1>1, <1>5, <2>1, <2>2, Written
<1>6. QED  BY <1>1, <1>3, <1>4, <1>5 DEF Confirm

LEMMA EffectClose ==
    ASSUME TypeOK, NEW c \in Conn, CloseTask(c)
    PROVE  \E x \in Connection :
             /\ Becomes(c, x)
             /\ \/ /\ Keeps(x, conn[c], {"close", "cancelled"})
                   /\ x.close = "done" /\ x.cancelled
                   /\ rows' = [rows EXCEPT ![conn[c].task] = Closed(@, now)]
                \/ /\ Keeps(x, conn[c], {"close"})
                   /\ x.close = "none"
                   /\ rows' = rows
<1>1. PICK k : k = conn[c]
  OBVIOUS
<1>2. k \in Connection
  BY <1>1 DEF TypeOK
<1>3. CASE Set(c, [k EXCEPT !.close = "done", !.cancelled = TRUE]) /\ rows' = [rows EXCEPT ![k.task] = Closed(@, now)]
  <2>1. PICK x : x = [k EXCEPT !.close = "done", !.cancelled = TRUE]
    OBVIOUS
  <2>2. x \in Connection /\ Keeps(x, k, {"close", "cancelled"}) /\ x.close = "done" /\ x.cancelled
    BY <1>2, <2>1 DEF Connection, Keeps
  <2>3. QED  BY <1>1, <1>3, <2>1, <2>2, Written
<1>4. CASE Set(c, [k EXCEPT !.close = "none"]) /\ rows' = rows
  <2>1. PICK x : x = [k EXCEPT !.close = "none"]
    OBVIOUS
  <2>2. x \in Connection /\ Keeps(x, k, {"close"}) /\ x.close = "none"
    BY <1>2, <2>1 DEF Connection, Keeps
  <2>3. QED  BY <1>1, <1>4, <2>1, <2>2, Written
<1>5. QED  BY <1>1, <1>3, <1>4 DEF CloseTask

LEMMA EffectClassify ==
    ASSUME TypeOK, NEW c \in Conn, Classify(c)
    PROVE  \E x \in Connection :
             /\ Becomes(c, x) /\ Keeps(x, conn[c], {"phase", "reason"})
             /\ x.phase = "rejected"
             /\ x.reason = IF ClosedKnown(rows, tombs, conn[c].offered)
                           THEN "task_closed" ELSE "unknown_capability"
<1>1. PICK k : k = conn[c]
  OBVIOUS
<1>2. k \in Connection
  BY <1>1 DEF TypeOK
<1>3. PICK why : why = IF ClosedKnown(rows, tombs, k.offered)
                       THEN "task_closed" ELSE "unknown_capability"
  OBVIOUS
<1>4. why \in {"task_closed", "unknown_capability"}
  BY <1>3
<1>5. PICK x : x = [k EXCEPT !.phase = "rejected", !.reason = why]
  OBVIOUS
<1>6. x \in Connection /\ Keeps(x, k, {"phase", "reason"})
      /\ x.phase = "rejected" /\ x.reason = why
  BY <1>2, <1>4, <1>5 DEF Connection, Keeps
<1>7. Set(c, x)
  BY <1>1, <1>3, <1>5 DEF Classify
<1>8. QED  BY <1>1, <1>3, <1>6, <1>7, Written

LEMMA EffectNegotiate ==
    ASSUME TypeOK, NEW c \in Conn, Negotiate(c)
    PROVE  \E x \in Connection :
             /\ Becomes(c, x)
             /\ \/ /\ conn[c].offered = None
                   /\ Keeps(x, conn[c], {"phase"}) /\ x.phase = "open"
                   /\ rows' = rows /\ tombs' = tombs /\ issued' = issued
                \/ /\ conn[c].offered # None /\ tombs' = SweptTombstones
                   /\ \E t \in Task, next \in Capability \ issued :
                        /\ Resumable(Swept[t], conn[c].offered)
                        /\ Keeps(x, conn[c], {"phase", "task", "cap", "rotation"})
                        /\ x.phase = "barrier" /\ x.task = t /\ x.cap = next /\ x.rotation
                        /\ rows' = [Swept EXCEPT ![t] = Resumed(@, next, now)]
                        /\ issued' = issued \cup {next}
                \/ /\ conn[c].offered # None /\ tombs' = SweptTombstones
                   /\ Keeps(x, conn[c], {"phase"}) /\ x.phase = "classify"
                   /\ rows' = Swept /\ issued' = issued
<1>1. PICK k : k = conn[c]
  OBVIOUS
<1>2. k \in Connection
  BY <1>1 DEF TypeOK
<1>3. CASE /\ k.offered = None /\ Set(c, [k EXCEPT !.phase = "open"])
           /\ UNCHANGED <<rows, tombs, issued>>
  <2>1. PICK x : x = [k EXCEPT !.phase = "open"]
    OBVIOUS
  <2>2. x \in Connection /\ Keeps(x, k, {"phase"}) /\ x.phase = "open"
    BY <1>2, <2>1 DEF Connection, Keeps
  <2>3. Becomes(c, x)
    BY <1>3, <2>1, <2>2, Written
  <2>4. QED  BY <1>1, <1>3, <2>2, <2>3
<1>4. CASE /\ conn[c].offered # None
           /\ tombs' = SweptTombstones
           /\ \E t \in Task, next \in Capability \ issued :
                /\ Resumable(Swept[t], conn[c].offered)
                /\ rows' = [Swept EXCEPT ![t] = Resumed(@, next, now)]
                /\ issued' = issued \cup {next}
                /\ Set(c, [conn[c] EXCEPT !.phase = "barrier", !.task = t,
                                          !.cap = next, !.rotation = TRUE])
  <2>1. PICK t \in Task, next \in Capability \ issued :
          /\ Resumable(Swept[t], conn[c].offered)
          /\ rows' = [Swept EXCEPT ![t] = Resumed(@, next, now)]
          /\ issued' = issued \cup {next}
          /\ Set(c, [conn[c] EXCEPT !.phase = "barrier", !.task = t,
                                    !.cap = next, !.rotation = TRUE])
    BY <1>4, Zenon
  <2>2. \E x : x = [k EXCEPT !.phase = "barrier", !.task = t, !.cap = next,
                             !.rotation = TRUE]
    OBVIOUS
  <2>3. PICK x : x = [k EXCEPT !.phase = "barrier", !.task = t, !.cap = next,
                              !.rotation = TRUE]
    BY <2>2, Zenon
  <2>4. /\ x \in Connection /\ Keeps(x, k, {"phase", "task", "cap", "rotation"})
        /\ x.phase = "barrier" /\ x.task = t /\ x.cap = next /\ x.rotation
    BY <1>2, <2>3 DEF Connection, Keeps
  <2>5. Becomes(c, x)
    BY <1>1, <2>1, <2>3, <2>4, Written
  <2>6. QED  BY <1>1, <1>4, <2>1, <2>4, <2>5
<1>5. CASE /\ conn[c].offered # None
           /\ tombs' = SweptTombstones
           /\ \A t \in Task : ~Resumable(Swept[t], conn[c].offered)
           /\ rows' = Swept
           /\ Set(c, [conn[c] EXCEPT !.phase = "classify"])
           /\ UNCHANGED issued
  <2>1. PICK x : x = [k EXCEPT !.phase = "classify"]
    OBVIOUS
  <2>2. x \in Connection /\ Keeps(x, k, {"phase"}) /\ x.phase = "classify"
    BY <1>2, <2>1 DEF Connection, Keeps
  <2>3. Becomes(c, x)
    BY <1>1, <1>5, <2>1, <2>2, Written
  <2>4. QED  BY <1>1, <1>5, <2>2, <2>3
<1>6. QED  BY <1>1, <1>3, <1>4, <1>5, Zenon DEF Negotiate

LEMMA EffectRejected ==
    ASSUME TypeOK, NEW c \in Conn, ClientRejected(c)
    PROVE  \E x \in Connection :
             /\ Keeps(x, conn[c], {"peer"})
             /\ \/ /\ Becomes(c, x) /\ client' = IdleClient
                   /\ \/ store' = EmptyStore /\ conn[c].reason = "task_closed"
                      \/ store' = store
                \/ /\ store' = store /\ client.rest # None
                   /\ \E d \in Conn, y \in Connection :
                        /\ Free(d) /\ d # c
                        /\ client' = [phase |-> "waiting", conn |-> d, rest |-> None]
                        /\ conn' \in [Conn -> Connection]
                        /\ conn'[c] = x /\ conn'[d] = y
                        /\ \A e \in Conn : e # c /\ e # d => conn'[e] = conn[e]
                        /\ Fresh(y) /\ y.phase = "sent" /\ y.reason = "none"
                        /\ y.offered = client.rest
<1>1. PICK k : k = conn[c]
  OBVIOUS
<1>2. k \in Connection
  BY <1>1 DEF TypeOK
<1>3. PICK x : x = [k EXCEPT !.peer = FALSE]
  OBVIOUS
<1>4. x \in Connection /\ Keeps(x, k, {"peer"})
  BY <1>2, <1>3 DEF Connection, Keeps
<1>5. CASE /\ client.rest # None /\ store' = store
           /\ \E d \in Conn :
               /\ Free(d)
               /\ client' = [phase |-> "waiting", conn |-> d, rest |-> None]
               /\ conn' = [conn EXCEPT
                             ![c].peer = FALSE,
                             ![d] = [FreeConnection EXCEPT
                                       !.phase = "sent", !.peer = TRUE,
                                       !.offered = client.rest]]
  <2>1. PICK d \in Conn :
               /\ Free(d)
               /\ client' = [phase |-> "waiting", conn |-> d, rest |-> None]
               /\ conn' = [conn EXCEPT
                             ![c].peer = FALSE,
                             ![d] = [FreeConnection EXCEPT
                                       !.phase = "sent", !.peer = TRUE,
                                       !.offered = client.rest]]
    BY <1>5
  <2>2. client.rest \in Capability \cup {None}
    BY DEF TypeOK, Client
  <2>3. PICK y : y = [FreeConnection EXCEPT !.phase = "sent", !.peer = TRUE,
                                            !.offered = client.rest]
    OBVIOUS
  <2>4. /\ y \in Connection /\ Fresh(y) /\ y.phase = "sent" /\ y.reason = "none"
        /\ y.offered = client.rest
    BY <2>2, <2>3 DEF FreeConnection, Connection, Fresh
  <2>5. d # c
    BY <2>1 DEF ClientRejected, Free
  <2>6. conn' = [[conn EXCEPT ![c] = x] EXCEPT ![d] = y]
    BY <1>1, <1>3, <2>1, <2>3
  <2>7. /\ conn' \in [Conn -> Connection] /\ conn'[c] = x /\ conn'[d] = y
        /\ \A e \in Conn : e # c /\ e # d => conn'[e] = conn[e]
    BY <1>4, <2>4, <2>5, <2>6 DEF TypeOK
  <2>8. QED  BY <1>1, <1>4, <1>5, <2>1, <2>4, <2>5, <2>7
<1>6. CASE /\ client' = IdleClient /\ Set(c, [conn[c] EXCEPT !.peer = FALSE])
           /\ \/ store' = EmptyStore /\ conn[c].reason = "task_closed"
              \/ store' = store
  <2>1. Becomes(c, x)
    BY <1>1, <1>3, <1>4, <1>6, Written
  <2>2. QED  BY <1>1, <1>4, <1>6, <2>1
<1>7. QED  BY <1>5, <1>6 DEF ClientRejected

LEMMA EffectEnsure ==
    ASSUME TypeOK, NEW c \in Conn, EnsureTask(c)
    PROVE  \E x \in Connection :
             /\ Becomes(c, x)
             /\ \/ /\ conn[c].task # None
                   /\ Keeps(x, conn[c], {"thread"}) /\ x.thread = "ensured"
                   /\ rows' = rows /\ issued' = issued
                \/ /\ conn[c].task = None
                   /\ \E t \in Task, cap \in Capability \ issued :
                        /\ rows[t].state = "absent"
                        /\ rows' = [rows EXCEPT ![t] = Created(cap, now)]
                        /\ issued' = issued \cup {cap}
                        /\ Keeps(x, conn[c], {"task", "cap", "fresh", "thread"})
                        /\ x.task = t /\ x.cap = cap /\ x.fresh = "pending"
                        /\ x.thread = "ensured"
<1>1. PICK k : k = conn[c]
  OBVIOUS
<1>2. k \in Connection
  BY <1>1 DEF TypeOK
<1>3. CASE /\ conn[c].task # None
           /\ Set(c, [conn[c] EXCEPT !.thread = "ensured"])
           /\ UNCHANGED <<rows, issued>>
  <2>1. PICK x : x = [k EXCEPT !.thread = "ensured"]
    OBVIOUS
  <2>2. x \in Connection /\ Keeps(x, k, {"thread"}) /\ x.thread = "ensured"
    BY <1>2, <2>1 DEF Connection, Keeps
  <2>3. Becomes(c, x)
    BY <1>1, <1>3, <2>1, <2>2, Written
  <2>4. QED  BY <1>1, <1>3, <2>2, <2>3
<1>4. CASE /\ conn[c].task = None
           /\ \E t \in Task, cap \in Capability \ issued :
               /\ rows[t].state = "absent"
               /\ rows' = [rows EXCEPT ![t] = Created(cap, now)]
               /\ issued' = issued \cup {cap}
               /\ Set(c, [conn[c] EXCEPT !.task = t, !.cap = cap,
                                         !.fresh = "pending",
                                         !.thread = "ensured"])
  <2>1. PICK t \in Task, cap \in Capability \ issued :
               /\ rows[t].state = "absent"
               /\ rows' = [rows EXCEPT ![t] = Created(cap, now)]
               /\ issued' = issued \cup {cap}
               /\ Set(c, [conn[c] EXCEPT !.task = t, !.cap = cap,
                                         !.fresh = "pending",
                                         !.thread = "ensured"])
    BY <1>4, Zenon
  <2>2. \E x : x = [k EXCEPT !.task = t, !.cap = cap, !.fresh = "pending",
                             !.thread = "ensured"]
    OBVIOUS
  <2>3. PICK x : x = [k EXCEPT !.task = t, !.cap = cap, !.fresh = "pending",
                               !.thread = "ensured"]
    BY <2>2, Zenon
  <2>4. /\ x \in Connection /\ Keeps(x, k, {"task", "cap", "fresh", "thread"})
        /\ x.task = t /\ x.cap = cap /\ x.fresh = "pending" /\ x.thread = "ensured"
    BY <1>2, <2>3 DEF Connection, Keeps
  <2>5. Becomes(c, x)
    BY <1>1, <2>1, <2>3, <2>4, Written
  <2>6. QED  BY <1>1, <1>4, <2>1, <2>4, <2>5
<1>5. QED  BY <1>3, <1>4, Zenon DEF EnsureTask

LEMMA EffectRespond ==
    ASSUME TypeOK, NEW c \in Conn, Respond(c)
    PROVE  \E x \in Connection :
             /\ Becomes(c, x) /\ Keeps(x, conn[c], {"thread", "fresh"})
             /\ x.thread = "none"
             /\ x.fresh = IF conn[c].fresh = "pending" THEN "inFlight" ELSE conn[c].fresh
<1>1. PICK k : k = conn[c]
  OBVIOUS
<1>2. k \in Connection
  BY <1>1 DEF TypeOK
<1>3. PICK f : f = IF k.fresh = "pending" THEN "inFlight" ELSE k.fresh
  OBVIOUS
<1>4. f \in {"none", "pending", "inFlight", "delivered"}
  BY <1>2, <1>3 DEF Connection
<1>5. PICK x : x = [k EXCEPT !.thread = "none", !.fresh = f]
  OBVIOUS
<1>6. /\ x \in Connection /\ Keeps(x, k, {"thread", "fresh"})
      /\ x.thread = "none" /\ x.fresh = f
  BY <1>2, <1>4, <1>5 DEF Connection, Keeps
<1>7. Set(c, x)
  BY <1>1, <1>3, <1>5 DEF Respond
<1>8. QED  BY <1>1, <1>3, <1>6, <1>7, Written

(* A crash ends every connection and every thread. *)
Gone(x, k) ==
    \/ k.phase = "free" /\ x = k
    \/ /\ Keeps(x, k, {"phase", "thread", "confirm", "close"})
       /\ x.phase = "gone" /\ x.thread = "none" /\ x.confirm = None
       /\ x.close = IF k.close = "asked" THEN "none" ELSE k.close

LEMMA CrashEnds ==
    ASSUME TypeOK, Crash, NEW c \in Conn
    PROVE  conn'[c] \in Connection /\ Gone(conn'[c], conn[c])
<1>1. PICK k : k = conn[c]
  OBVIOUS
<1>2. k \in Connection
  BY <1>1 DEF TypeOK
<1>3. PICK z : z = IF k.close = "asked" THEN "none" ELSE k.close
  OBVIOUS
<1>4. z \in {"none", "asked", "done"}
  BY <1>2, <1>3 DEF Connection
<1>5. PICK x : x = [k EXCEPT !.phase = "gone", !.thread = "none", !.confirm = None,
                             !.close = z]
  OBVIOUS
<1>6. /\ x \in Connection /\ Keeps(x, k, {"phase", "thread", "confirm", "close"})
      /\ x.phase = "gone" /\ x.thread = "none" /\ x.confirm = None /\ x.close = z
  BY <1>2, <1>4, <1>5 DEF Connection, Keeps
<1>7. conn'[c] = IF k.phase = "free" THEN k ELSE x
  <2>1. conn'[c] = IF conn[c].phase = "free" THEN conn[c]
                   ELSE [conn[c] EXCEPT !.phase = "gone", !.thread = "none",
                                        !.confirm = None,
                                        !.close = IF @ = "asked" THEN "none"
                                                  ELSE @]
    BY Zenon DEF Crash
  <2>2. QED  BY <1>1, <1>3, <1>5, <2>1
<1>8. QED  BY <1>1, <1>2, <1>3, <1>6, <1>7 DEF Gone

LEMMA EffectCrash ==
    ASSUME TypeOK, Crash
    PROVE  conn' \in [Conn -> Connection] /\ \A c \in Conn : Gone(conn'[c], conn[c])
<1>1. conn' = [c \in Conn |-> conn'[c]]
  BY Zenon DEF Crash
<1>2. QED  BY <1>1, CrashEnds

-----------------------------------------------------------------------------
(* Type correctness of a step *)

Leased(k, caps) ==
    k.rotation \/ k.fresh # "none" => k.task \in Task /\ k.cap \in caps

LEMMA ConnTyped ==
    ASSUME TypeOK, NEW c \in Conn, NEW x, Becomes(c, x),
           issued \subseteq issued', Leased(x, issued')
    PROVE  /\ conn' \in [Conn -> Connection]
           /\ \A d \in Conn : Leased(conn'[d], issued')
BY DEF TypeOK, Becomes, Leased

LEMMA TypeClient ==
    ASSUME TypeOK, NEW c \in Conn,
           \/ ClientConnects(c) \/ ClientRejected(c) \/ ClientPrepares(c)
           \/ ClientActivates(c) \/ ClientStarts(c) \/ ClientSaves(c)
           \/ ClientAsksClose(c) \/ ClientClears(c) \/ ClientLeaves(c)
    PROVE  TypeOK'
<1>1. CASE ClientConnects(c)
  <2>1. conn' \in [Conn -> Connection] /\ \A d \in Conn : Leased(conn'[d], issued')
    BY <1>1, EffectConnects, ConnTyped DEF ClientConnects, Fresh, Leased
  <2>2. client' \in Client
    BY <1>1 DEF ClientConnects, TypeOK, Client, Store
  <2>3. QED  BY <1>1, <2>1, <2>2 DEF ClientConnects, TypeOK, Leased
<1>2. CASE ClientRejected(c)
  <2>1. conn' \in [Conn -> Connection] /\ \A d \in Conn : Leased(conn'[d], issued')
    <3>1. issued' = issued
      BY <1>2 DEF ClientRejected
    <3>2. QED
      BY <1>2, <3>1, EffectRejected DEF Becomes, Fresh, Leased, Keeps, TypeOK
  <2>2. client' \in Client
    BY <1>2 DEF ClientRejected, TypeOK, Client, IdleClient
  <2>3. store' \in Store
    BY <1>2 DEF ClientRejected, TypeOK, Store, EmptyStore
  <2>4. QED  BY <1>2, <2>1, <2>2, <2>3 DEF ClientRejected, TypeOK, Leased
<1>3. CASE ClientPrepares(c) \/ ClientSaves(c)
  <2>1. PICK x \in Connection : Becomes(c, x) /\ Keeps(x, conn[c], {"confirm"})
    BY <1>3, EffectConfirming
  <2>2. Leased(x, issued)
    BY <2>1 DEF TypeOK, Leased, Keeps
  <2>3. issued' = issued
    BY <1>3 DEF ClientPrepares, ClientSaves
  <2>4. conn' \in [Conn -> Connection] /\ \A d \in Conn : Leased(conn'[d], issued')
    BY <2>1, <2>2, <2>3, ConnTyped
  <2>5. client' \in Client
    BY <1>3 DEF ClientPrepares, ClientSaves, TypeOK, Client
  <2>6. store' \in Store
    <3>1. conn[c].cap \in Capability \cup {None} /\ conn[c].offered \in Capability \cup {None}
      BY DEF TypeOK, Connection
    <3>2. QED  BY <1>3, <3>1 DEF ClientPrepares, ClientSaves, Store
  <2>7. QED
    BY <1>3, <2>4, <2>5, <2>6 DEF ClientPrepares, ClientSaves, TypeOK, Leased
<1>4. CASE ClientActivates(c) \/ ClientStarts(c)
  <2>1. conn[c].cap \in Capability \cup {None}
    BY DEF TypeOK, Connection
  <2>2. client' \in Client /\ store' \in Store
    BY <1>4, <2>1 DEF ClientActivates, ClientStarts, TypeOK, Client, Store
  <2>3. QED  BY <1>4, <2>2 DEF ClientActivates, ClientStarts, TypeOK
<1>5. CASE ClientAsksClose(c)
  <2>1. PICK x \in Connection : Becomes(c, x) /\ Keeps(x, conn[c], {"close"})
    BY <1>5, EffectAsksClose
  <2>2. Leased(x, issued)
    BY <2>1 DEF TypeOK, Leased, Keeps
  <2>3. conn' \in [Conn -> Connection] /\ \A d \in Conn : Leased(conn'[d], issued')
    BY <1>5, <2>1, <2>2, ConnTyped DEF ClientAsksClose
  <2>4. client' \in Client
    BY <1>5 DEF ClientAsksClose, TypeOK, Client
  <2>5. QED  BY <1>5, <2>3, <2>4 DEF ClientAsksClose, TypeOK, Leased
<1>6. CASE ClientClears(c) \/ ClientLeaves(c)
  <2>1. PICK x \in Connection : Becomes(c, x) /\ Keeps(x, conn[c], {"peer"})
    BY <1>6, EffectLeaves
  <2>2. Leased(x, issued)
    BY <2>1 DEF TypeOK, Leased, Keeps
  <2>3. issued' = issued
    BY <1>6 DEF ClientClears, ClientLeaves
  <2>4. conn' \in [Conn -> Connection] /\ \A d \in Conn : Leased(conn'[d], issued')
    BY <2>1, <2>2, <2>3, ConnTyped
  <2>5. client' \in Client /\ store' \in Store
    BY <1>6 DEF ClientClears, ClientLeaves, TypeOK, Client, IdleClient, Store, EmptyStore
  <2>6. QED  BY <1>6, <2>4, <2>5 DEF ClientClears, ClientLeaves, TypeOK, Leased
<1>7. QED  BY <1>1, <1>2, <1>3, <1>4, <1>5, <1>6

LEMMA RowFacts ==
    TypeOK => \A t \in Task :
           /\ rows[t] \in Row
           /\ Acknowledged(rows[t], now) \in Row /\ RolledBack(rows[t], now) \in Row
           /\ Detached(rows[t], now) \in Row /\ Closed(rows[t], now) \in Row
           /\ \A owned \in BOOLEAN : Inventoried(rows[t], owned, now) \in Row
           /\ Reopened(rows[t], now) \in Row
<1> SUFFICES ASSUME TypeOK, NEW t \in Task
             PROVE  /\ rows[t] \in Row
                    /\ Acknowledged(rows[t], now) \in Row /\ RolledBack(rows[t], now) \in Row
                    /\ Detached(rows[t], now) \in Row /\ Closed(rows[t], now) \in Row
                    /\ \A owned \in BOOLEAN : Inventoried(rows[t], owned, now) \in Row
                    /\ Reopened(rows[t], now) \in Row
  BY Zenon
<1>1. rows[t] \in Row /\ now \in Nat
  BY DEF TypeOK
<1>2. QED  BY <1>1, RowsKept, Zenon

LEMMA SweptTyped ==
    ASSUME TypeOK
    PROVE  /\ Swept \in [Task -> Row]
           /\ SweptTombstones \in [Capability -> Nat \cup {None}]
BY SweptRowsAged, SweptTombsType, 4 \in 0..4 DEF TypeOK, Swept, SweptTombstones

LEMMA TypeServer ==
    ASSUME TypeOK, NEW c \in Conn,
           \/ Negotiate(c) \/ Classify(c) \/ DisconnectBegins(c)
           \/ DisconnectEnds(c) \/ Confirm(c)
    PROVE  TypeOK'
<1>1. CASE Negotiate(c)
  <2>1. PICK s : s = Swept
    OBVIOUS
  <2>2. PICK tb : tb = SweptTombstones
    OBVIOUS
  <2>3. s \in [Task -> Row] /\ tb \in [Capability -> Nat \cup {None}]
    BY <2>1, <2>2, SweptTyped
  <2>4. \A t \in Task, next \in Capability : Resumed(s[t], next, now) \in Row
    BY <2>3, RowsTyped DEF TypeOK
  <2>5. PICK x \in Connection :
             /\ Becomes(c, x)
             /\ \/ /\ Keeps(x, conn[c], {"phase"})
                   /\ rows' = rows /\ tombs' = tombs /\ issued' = issued
                \/ /\ tombs' = tb
                   /\ \E t \in Task, next \in Capability \ issued :
                        /\ x.task = t /\ x.cap = next
                        /\ rows' = [s EXCEPT ![t] = Resumed(@, next, now)]
                        /\ issued' = issued \cup {next}
                \/ /\ tombs' = tb /\ Keeps(x, conn[c], {"phase"})
                   /\ rows' = s /\ issued' = issued
    BY <1>1, <2>1, <2>2, EffectNegotiate
  <2>6. /\ rows' \in [Task -> Row] /\ tombs' \in [Capability -> Nat \cup {None}]
        /\ issued' \subseteq Capability /\ issued \subseteq issued' /\ Leased(x, issued')
    BY <2>3, <2>4, <2>5 DEF TypeOK, Leased, Keeps
  <2>7. conn' \in [Conn -> Connection] /\ \A d \in Conn : Leased(conn'[d], issued')
    BY <2>5, <2>6, ConnTyped
  <2>8. UNCHANGED <<now, up, crashes, store, client, busyAt>>
    BY <1>1, Zenon DEF Negotiate
  <2>9. QED  BY <2>6, <2>7, <2>8 DEF TypeOK, Leased
<1>2. CASE Classify(c)
  <2>1. PICK x \in Connection : Becomes(c, x) /\ Keeps(x, conn[c], {"phase", "reason"})
    BY <1>2, EffectClassify
  <2>2. Leased(x, issued)
    BY <2>1 DEF TypeOK, Leased, Keeps
  <2>3. conn' \in [Conn -> Connection] /\ \A d \in Conn : Leased(conn'[d], issued')
    BY <1>2, <2>1, <2>2, ConnTyped DEF Classify
  <2>4. QED  BY <1>2, <2>3 DEF Classify, TypeOK, Leased
<1>3. CASE DisconnectBegins(c)
  <2>1. \A t \in Task : RolledBack(rows[t], now) \in Row
    BY RowFacts, Zenon
  <2>2. PICK x \in Connection :
             /\ Becomes(c, x)
             /\ Keeps(x, conn[c], {"phase", "cancelled", "rotation"})
             /\ x.rotation => conn[c].rotation
             /\ rows' \in {rows, [rows EXCEPT ![conn[c].task] = RolledBack(@, now)]}
    BY <1>3, EffectBegins DEF Keeps
  <2>3. Leased(x, issued)
    BY <2>2 DEF TypeOK, Leased, Keeps
  <2>4. rows' \in [Task -> Row]
    BY <2>1, <2>2 DEF TypeOK
  <2>5. conn' \in [Conn -> Connection] /\ \A d \in Conn : Leased(conn'[d], issued')
    BY <1>3, <2>2, <2>3, ConnTyped DEF DisconnectBegins
  <2>6. QED  BY <1>3, <2>4, <2>5 DEF DisconnectBegins, TypeOK, Leased
<1>4. CASE DisconnectEnds(c)
  <2>1. \A t \in Task : Detached(rows[t], now) \in Row /\ Closed(rows[t], now) \in Row
    BY RowFacts, Zenon
  <2>2. rows' \in [Task -> Row]
    BY <1>4, <2>1 DEF DisconnectEnds, TypeOK
  <2>3. busyAt' \in [Task -> Nat]
    BY <1>4 DEF DisconnectEnds, TypeOK, Leaves
  <2>4. PICK x \in Connection : Becomes(c, x) /\ Keeps(x, conn[c], {"phase"})
    BY <1>4, EffectEnds
  <2>5. Leased(x, issued)
    BY <2>4 DEF TypeOK, Leased, Keeps
  <2>6. conn' \in [Conn -> Connection] /\ \A d \in Conn : Leased(conn'[d], issued')
    BY <1>4, <2>4, <2>5, ConnTyped DEF DisconnectEnds
  <2>7. QED  BY <1>4, <2>2, <2>3, <2>6 DEF DisconnectEnds, TypeOK, Leased
<1>5. CASE Confirm(c)
  <2>1. \A t \in Task : Acknowledged(rows[t], now) \in Row
    BY RowFacts, Zenon
  <2>2. PICK x \in Connection :
             /\ Becomes(c, x)
             /\ Keeps(x, conn[c], {"phase", "rotation", "confirm", "peer", "fresh"})
             /\ x.rotation => conn[c].rotation
             /\ x.fresh \in {"none", conn[c].fresh}
             /\ rows' \in {rows, [rows EXCEPT ![conn[c].task] = Acknowledged(@, now)]}
    BY <1>5, EffectConfirm DEF Keeps
  <2>3. Leased(x, issued)
    BY <2>2 DEF TypeOK, Leased, Keeps
  <2>4. rows' \in [Task -> Row]
    BY <2>1, <2>2 DEF TypeOK
  <2>5. conn' \in [Conn -> Connection] /\ \A d \in Conn : Leased(conn'[d], issued')
    BY <1>5, <2>2, <2>3, ConnTyped DEF Confirm
  <2>6. QED  BY <1>5, <2>4, <2>5 DEF Confirm, TypeOK, Leased
<1>6. QED  BY <1>1, <1>2, <1>3, <1>4, <1>5

LEMMA TypeThread ==
    ASSUME TypeOK, NEW c \in Conn,
           \/ RequestChecked(c) \/ EnsureTask(c) \/ Respond(c)
           \/ Delivered(c) \/ CloseTask(c)
    PROVE  TypeOK'
<1>1. CASE RequestChecked(c)
  <2>1. PICK x \in Connection : Becomes(c, x) /\ Keeps(x, conn[c], {"thread"})
    BY <1>1, EffectChecked
  <2>2. Leased(x, issued)
    BY <2>1 DEF TypeOK, Leased, Keeps
  <2>3. conn' \in [Conn -> Connection] /\ \A d \in Conn : Leased(conn'[d], issued')
    BY <1>1, <2>1, <2>2, ConnTyped DEF RequestChecked
  <2>4. QED  BY <1>1, <2>3 DEF RequestChecked, TypeOK, Leased
<1>2. CASE EnsureTask(c)
  <2>1. \A cap \in Capability : Created(cap, now) \in Row
    BY DEF TypeOK, Created, NoRow, Row, TaskState
  <2>2. PICK x \in Connection :
             /\ Becomes(c, x)
             /\ \/ Keeps(x, conn[c], {"thread"}) /\ rows' = rows /\ issued' = issued
                \/ \E t \in Task, cap \in Capability \ issued :
                        /\ rows' = [rows EXCEPT ![t] = Created(cap, now)]
                        /\ issued' = issued \cup {cap}
                        /\ x.task = t /\ x.cap = cap
    BY <1>2, EffectEnsure
  <2>3. /\ rows' \in [Task -> Row]
        /\ issued' \subseteq Capability /\ issued \subseteq issued' /\ Leased(x, issued')
    BY <2>1, <2>2 DEF TypeOK, Leased, Keeps
  <2>4. conn' \in [Conn -> Connection] /\ \A d \in Conn : Leased(conn'[d], issued')
    BY <2>2, <2>3, ConnTyped
  <2>5. UNCHANGED <<now, up, crashes, tombs, store, client, busyAt>>
    BY <1>2, Zenon DEF EnsureTask
  <2>6. QED  BY <2>3, <2>4, <2>5 DEF TypeOK, Leased
<1>3. CASE Respond(c)
  <2>1. rows' \in [Task -> Row] /\ tombs' \in [Capability -> Nat \cup {None}]
    BY <1>3, SweptTyped DEF Respond, TypeOK
  <2>2. PICK x \in Connection :
          /\ Becomes(c, x) /\ Keeps(x, conn[c], {"thread", "fresh"})
          /\ x.fresh = IF conn[c].fresh = "pending" THEN "inFlight" ELSE conn[c].fresh
    BY <1>3, EffectRespond
  <2>3. Leased(x, issued)
    BY <2>2 DEF TypeOK, Leased, Keeps
  <2>4. conn' \in [Conn -> Connection] /\ \A d \in Conn : Leased(conn'[d], issued')
    BY <1>3, <2>2, <2>3, ConnTyped DEF Respond
  <2>5. QED  BY <1>3, <2>1, <2>4 DEF Respond, TypeOK, Leased
<1>4. CASE Delivered(c)
  <2>1. PICK x \in Connection : Becomes(c, x) /\ Keeps(x, conn[c], {"fresh"})
    BY <1>4, EffectDelivered
  <2>2. Leased(x, issued)
    BY <1>4, <2>1 DEF TypeOK, Leased, Keeps, Delivered
  <2>3. conn' \in [Conn -> Connection] /\ \A d \in Conn : Leased(conn'[d], issued')
    BY <1>4, <2>1, <2>2, ConnTyped DEF Delivered
  <2>4. QED  BY <1>4, <2>3 DEF Delivered, TypeOK, Leased
<1>5. CASE CloseTask(c)
  <2>1. \A t \in Task : Closed(rows[t], now) \in Row
    BY RowFacts, Zenon
  <2>2. rows' \in [Task -> Row]
    BY <1>5, <2>1 DEF CloseTask, TypeOK
  <2>3. PICK x \in Connection : Becomes(c, x) /\ Keeps(x, conn[c], {"close", "cancelled"})
    BY <1>5, EffectClose DEF Keeps
  <2>4. Leased(x, issued)
    BY <2>3 DEF TypeOK, Leased, Keeps
  <2>5. conn' \in [Conn -> Connection] /\ \A d \in Conn : Leased(conn'[d], issued')
    BY <1>5, <2>3, <2>4, ConnTyped DEF CloseTask
  <2>6. QED  BY <1>5, <2>2, <2>5 DEF CloseTask, TypeOK, Leased
<1>6. QED  BY <1>1, <1>2, <1>3, <1>4, <1>5

LEMMA TypeRest ==
    ASSUME TypeOK, (\E S \in SUBSET Task : Inventory(S)) \/ Crash \/ Boot \/ Tick
    PROVE  TypeOK'
<1>1. ASSUME NEW S \in SUBSET Task, Inventory(S)
      PROVE  TypeOK'
  <2>1. \A t \in Task : Inventoried(rows[t], t \in S, now) \in Row
    <3>1. \A t \in Task : (t \in S) \in BOOLEAN
      OBVIOUS
    <3>2. QED  BY <3>1, RowFacts, Zenon
  <2>2. rows' \in [Task -> Row]
    BY <1>1, <2>1 DEF Inventory
  <2>3. busyAt' \in [Task -> Nat]
    BY <1>1 DEF Inventory, TypeOK
  <2>4. QED  BY <1>1, <2>2, <2>3 DEF Inventory, TypeOK
<1>2. CASE Crash
  <2>1. PICK n \in 0..3 : /\ rows' = SweptRows(rows, now, n)
                         /\ tombs' = SweptTombs(rows, tombs, now, n)
    BY <1>2, Zenon DEF Crash
  <2>2. rows \in [Task -> Row] /\ tombs \in [Capability -> Nat \cup {None}] /\ now \in Nat
        /\ n \in 0..4
    BY DEF TypeOK
  <2>3. rows' \in [Task -> Row] /\ tombs' \in [Capability -> Nat \cup {None}]
    BY <2>1, <2>2, SweptRowsAged, SweptTombsType
  <2>4. busyAt' = [t \in Task |-> IF Attached(t) # {} THEN now ELSE busyAt[t]]
    BY <1>2, Zenon DEF Crash
  <2>5. busyAt' \in [Task -> Nat]
    BY <2>4 DEF TypeOK
  <2>6. conn' \in [Conn -> Connection] /\ \A d \in Conn : Leased(conn'[d], issued)
    BY <1>2, EffectCrash DEF TypeOK, Leased, Gone, Keeps
  <2>7. up' = FALSE /\ crashes' = crashes + 1 /\ UNCHANGED <<now, issued, store, client>>
    BY <1>2, Zenon DEF Crash
  <2>8. crashes' \in Nat /\ up' \in BOOLEAN
    <3>1. crashes \in Nat /\ crashes' = crashes + 1
      BY <2>7, Zenon DEF TypeOK
    <3>2. up' \in BOOLEAN
      BY <2>7, Zenon
    <3>3. QED  BY <3>1, <3>2
  <2>9. QED  BY <2>3, <2>5, <2>6, <2>7, <2>8 DEF TypeOK, Leased
<1>3. CASE Boot
  <2>1. PICK r : r = [t \in Task |-> Reopened(rows[t], now)]
    OBVIOUS
  <2>2. r \in [Task -> Row]
    <3>1. \A t \in Task : Reopened(rows[t], now) \in Row
      BY RowFacts, Zenon
    <3>2. QED  BY <2>1, <3>1
  <2>3. PICK n \in 0..4 :
          /\ up' = (n = 4)
          /\ crashes' = IF n < 4 THEN crashes + 1 ELSE crashes
          /\ rows' = SweptRows(r, now, n)
          /\ tombs' = SweptTombs(r, tombs, now, n)
    <3>1. \E n \in 0..4 :
          /\ up' = (n = 4)
          /\ crashes' = IF n < 4 THEN crashes + 1 ELSE crashes
          /\ rows' = SweptRows([t \in Task |-> Reopened(rows[t], now)], now, n)
          /\ tombs' = SweptTombs([t \in Task |-> Reopened(rows[t], now)], tombs, now, n)
      BY <1>3 DEF Boot
    <3>2. QED  BY <2>1, <3>1, Zenon
  <2>4. tombs \in [Capability -> Nat \cup {None}] /\ now \in Nat
    BY DEF TypeOK
  <2>5. rows' \in [Task -> Row] /\ tombs' \in [Capability -> Nat \cup {None}]
    BY <2>2, <2>3, <2>4, SweptRowsAged, SweptTombsType
  <2>6. crashes' \in Nat /\ up' \in BOOLEAN
    BY <2>3 DEF TypeOK
  <2>7. UNCHANGED <<now, issued, conn, store, client, busyAt>>
    BY <1>3, Zenon DEF Boot
  <2>8. QED  BY <2>5, <2>6, <2>7 DEF TypeOK
<1>4. CASE Tick
  BY <1>4 DEF Tick, TypeOK
<1>5. QED  BY <1>1, <1>2, <1>3, <1>4

LEMMA TypeStep == TypeOK /\ [Next]_vars => TypeOK'
<1> SUFFICES ASSUME TypeOK, [Next]_vars PROVE TypeOK'
  OBVIOUS
<1>1. CASE UNCHANGED vars
  BY <1>1 DEF vars, TypeOK
<1>2. QED  BY <1>1, TypeClient, TypeServer, TypeThread, TypeRest DEF Next

(* Rows, tombs, connections, the client and its file always have the shape *)
(* the code gives them; a connection that rotates or holds a new capability*)
(* has a task, and a capability that was generated (ConnectionContext).    *)
THEOREM LeasesTypeCorrect == Spec => []TypeOK
<1>1. Init => TypeOK
  BY TypeInit
<1>2. QED  BY <1>1, TypeStep, PTL DEF Spec

-----------------------------------------------------------------------------
(* Capabilities: the steps that hand none out and confirm none *)

LEMMA CapInit == Init => CapInv
<1> SUFFICES ASSUME Init PROVE CapInv
  OBVIOUS
<1>1. \A c \in Conn : conn[c].phase = "free" /\ conn[c].offered = None /\ Fresh(conn[c])
  BY DEF Init, FreeConnection, Fresh
<1>2. \A t \in Task : /\ rows[t].state = "absent" /\ rows[t].resume = None
                      /\ rows[t].pending = None
  <2>1. \A t \in Task : rows[t] = NoRow
    BY DEF Init
  <2>2. NoRow.state = "absent" /\ NoRow.resume = None /\ NoRow.pending = None
    BY DEF NoRow
  <2>3. QED  BY <2>1, <2>2, Zenon
<1>3. ConnOK
  BY <1>1 DEF ConnOK, KnowsOK, Fresh, Served
<1>4. FromIssued
  BY <1>1, <1>2 DEF FromIssued, Fresh, Init, EmptyStore, IdleClient
<1>5. HeldOnce /\ CapsOwned
  BY <1>1, <1>2 DEF HeldOnce, CapsOwned, Fresh, Holds
<1>6. AtBarrier /\ Spent /\ OldCapabilityIsDead
  BY <1>1 DEF AtBarrier, Spent, OldCapabilityIsDead
<1>7. QED  BY <1>3, <1>4, <1>5, <1>6 DEF CapInv

(* A row that loses its pending capability at most. *)
CalmRow(s, row) == /\ s.resume = row.resume /\ s.pending \in {row.pending, None}
                   /\ s.state = "absent" <=> row.state = "absent"

(* A connection that gets no capability and passes no barrier, or is new. *)
CalmConn(x, k) ==
    \/ /\ x.task = k.task /\ x.cap = k.cap /\ x.offered = k.offered
       /\ x.phase = "barrier" => k.phase = "barrier"
       /\ x.phase = "open" /\ x.offered # None => k.phase = "open"
    \/ /\ x.phase = "sent" /\ x.task = None /\ x.cap = None
       /\ x.offered \in issued \cup {None}

NamesIssued == /\ store'.active \in issued \cup {None}
               /\ store'.pending \in issued \cup {None}
               /\ client'.rest \in issued \cup {None}

LEMMA CalmStep ==
    ASSUME TypeOK, CapInv, ConnOK', issued' = issued, NamesIssued,
           \A t \in Task : CalmRow(rows'[t], rows[t]),
           \A d \in Conn : CalmConn(conn'[d], conn[d]),
           \A d \in Conn : conn'[d].phase = "barrier" =>
              rows'[conn[d].task].pending = rows[conn[d].task].pending
    PROVE  CapInv'
<1> USE DEF CapInv
<1>1. \A t \in Task : \A cap \in Capability : Holds(rows'[t], cap) => Holds(rows[t], cap)
  BY DEF CalmRow, Holds
<1>2. FromIssued'
  <2>1. \A t \in Task : /\ rows'[t].resume \in issued' \cup {None}
                        /\ rows'[t].pending \in issued' \cup {None}
    BY DEF FromIssued, CalmRow
  <2>2. \A c \in Conn : /\ conn'[c].cap \in issued' \cup {None}
                        /\ conn'[c].offered \in issued' \cup {None}
    BY DEF FromIssued, CalmConn
  <2>3. QED  BY <2>1, <2>2 DEF FromIssued, NamesIssued
<1>3. HeldOnce'
  <2>1. \A t \in Task : rows'[t].pending # None => rows'[t].pending # rows'[t].resume
    BY DEF HeldOnce, CalmRow
  <2>2. \A t \in Task : rows'[t].state = "absent" =>
          rows'[t].resume = None /\ rows'[t].pending = None
    BY DEF HeldOnce, CalmRow
  <2>3. QED  BY <1>1, <2>1, <2>2 DEF HeldOnce
<1>4. CapsOwned'
  <2>1. \A c \in Conn : conn'[c].task \in Task \cup {None}
                        /\ conn[c].cap \in Capability \cup {None}
                        /\ conn[c].task \in Task \cup {None}
    BY DEF TypeOK, Connection, CalmConn
  <2>2. \A c \in Conn : conn'[c].task # None => rows'[conn'[c].task].state # "absent"
    BY <2>1 DEF CapsOwned, CalmConn, CalmRow
  <2>3. \A c \in Conn : conn'[c].cap # None => conn'[c].cap = conn[c].cap
                                               /\ conn'[c].task = conn[c].task
    BY DEF CalmConn
  <2>4. \A c \in Conn : \A u \in Task : Holds(rows'[u], conn'[c].cap) => u = conn'[c].task
    BY <1>1, <2>1, <2>3 DEF CapsOwned, Holds
  <2>5. \A c, d \in Conn : c # d /\ conn'[c].cap # None => conn'[c].cap # conn'[d].cap
    BY <2>3 DEF CapsOwned
  <2>6. QED  BY <2>2, <2>4, <2>5 DEF CapsOwned
<1>5. \A d \in Conn : conn'[d].phase = "barrier" =>
         /\ conn[d].phase = "barrier" /\ conn'[d].task = conn[d].task
         /\ conn'[d].cap = conn[d].cap /\ conn'[d].offered = conn[d].offered
  BY DEF CalmConn
<1>6. \A d \in Conn : conn'[d].phase = "open" /\ conn'[d].offered # None =>
         conn[d].phase = "open" /\ conn'[d].offered = conn[d].offered
  BY DEF CalmConn
<1>7. AtBarrier'
  <2>1. \A d \in Conn : conn[d].phase = "barrier" => conn[d].task \in Task
    BY DEF ConnOK, KnowsOK, TypeOK, Connection
  <2>2. QED  BY <1>5, <2>1 DEF AtBarrier, CalmRow
<1>8. Spent'
  <2>1. \A d \in Conn : conn[d].offered \in Capability \cup {None}
    BY DEF TypeOK, Connection
  <2>2. QED  BY <1>1, <1>6, <2>1 DEF Spent, Holds
<1>9. OldCapabilityIsDead'
  BY <1>5, <1>6 DEF OldCapabilityIsDead
<1>10. QED  BY <1>2, <1>3, <1>4, <1>7, <1>8, <1>9

KeptRows == \A t \in Task : /\ rows'[t].resume = rows[t].resume
                            /\ rows'[t].pending = rows[t].pending
                            /\ rows'[t].state = "absent" <=> rows[t].state = "absent"

(* One connection moves. *)
LEMMA OneMoves ==
    ASSUME TypeOK, CapInv, NEW c \in Conn, NEW x \in Connection, Becomes(c, x), KnowsOK(x),
           up' = up, ~up => x.phase \notin Served, CalmConn(x, conn[c]),
           issued' = issued, NamesIssued, KeptRows
    PROVE  CapInv'
<1>1. ConnOK'
  BY DEF CapInv, ConnOK, Becomes
<1>2. \A d \in Conn : CalmConn(conn'[d], conn[d])
  BY DEF Becomes, CalmConn
<1>3. \A t \in Task : CalmRow(rows'[t], rows[t])
  BY DEF KeptRows, CalmRow
<1>4. \A d \in Conn : conn'[d].phase = "barrier" => conn[d].task \in Task
  BY <1>2 DEF CalmConn, CapInv, ConnOK, KnowsOK, TypeOK, Connection
<1>5. \A d \in Conn : conn'[d].phase = "barrier" =>
              rows'[conn[d].task].pending = rows[conn[d].task].pending
  BY <1>4, Zenon DEF KeptRows
<1>6. QED  BY <1>1, <1>2, <1>3, <1>5, CalmStep

LEMMA NamesKept ==
    ASSUME CapInv, UNCHANGED <<store, client>>
    PROVE  NamesIssued
BY DEF CapInv, FromIssued, NamesIssued

LEMMA CapsStay ==
    ASSUME TypeOK, CapInv, UNCHANGED <<up, issued, conn, store, client>>, KeptRows
    PROVE  CapInv'
<1>1. ConnOK'
  BY DEF CapInv, ConnOK
<1>2. \A d \in Conn : CalmConn(conn'[d], conn[d])
  BY DEF CalmConn
<1>3. \A t \in Task : CalmRow(rows'[t], rows[t])
  BY DEF KeptRows, CalmRow
<1>4. \A d \in Conn : conn'[d].phase = "barrier" => conn[d].task \in Task
  BY DEF CapInv, ConnOK, KnowsOK, TypeOK, Connection
<1>5. \A d \in Conn : conn'[d].phase = "barrier" =>
              rows'[conn[d].task].pending = rows[conn[d].task].pending
  BY <1>4, Zenon DEF KeptRows
<1>6. QED  BY <1>1, <1>2, <1>3, <1>5, NamesKept, CalmStep

(* Of a connection: what holds of it in a state with TypeOK and CapInv. *)
LEMMA ConnFacts ==
    ASSUME TypeOK, CapInv, NEW c \in Conn
    PROVE  /\ conn[c] \in Connection /\ KnowsOK(conn[c])
           /\ ~up => conn[c].phase \notin Served
           /\ conn[c].offered \in issued \cup {None} /\ conn[c].cap \in issued \cup {None}
BY DEF TypeOK, CapInv, ConnOK, FromIssued

LEMMA CapClient ==
    ASSUME TypeOK, CapInv, NEW c \in Conn,
           \/ ClientConnects(c) \/ ClientPrepares(c)
           \/ ClientActivates(c) \/ ClientStarts(c) \/ ClientSaves(c)
           \/ ClientAsksClose(c) \/ ClientClears(c) \/ ClientLeaves(c)
    PROVE  CapInv'
<1> DEFINE k == conn[c]
<1>1. /\ k \in Connection /\ KnowsOK(k) /\ (~up => k.phase \notin Served)
      /\ k.offered \in issued \cup {None} /\ k.cap \in issued \cup {None}
  BY ConnFacts
<1>2. CASE ClientConnects(c)
  <2>1. UNCHANGED <<rows, up, issued, store>>
    BY <1>2, Zenon DEF ClientConnects
  <2>2. KeptRows
    BY <2>1 DEF KeptRows
  <2>3. PICK x \in Connection :
          /\ Becomes(c, x) /\ Fresh(x) /\ x.phase = "sent"
          /\ x.offered = IF store.pending # None THEN store.pending ELSE store.active
    BY <1>2, EffectConnects
  <2>4. x.offered \in issued \cup {None}
    BY <2>3 DEF CapInv, FromIssued
  <2>5. KnowsOK(x) /\ x.phase \notin Served /\ CalmConn(x, k)
    BY <2>3, <2>4 DEF Fresh, KnowsOK, Served, CalmConn
  <2>6. NamesIssued
    <3>1. client'.rest \in {None, store.active}
      BY <1>2 DEF ClientConnects
    <3>2. QED  BY <2>1, <3>1 DEF CapInv, FromIssued, NamesIssued
  <2>7. QED  BY <2>1, <2>2, <2>3, <2>5, <2>6, OneMoves
<1>3. CASE ClientPrepares(c) \/ ClientSaves(c)
  <2>1. UNCHANGED <<rows, up, issued>>
    BY <1>3, Zenon DEF ClientPrepares, ClientSaves
  <2>2. KeptRows
    BY <2>1 DEF KeptRows
  <2>3. PICK x \in Connection : Becomes(c, x) /\ Keeps(x, k, {"confirm"})
    BY <1>3, EffectConfirming
  <2>4. k.phase \in {"barrier", "open"}
    BY <1>3 DEF ClientPrepares, ClientSaves
  <2>5. KnowsOK(x) /\ (~up => x.phase \notin Served) /\ CalmConn(x, k)
    BY <1>1, <2>3, <2>4 DEF Keeps, KnowsOK, CalmConn
  <2>6. NamesIssued
    <3>1. /\ store'.active \in {k.offered, k.cap} /\ store'.pending \in {k.cap, None}
          /\ client'.rest = client.rest
      BY <1>3 DEF ClientPrepares, ClientSaves, TypeOK, Client
    <3>2. QED  BY <1>1, <3>1 DEF CapInv, FromIssued, NamesIssued
  <2>7. QED  BY <2>1, <2>2, <2>3, <2>5, <2>6, OneMoves
<1>4. CASE ClientActivates(c) \/ ClientStarts(c)
  <2>1. UNCHANGED <<rows, up, issued, conn>>
    BY <1>4, Zenon DEF ClientActivates, ClientStarts
  <2>2. KeptRows
    BY <2>1 DEF KeptRows
  <2>3. Keeps(k, k, {}) /\ CalmConn(k, k) /\ Becomes(c, k)
    BY <2>1 DEF Keeps, CalmConn, Becomes, TypeOK
  <2>4. NamesIssued
    <3>1. /\ store'.active \in {store.active, k.cap} /\ store'.pending \in {store.pending, None}
          /\ client'.rest = client.rest
      BY <1>4 DEF ClientActivates, ClientStarts, TypeOK, Client
    <3>2. QED  BY <1>1, <3>1 DEF CapInv, FromIssued, NamesIssued
  <2>5. QED  BY <1>1, <2>1, <2>2, <2>3, <2>4, OneMoves
<1>5. CASE ClientAsksClose(c)
  <2>1. UNCHANGED <<rows, up, issued, store>>
    BY <1>5, Zenon DEF ClientAsksClose
  <2>2. KeptRows
    BY <2>1 DEF KeptRows
  <2>3. PICK x \in Connection : Becomes(c, x) /\ Keeps(x, k, {"close"})
    BY <1>5, EffectAsksClose
  <2>4. k.phase = "open" /\ k.task # None
    BY <1>5 DEF ClientAsksClose
  <2>5. KnowsOK(x) /\ (~up => x.phase \notin Served) /\ CalmConn(x, k)
    BY <1>1, <2>3, <2>4 DEF Keeps, KnowsOK, CalmConn
  <2>6. NamesIssued
    <3>1. client'.rest = client.rest
      BY <1>5 DEF ClientAsksClose, TypeOK, Client
    <3>2. QED  BY <2>1, <3>1 DEF CapInv, FromIssued, NamesIssued
  <2>7. QED  BY <2>1, <2>2, <2>3, <2>5, <2>6, OneMoves
<1>6. CASE ClientClears(c) \/ ClientLeaves(c)
  <2>1. UNCHANGED <<rows, up, issued>>
    BY <1>6, Zenon DEF ClientClears, ClientLeaves
  <2>2. KeptRows
    BY <2>1 DEF KeptRows
  <2>3. PICK x \in Connection : Becomes(c, x) /\ Keeps(x, k, {"peer"})
    BY <1>6, EffectLeaves
  <2>4. KnowsOK(x) /\ (~up => x.phase \notin Served) /\ CalmConn(x, k)
    BY <1>1, <2>3 DEF Keeps, KnowsOK, CalmConn, Fresh
  <2>5. NamesIssued
    <3>1. /\ store'.active \in {store.active, None} /\ store'.pending \in {store.pending, None}
          /\ client'.rest = None
      BY <1>6 DEF ClientClears, ClientLeaves, IdleClient, EmptyStore
    <3>2. QED  BY <3>1 DEF CapInv, FromIssued, NamesIssued
  <2>6. QED  BY <2>1, <2>2, <2>3, <2>4, <2>5, OneMoves
<1>7. QED  BY <1>2, <1>3, <1>4, <1>5, <1>6

LEMMA CapRejected ==
    ASSUME TypeOK, CapInv, NEW c \in Conn, ClientRejected(c)
    PROVE  CapInv'
<1> DEFINE k == conn[c]
<1>1. /\ k \in Connection /\ KnowsOK(k) /\ (~up => k.phase \notin Served)
      /\ k.offered \in issued \cup {None} /\ k.cap \in issued \cup {None}
  BY ConnFacts
<1>2. UNCHANGED <<rows, up, issued>>
  BY Zenon DEF ClientRejected
<1>3. KeptRows
  BY <1>2 DEF KeptRows
<1>4. PICK x \in Connection :
             /\ Keeps(x, k, {"peer"})
             /\ \/ /\ Becomes(c, x) /\ client' = IdleClient
                   /\ store' = EmptyStore \/ store' = store
                \/ /\ store' = store
                   /\ \E d \in Conn, y \in Connection :
                        /\ d # c
                        /\ client' = [phase |-> "waiting", conn |-> d, rest |-> None]
                        /\ conn'[c] = x /\ conn'[d] = y
                        /\ \A e \in Conn : e # c /\ e # d => conn'[e] = conn[e]
                        /\ Fresh(y) /\ y.phase = "sent"
                        /\ y.offered = client.rest
  BY EffectRejected
<1>5. KnowsOK(x) /\ (~up => x.phase \notin Served) /\ CalmConn(x, k)
  BY <1>1, <1>4 DEF Keeps, KnowsOK, CalmConn, Fresh
<1>6. NamesIssued
  <2>1. client'.rest = None
    BY <1>4 DEF IdleClient
  <2>2. QED  BY <1>4, <2>1 DEF CapInv, FromIssued, NamesIssued, EmptyStore
<1>7. CASE Becomes(c, x)
  BY <1>2, <1>3, <1>5, <1>6, <1>7, OneMoves
<1>8. CASE \E d \in Conn, y \in Connection :
             /\ d # c
             /\ conn'[c] = x /\ conn'[d] = y
             /\ \A e \in Conn : e # c /\ e # d => conn'[e] = conn[e]
             /\ Fresh(y) /\ y.phase = "sent"
             /\ y.offered = client.rest
  <2>1. PICK d \in Conn, y \in Connection :
             /\ d # c
             /\ conn'[c] = x /\ conn'[d] = y
             /\ \A e \in Conn : e # c /\ e # d => conn'[e] = conn[e]
             /\ Fresh(y) /\ y.phase = "sent"
             /\ y.offered = client.rest
    BY <1>8, Zenon
  <2>2. y.offered \in issued \cup {None}
    BY <2>1 DEF CapInv, FromIssued
  <2>3. KnowsOK(y) /\ y.phase \notin Served /\ CalmConn(y, conn[d])
    BY <2>1, <2>2 DEF Fresh, KnowsOK, Served, CalmConn
  <2>4. ConnOK'
    BY <1>2, <1>5, <2>1, <2>3 DEF CapInv, ConnOK
  <2>5. \A e \in Conn : CalmConn(conn'[e], conn[e])
    BY <1>5, <2>1, <2>3 DEF CalmConn
  <2>6. \A t \in Task : CalmRow(rows'[t], rows[t])
    BY <1>2 DEF CalmRow
  <2>7. QED  BY <1>2, <1>6, <2>4, <2>5, <2>6, CalmStep
<1>9. QED  BY <1>4, <1>7, <1>8, Zenon

(* Rows that change without their capabilities. *)
SameCaps(s, row) == /\ s.resume = row.resume /\ s.pending = row.pending
                    /\ s.state = "absent" <=> row.state = "absent"

LEMMA StatementsKeepCaps ==
    ASSUME NEW row \in Row, NEW t \in Nat
    PROVE  /\ SameCaps(Detached(row, t), row) /\ SameCaps(Closed(row, t), row)
           /\ \A owned \in BOOLEAN : SameCaps(Inventoried(row, owned, t), row)
<1> USE DEF Row, TaskState, SameCaps
<1>1. SameCaps(Detached(row, t), row)
  <2>1. PICK n : n = IF row.conns > 0 THEN row.conns - 1 ELSE 0
    OBVIOUS
  <2>2. Detached(row, t) = IF Active(row) THEN [row EXCEPT !.conns = n, !.updated = t]
                           ELSE row
    BY <2>1 DEF Detached
  <2>3. QED  BY <2>2
<1>2. SameCaps(Closed(row, t), row)
  <2>1. PICK n : n = IF row.state = "closed" THEN row.closedAt ELSE t
    OBVIOUS
  <2>2. Closed(row, t) = IF row.state \notin {"active", "closed"} THEN row
                         ELSE [row EXCEPT !.state = "closed", !.tab = FALSE,
                                          !.updated = t, !.closedAt = n]
    BY <2>1 DEF Closed
  <2>3. QED  BY <2>2
<1>3. \A owned \in BOOLEAN : SameCaps(Inventoried(row, owned, t), row)
  BY DEF Inventoried, Active
<1>4. QED  BY <1>1, <1>2, <1>3

LEMMA OneRowKept ==
    ASSUME TypeOK, NEW u,
           \/ rows' = rows
           \/ rows' = [rows EXCEPT ![u] = Detached(@, now)]
           \/ rows' = [rows EXCEPT ![u] = Closed(@, now)]
    PROVE  KeptRows
<1>1. rows \in [Task -> Row] /\ now \in Nat
  BY DEF TypeOK
<1>2. \A t \in Task : /\ rows[t] \in Row
                      /\ SameCaps(Detached(rows[t], now), rows[t])
                      /\ SameCaps(Closed(rows[t], now), rows[t])
  BY <1>1, StatementsKeepCaps
<1>3. \A t \in Task : \/ rows'[t] = rows[t]
                      \/ rows'[t] = Detached(rows[t], now)
                      \/ rows'[t] = Closed(rows[t], now)
  BY <1>1
<1>4. \A t \in Task : SameCaps(rows'[t], rows[t])
  BY <1>2, <1>3 DEF SameCaps
<1>5. QED  BY <1>4 DEF KeptRows, SameCaps

LEMMA SweptKept ==
    ASSUME TypeOK, rows' = Swept \/ rows' = rows
    PROVE  KeptRows
<1>1. \A t \in Task : Aged(rows[t], Swept[t])
  BY SweptRowsAged, 4 \in 0..4 DEF TypeOK, Swept
<1>2. QED  BY <1>1 DEF KeptRows, Aged

LEMMA CapServer ==
    ASSUME TypeOK, CapInv, NEW c \in Conn,
           \/ Classify(c) \/ DisconnectEnds(c) \/ RequestChecked(c)
           \/ Respond(c) \/ Delivered(c) \/ CloseTask(c)
    PROVE  CapInv'
<1> DEFINE k == conn[c]
<1>1. /\ k \in Connection /\ KnowsOK(k)
      /\ k.offered \in issued \cup {None} /\ k.cap \in issued \cup {None}
  BY ConnFacts
<1>2. up /\ UNCHANGED <<up, issued, store, client>>
  BY Zenon DEF Classify, DisconnectEnds, RequestChecked, Respond, Delivered, CloseTask
<1>3. NamesIssued
  BY <1>2, NamesKept
<1>4. CASE Classify(c)
  <2>1. rows' = rows
    BY <1>4, Zenon DEF Classify
  <2>2. PICK x \in Connection : /\ Becomes(c, x) /\ Keeps(x, k, {"phase", "reason"})
                                /\ x.phase = "rejected"
    BY <1>4, EffectClassify
  <2>3. k.phase = "classify"
    BY <1>4 DEF Classify
  <2>4. KnowsOK(x) /\ CalmConn(x, k)
    BY <1>1, <2>2, <2>3 DEF Keeps, KnowsOK, CalmConn, Fresh
  <2>5. QED  BY <1>2, <1>3, <2>1, <2>2, <2>4, OneRowKept, OneMoves
<1>5. CASE DisconnectEnds(c)
  <2>1. \/ rows' = rows
        \/ rows' = [rows EXCEPT ![k.task] = Detached(@, now)]
        \/ rows' = [rows EXCEPT ![k.task] = Closed(@, now)]
    BY <1>5 DEF DisconnectEnds
  <2>2. PICK x \in Connection : /\ Becomes(c, x) /\ Keeps(x, k, {"phase"})
                                /\ x.phase = "gone"
    BY <1>5, EffectEnds
  <2>3. k.phase = "leaving"
    BY <1>5 DEF DisconnectEnds
  <2>4. KnowsOK(x) /\ CalmConn(x, k)
    BY <1>1, <2>2, <2>3 DEF Keeps, KnowsOK, CalmConn, Fresh
  <2>5. QED  BY <1>2, <1>3, <2>1, <2>2, <2>4, OneRowKept, OneMoves
<1>6. CASE RequestChecked(c)
  <2>1. rows' = rows
    BY <1>6, Zenon DEF RequestChecked
  <2>2. PICK x \in Connection : /\ Becomes(c, x) /\ Keeps(x, k, {"thread"})
                                /\ x.thread = "checked"
    BY <1>6, EffectChecked
  <2>3. k.phase = "open"
    BY <1>6 DEF RequestChecked
  <2>4. KnowsOK(x) /\ CalmConn(x, k)
    BY <1>1, <2>2, <2>3 DEF Keeps, KnowsOK, CalmConn, Fresh
  <2>5. QED  BY <1>2, <1>3, <2>1, <2>2, <2>4, OneRowKept, OneMoves
<1>7. CASE Respond(c)
  <2>1. rows' = Swept \/ rows' = rows
    BY <1>7 DEF Respond
  <2>2. PICK x \in Connection :
          /\ Becomes(c, x) /\ Keeps(x, k, {"thread", "fresh"})
          /\ x.thread = "none"
          /\ x.fresh = IF k.fresh = "pending" THEN "inFlight" ELSE k.fresh
    BY <1>7, EffectRespond
  <2>3. k.thread = "ensured"
    BY <1>7 DEF Respond
  <2>4. KnowsOK(x) /\ CalmConn(x, k)
    BY <1>1, <2>2, <2>3 DEF Keeps, KnowsOK, CalmConn, Fresh
  <2>5. QED  BY <1>2, <1>3, <2>1, <2>2, <2>4, SweptKept, OneMoves
<1>8. CASE Delivered(c)
  <2>1. rows' = rows
    BY <1>8, Zenon DEF Delivered
  <2>2. PICK x \in Connection : /\ Becomes(c, x) /\ Keeps(x, k, {"fresh"})
                                /\ x.fresh = "delivered"
    BY <1>8, EffectDelivered
  <2>3. k.phase = "open" /\ k.fresh = "inFlight"
    BY <1>8 DEF Delivered
  <2>4. KnowsOK(x) /\ CalmConn(x, k)
    BY <1>1, <2>2, <2>3 DEF Keeps, KnowsOK, CalmConn, Fresh
  <2>5. QED  BY <1>2, <1>3, <2>1, <2>2, <2>4, OneRowKept, OneMoves
<1>9. CASE CloseTask(c)
  <2>1. PICK x \in Connection :
          /\ Becomes(c, x) /\ Keeps(x, k, {"close", "cancelled"})
          /\ x.cancelled = k.cancelled \/ x.close = "done"
          /\ x.close \in {"done", "none"}
          /\ \/ rows' = rows
             \/ rows' = [rows EXCEPT ![k.task] = Closed(@, now)]
    BY <1>9, EffectClose DEF Keeps
  <2>2. k.phase \in {"open", "leaving", "gone"} /\ k.close = "asked"
    BY <1>9 DEF CloseTask
  <2>3. KnowsOK(x) /\ CalmConn(x, k)
    BY <1>1, <2>1, <2>2 DEF Keeps, KnowsOK, CalmConn, Fresh
  <2>4. QED  BY <1>2, <1>3, <2>1, <2>3, OneRowKept, OneMoves
<1>10. QED  BY <1>4, <1>5, <1>6, <1>7, <1>8, <1>9

LEMMA CapRest ==
    ASSUME TypeOK, CapInv, (\E S \in SUBSET Task : Inventory(S)) \/ Crash \/ Boot \/ Tick
    PROVE  CapInv'
<1>1. ASSUME NEW S \in SUBSET Task, Inventory(S)
      PROVE  CapInv'
  <2>1. \A t \in Task : rows[t] \in Row /\ (t \in S) \in BOOLEAN
    BY DEF TypeOK
  <2>2. \A t \in Task : SameCaps(Inventoried(rows[t], t \in S, now), rows[t])
    BY <2>1, StatementsKeepCaps, Zenon DEF TypeOK
  <2>3. \A t \in Task : rows'[t] = Inventoried(rows[t], t \in S, now)
    BY <1>1, Zenon DEF Inventory
  <2>4. KeptRows
    BY <2>2, <2>3, Zenon DEF KeptRows, SameCaps
  <2>5. UNCHANGED <<up, issued, conn, store, client>>
    BY <1>1, Zenon DEF Inventory
  <2>6. QED  BY <2>4, <2>5, CapsStay
<1>2. CASE Crash
  <2>1. PICK n \in 0..3 : rows' = SweptRows(rows, now, n)
    BY <1>2, Zenon DEF Crash
  <2>2. \A t \in Task : Aged(rows[t], rows'[t])
    BY <2>1, SweptRowsAged, n \in 0..4 DEF TypeOK
  <2>3. \A t \in Task : CalmRow(rows'[t], rows[t])
    BY <2>2 DEF Aged, CalmRow
  <2>4. \A d \in Conn : Gone(conn'[d], conn[d])
    BY <1>2, EffectCrash
  <2>5. UNCHANGED <<issued, store, client>>
    BY <1>2, Zenon DEF Crash
  <2>6. \A d \in Conn : KnowsOK(conn'[d]) /\ conn'[d].phase \notin Served
                        /\ CalmConn(conn'[d], conn[d])
    BY <2>4 DEF CapInv, ConnOK, Gone, Keeps, KnowsOK, Served, Fresh, CalmConn
  <2>7. ConnOK'
    BY <2>6 DEF ConnOK
  <2>8. \A d \in Conn : conn'[d].phase # "barrier"
    BY <2>6 DEF Served
  <2>9. QED  BY <2>3, <2>5, <2>6, <2>7, <2>8, NamesKept, CalmStep
<1>3. CASE Boot
  <2>1. PICK r : r = [t \in Task |-> Reopened(rows[t], now)]
    OBVIOUS
  <2>2. r \in [Task -> Row] /\ \A t \in Task : r[t] = Reopened(rows[t], now)
    <3>1. \A t \in Task : Reopened(rows[t], now) \in Row
      BY RowFacts, Zenon
    <3>2. QED  BY <2>1, <3>1
  <2>3. PICK n \in 0..4 : rows' = SweptRows(r, now, n)
    <3>1. \E n \in 0..4 :
            rows' = SweptRows([t \in Task |-> Reopened(rows[t], now)], now, n)
      BY <1>3 DEF Boot
    <3>2. QED  BY <2>1, <3>1, Zenon
  <2>4. \A t \in Task : Aged(r[t], rows'[t])
    BY <2>2, <2>3, SweptRowsAged DEF TypeOK
  <2>5. \A t \in Task : CalmRow(r[t], rows[t])
    <3>1. \A row \in Row : CalmRow(Reopened(row, now), row)
      BY DEF Row, TaskState, Reopened, CalmRow
    <3>2. QED  BY <2>2, <3>1 DEF TypeOK
  <2>6. \A t \in Task : CalmRow(rows'[t], rows[t])
    BY <2>4, <2>5 DEF Aged, CalmRow
  <2>7. ~up /\ UNCHANGED <<issued, conn, store, client>>
    BY <1>3, Zenon DEF Boot
  <2>8. \A d \in Conn : conn[d].phase \notin Served
    BY <2>7 DEF CapInv, ConnOK
  <2>9. ConnOK' /\ \A d \in Conn : CalmConn(conn'[d], conn[d])
    BY <2>7, <2>8 DEF CapInv, ConnOK, CalmConn
  <2>10. \A d \in Conn : conn'[d].phase # "barrier"
    BY <2>7, <2>8 DEF Served
  <2>11. QED  BY <2>6, <2>7, <2>9, <2>10, NamesKept, CalmStep
<1>4. CASE Tick
  <2>1. UNCHANGED <<up, rows, issued, conn, store, client>>
    BY <1>4, Zenon DEF Tick
  <2>2. KeptRows
    BY <2>1 DEF KeptRows
  <2>3. QED  BY <2>1, <2>2, CapsStay
<1>5. QED  BY <1>1, <1>2, <1>3, <1>4

-----------------------------------------------------------------------------
(* Capabilities: the steps that hand one out, confirm one or take one back *)

(* A pending capability has one connection at the barrier at most. *)
LEMMA OneAtTheBarrier ==
    ASSUME TypeOK, CapInv, NEW c \in Conn, NEW d \in Conn, c # d,
           conn[c].task # None, rows[conn[c].task].pending = conn[c].cap,
           conn[d].phase = "barrier"
    PROVE  conn[d].task # conn[c].task
BY DEF CapInv, AtBarrier, ConnOK, KnowsOK, CapsOwned

LEMMA CapBegins ==
    ASSUME TypeOK, CapInv, NEW c \in Conn, DisconnectBegins(c)
    PROVE  CapInv'
<1> DEFINE k == conn[c]
<1>1. /\ k \in Connection /\ KnowsOK(k)
      /\ k.offered \in issued \cup {None} /\ k.cap \in issued \cup {None}
  BY ConnFacts
<1>2. up /\ UNCHANGED <<up, issued, store, client>>
  BY Zenon DEF DisconnectBegins
<1>3. NamesIssued
  BY <1>2, NamesKept
<1>4. PICK x \in Connection :
        /\ Becomes(c, x)
        /\ Keeps(x, k, {"phase", "cancelled", "rotation"})
        /\ x.phase \in {"gone", "leaving"}
        /\ x.cancelled \/ x.cancelled = k.cancelled
        /\ ~x.rotation \/ x.rotation = k.rotation
        /\ \/ rows' = rows
           \/ /\ k.rotation /\ RotationHeld(rows[k.task], k.cap)
              /\ rows' = [rows EXCEPT ![k.task] = RolledBack(@, now)]
  BY EffectBegins DEF Keeps
<1>5. KnowsOK(x) /\ CalmConn(x, k)
  BY <1>1, <1>4 DEF Keeps, KnowsOK, CalmConn, Fresh
<1>6. CASE rows' = rows
  BY <1>2, <1>3, <1>4, <1>5, <1>6, OneRowKept, OneMoves
<1>7. CASE /\ k.rotation /\ RotationHeld(rows[k.task], k.cap)
           /\ rows' = [rows EXCEPT ![k.task] = RolledBack(@, now)]
  <2>1. k.task \in Task /\ rows[k.task].pending = k.cap
    BY <1>1, <1>7 DEF KnowsOK, RotationHeld, Connection
  <2>2. \A t \in Task : t # k.task => rows'[t] = rows[t]
    BY <1>7 DEF TypeOK
  <2>3. rows'[k.task] = RolledBack(rows[k.task], now)
    BY <1>7, <2>1 DEF TypeOK
  <2>4. CalmRow(rows'[k.task], rows[k.task])
    BY <2>1, <2>3 DEF RolledBack, CalmRow, TypeOK, Row
  <2>5. \A t \in Task : CalmRow(rows'[t], rows[t])
    BY <2>2, <2>4 DEF CalmRow
  <2>6. ConnOK'
    BY <1>2, <1>4, <1>5 DEF CapInv, ConnOK, Becomes
  <2>7. \A d \in Conn : CalmConn(conn'[d], conn[d])
    BY <1>4, <1>5 DEF Becomes, CalmConn
  <2>8. ASSUME NEW d \in Conn, conn'[d].phase = "barrier"
        PROVE  rows'[conn[d].task].pending = rows[conn[d].task].pending
    <3>1. d # c /\ conn[d].phase = "barrier"
      BY <1>4, <2>8 DEF Becomes
    <3>2. conn[d].task # k.task
      BY <2>1, <3>1, OneAtTheBarrier, RowsAssumption
    <3>3. conn[d].task \in Task
      BY <3>1 DEF CapInv, ConnOK, KnowsOK, TypeOK, Connection
    <3>4. QED  BY <2>2, <3>2, <3>3
  <2>9. QED  BY <1>2, <1>3, <2>5, <2>6, <2>7, <2>8, CalmStep
<1>8. QED  BY <1>4, <1>6, <1>7, Zenon

LEMMA CapConfirms ==
    ASSUME TypeOK, CapInv, NEW c \in Conn, Confirm(c)
    PROVE  CapInv'
<1> DEFINE k == conn[c]
           u == k.task
<1>1. /\ k \in Connection /\ KnowsOK(k)
      /\ k.offered \in issued \cup {None} /\ k.cap \in issued \cup {None}
  BY ConnFacts
<1>2. up /\ UNCHANGED <<up, issued, store, client>> /\ k.phase \in {"barrier", "open"}
  BY Zenon DEF Confirm
<1>3. NamesIssued
  BY <1>2, NamesKept
<1>4. PICK x \in Connection :
             /\ Becomes(c, x)
             /\ \/ /\ k.rotation /\ RotationHeld(rows[u], k.cap)
                   /\ Keeps(x, k, {"phase", "rotation", "confirm"})
                   /\ x.phase = "open" /\ ~x.rotation /\ x.confirm = None
                   /\ rows' = [rows EXCEPT ![u] = Acknowledged(@, now)]
                \/ /\ Keeps(x, k, {"peer", "confirm"})
                   /\ x.confirm = None
                   /\ rows' = rows
                \/ /\ Keeps(x, k, {"fresh", "confirm"})
                   /\ x.fresh = "none" /\ x.confirm = None
                   /\ rows' = rows
  BY EffectConfirm
<1>5. KnowsOK(x)
  BY <1>1, <1>2, <1>4 DEF Keeps, KnowsOK, Fresh
<1>6. CASE rows' = rows /\ Keeps(x, k, {"peer", "confirm", "fresh"})
  <2>1. CalmConn(x, k)
    BY <1>6 DEF Keeps, CalmConn
  <2>2. QED  BY <1>2, <1>3, <1>4, <1>5, <1>6, <2>1, OneRowKept, OneMoves
<1>7. CASE /\ k.rotation /\ RotationHeld(rows[u], k.cap)
           /\ Keeps(x, k, {"phase", "rotation", "confirm"})
           /\ x.phase = "open" /\ ~x.rotation /\ x.confirm = None
           /\ rows' = [rows EXCEPT ![u] = Acknowledged(@, now)]
  <2> USE DEF CapInv
  <2>1. /\ k.phase = "barrier" /\ u \in Task /\ k.cap # None /\ k.offered # None
        /\ rows[u].resume = k.offered /\ rows[u].pending = k.cap /\ rows[u].state = "active"
    BY <1>1, <1>2, <1>7 DEF KnowsOK, RotationHeld, Connection, AtBarrier, Active
  <2>2. k.cap \in Capability /\ k.offered \in Capability /\ k.cap # k.offered
    BY <1>1, <2>1 DEF Connection, HeldOnce
  <2>3. \A t \in Task : t # u => rows'[t] = rows[t]
    BY <1>7 DEF TypeOK
  <2>4. /\ rows'[u].resume = k.cap /\ rows'[u].pending = None
        /\ rows'[u].state = rows[u].state
    <3>1. rows'[u] = Acknowledged(rows[u], now) /\ rows[u] \in Row
      BY <1>7, <2>1 DEF TypeOK
    <3>2. QED  BY <2>1, <3>1 DEF Acknowledged, Row
  <2>5. \A t \in Task : \A cap \in Capability : Holds(rows'[t], cap) => Holds(rows[t], cap)
    BY <2>1, <2>3, <2>4 DEF Holds
  <2>6. /\ x.task = u /\ x.cap = k.cap /\ x.offered = k.offered
        /\ conn'[c] = x /\ \A d \in Conn : d # c => conn'[d] = conn[d]
    BY <1>4, <1>7 DEF Keeps, Becomes
  <2>7. ConnOK'
    BY <1>2, <1>4, <1>5 DEF ConnOK, Becomes
  <2>8. FromIssued'
    <3>1. \A t \in Task : /\ rows'[t].resume \in issued' \cup {None}
                          /\ rows'[t].pending \in issued' \cup {None}
      BY <1>1, <1>2, <2>3, <2>4 DEF FromIssued
    <3>2. \A d \in Conn : /\ conn'[d].cap \in issued' \cup {None}
                          /\ conn'[d].offered \in issued' \cup {None}
      BY <1>2, <2>6 DEF FromIssued
    <3>3. QED  BY <1>2, <3>1, <3>2 DEF FromIssued
  <2>9. HeldOnce'
    <3>1. \A t \in Task : rows'[t].pending # None => rows'[t].pending # rows'[t].resume
      BY <2>3, <2>4 DEF HeldOnce
    <3>2. \A t \in Task : rows'[t].state = "absent" =>
            rows'[t].resume = None /\ rows'[t].pending = None
      BY <2>1, <2>3, <2>4 DEF HeldOnce
    <3>3. QED  BY <2>5, <3>1, <3>2 DEF HeldOnce
  <2>10. CapsOwned'
    <3>1. \A d \in Conn : conn'[d].task = conn[d].task /\ conn'[d].cap = conn[d].cap
      BY <2>6
    <3>2. \A d \in Conn : conn[d].cap \in Capability \cup {None}
                          /\ conn[d].task \in Task \cup {None}
      BY DEF TypeOK, Connection
    <3>3. \A d \in Conn : conn'[d].task # None => rows'[conn'[d].task].state # "absent"
      BY <2>1, <2>3, <2>4, <3>1, <3>2 DEF CapsOwned
    <3>4. \A d \in Conn : \A t \in Task : Holds(rows'[t], conn'[d].cap) => t = conn'[d].task
      BY <2>5, <3>1, <3>2 DEF CapsOwned, Holds
    <3>5. QED  BY <3>1, <3>3, <3>4 DEF CapsOwned
  <2>11. AtBarrier'
    <3>1. ASSUME NEW d \in Conn, conn'[d].phase = "barrier"
          PROVE  conn'[d] = conn[d] /\ rows'[conn[d].task] = rows[conn[d].task]
      <4>1. d # c /\ conn'[d] = conn[d]
        BY <1>7, <2>6, <3>1
      <4>2. conn[d].task # u
        BY <2>1, <3>1, <4>1, OneAtTheBarrier, RowsAssumption
      <4>3. conn[d].task \in Task
        BY <3>1, <4>1 DEF ConnOK, KnowsOK, TypeOK, Connection
      <4>4. QED  BY <2>3, <4>1, <4>2, <4>3
    <3>2. QED  BY <3>1 DEF AtBarrier
  <2>12. \A t \in Task : ~Holds(rows'[t], k.offered)
    BY <2>1, <2>2, <2>3, <2>4 DEF Holds, HeldOnce
  <2>13. Spent'
    <3>1. \A d \in Conn : conn[d].offered \in Capability \cup {None}
      BY DEF TypeOK, Connection
    <3>2. QED  BY <2>5, <2>6, <2>12, <3>1 DEF Spent, Holds
  <2>14. \A d \in Conn : d # c /\ conn[d].phase \in {"barrier", "open"}
                           => conn[d].offered # k.offered
    <3>1. ASSUME NEW d \in Conn, d # c, conn[d].phase = "barrier"
          PROVE  conn[d].offered # k.offered
      <4>1. conn[d].task # u
        BY <2>1, <3>1, OneAtTheBarrier, RowsAssumption
      <4>2. conn[d].task \in Task /\ rows[conn[d].task].resume = conn[d].offered
        BY <3>1 DEF ConnOK, KnowsOK, TypeOK, Connection, AtBarrier
      <4>3. QED  BY <2>1, <2>2, <4>1, <4>2 DEF HeldOnce, Holds
    <3>2. ASSUME NEW d \in Conn, d # c, conn[d].phase = "open"
          PROVE  conn[d].offered # k.offered
      BY <2>1, <2>2, <3>2 DEF Spent, Holds
    <3>3. QED  BY <3>1, <3>2
  <2>15. OldCapabilityIsDead'
    BY <2>6, <2>14 DEF OldCapabilityIsDead
  <2>16. QED  BY <2>7, <2>8, <2>9, <2>10, <2>11, <2>13, <2>15
<1>8. QED
  <2>1. \/ Keeps(x, k, {"peer", "confirm"}) \/ Keeps(x, k, {"fresh", "confirm"})
        => Keeps(x, k, {"peer", "confirm", "fresh"})
    BY DEF Keeps
  <2>2. QED  BY <1>4, <1>6, <1>7, <2>1

(* A capability that was just generated is held by nobody. *)
LEMMA NewIsUnknown ==
    ASSUME TypeOK, CapInv, NEW next \in Capability \ issued
    PROVE  /\ \A t \in Task : ~Holds(rows[t], next)
           /\ \A d \in Conn : conn[d].cap # next /\ conn[d].offered # next
BY RowsAssumption DEF CapInv, FromIssued, Holds

(* Names stay issued. *)
LEMMA StillIssued ==
    ASSUME TypeOK, CapInv, NEW next \in Capability, NEW u \in Task, NEW c \in Conn,
           issued' = issued \cup {next}, UNCHANGED <<store, client>>,
           \A t \in Task : /\ rows'[t].resume \in {rows[t].resume, next}
                           /\ rows'[t].pending \in {rows[t].pending, None, next},
           \A d \in Conn : /\ conn'[d].cap \in {conn[d].cap, next}
                           /\ conn'[d].offered = conn[d].offered
    PROVE  FromIssued'
<1> USE DEF CapInv, FromIssued
<1>1. \A t \in Task : /\ rows'[t].resume \in issued' \cup {None}
                      /\ rows'[t].pending \in issued' \cup {None}
  OBVIOUS
<1>2. \A d \in Conn : /\ conn'[d].cap \in issued' \cup {None}
                      /\ conn'[d].offered \in issued' \cup {None}
  OBVIOUS
<1>3. /\ store'.active \in issued' \cup {None} /\ store'.pending \in issued' \cup {None}
      /\ client'.rest \in issued' \cup {None}
  OBVIOUS
<1>4. QED  BY <1>1, <1>2, <1>3

LEMMA CapEnsures ==
    ASSUME TypeOK, CapInv, NEW c \in Conn, EnsureTask(c)
    PROVE  CapInv'
<1> DEFINE k == conn[c]
<1> USE DEF CapInv
<1>1. /\ k \in Connection /\ KnowsOK(k)
      /\ k.offered \in issued \cup {None} /\ k.cap \in issued \cup {None}
  BY ConnFacts
<1>2. up /\ UNCHANGED <<up, store, client>> /\ k.thread = "checked"
  BY Zenon DEF EnsureTask
<1>3. NamesIssued
  BY <1>2, NamesKept
<1>4. PICK x \in Connection :
             /\ Becomes(c, x)
             /\ \/ /\ Keeps(x, k, {"thread"}) /\ x.thread = "ensured"
                   /\ rows' = rows /\ issued' = issued
                \/ /\ k.task = None
                   /\ \E t \in Task, cap \in Capability \ issued :
                        /\ rows[t].state = "absent"
                        /\ rows' = [rows EXCEPT ![t] = Created(cap, now)]
                        /\ issued' = issued \cup {cap}
                        /\ Keeps(x, k, {"task", "cap", "fresh", "thread"})
                        /\ x.task = t /\ x.cap = cap /\ x.fresh = "pending"
                        /\ x.thread = "ensured"
  BY EffectEnsure
<1>5. CASE Keeps(x, k, {"thread"}) /\ x.thread = "ensured" /\ rows' = rows /\ issued' = issued
  <2>1. KnowsOK(x) /\ CalmConn(x, k)
    BY <1>1, <1>2, <1>5 DEF Keeps, KnowsOK, CalmConn, Fresh
  <2>2. QED  BY <1>2, <1>3, <1>4, <1>5, <2>1, OneRowKept, OneMoves
<1>6. ASSUME NEW u \in Task, NEW next \in Capability \ issued,
             k.task = None, rows[u].state = "absent",
             rows' = [rows EXCEPT ![u] = Created(next, now)],
             issued' = issued \cup {next},
             Keeps(x, k, {"task", "cap", "fresh", "thread"}),
             x.task = u, x.cap = next, x.fresh = "pending", x.thread = "ensured"
      PROVE  CapInv'
  <2>1. KnowsOK(x) /\ x.phase \notin {"barrier"} /\ x.offered = None
    BY <1>1, <1>2, <1>6, RowsAssumption DEF Keeps, KnowsOK, Fresh
  <2>2. /\ \A t \in Task : ~Holds(rows[t], next)
        /\ \A d \in Conn : conn[d].cap # next /\ conn[d].offered # next
    BY NewIsUnknown
  <2>3. \A t \in Task : t # u => rows'[t] = rows[t]
    BY <1>6 DEF TypeOK
  <2>4. rows'[u].resume = next /\ rows'[u].pending = None /\ rows'[u].state = "active"
    <3>1. rows'[u] = Created(next, now)
      BY <1>6 DEF TypeOK
    <3>2. QED  BY <3>1 DEF Created, NoRow
  <2>5. /\ conn'[c] = x /\ x.offered = k.offered /\ x.phase = k.phase
        /\ \A d \in Conn : d # c => conn'[d] = conn[d]
    BY <1>4, <1>6 DEF Keeps, Becomes
  <2>6. rows[u].resume = None /\ rows[u].pending = None
    BY <1>6 DEF HeldOnce
  <2>7. ConnOK'
    BY <1>2, <1>4, <2>1 DEF ConnOK, Becomes
  <2>8. FromIssued'
    <3>1. \A t \in Task : /\ rows'[t].resume \in {rows[t].resume, next}
                          /\ rows'[t].pending \in {rows[t].pending, None, next}
      BY <2>3, <2>4
    <3>2. \A d \in Conn : /\ conn'[d].cap \in {conn[d].cap, next}
                          /\ conn'[d].offered = conn[d].offered
      BY <1>6, <2>5
    <3>3. QED  BY <1>2, <1>6, <3>1, <3>2, StillIssued
  <2>9. \A t \in Task : \A cap \in Capability :
           Holds(rows'[t], cap) <=> (t = u /\ cap = next) \/ (t # u /\ Holds(rows[t], cap))
    BY <2>3, <2>4, RowsAssumption DEF Holds
  <2>10. HeldOnce'
    <3>1. \A t \in Task : rows'[t].pending # None => rows'[t].pending # rows'[t].resume
      BY <2>3, <2>4 DEF HeldOnce
    <3>2. \A t \in Task : rows'[t].state = "absent" =>
            rows'[t].resume = None /\ rows'[t].pending = None
      BY <2>3, <2>4 DEF HeldOnce
    <3>3. \A t, v \in Task : \A cap \in Capability :
            Holds(rows'[t], cap) /\ Holds(rows'[v], cap) => t = v
      BY <2>2, <2>9 DEF HeldOnce
    <3>4. QED  BY <3>1, <3>2, <3>3 DEF HeldOnce
  <2>11. \A d \in Conn : conn[d].cap \in Capability \cup {None}
                         /\ conn[d].task \in Task \cup {None}
                         /\ conn[d].offered \in Capability \cup {None}
    BY DEF TypeOK, Connection
  <2>12. CapsOwned'
    <3>1. \A d \in Conn : conn'[d].task # None => rows'[conn'[d].task].state # "absent"
      BY <1>6, <2>3, <2>4, <2>5, <2>11 DEF CapsOwned
    <3>2. \A d \in Conn : \A t \in Task : Holds(rows'[t], conn'[d].cap) => t = conn'[d].task
      <4>1. \A t \in Task : Holds(rows'[t], x.cap) => t = x.task
        BY <1>6, <2>2, <2>9
      <4>2. \A d \in Conn : d # c =>
              \A t \in Task : Holds(rows'[t], conn[d].cap) => t = conn[d].task
        BY <2>2, <2>9, <2>11 DEF CapsOwned, Holds
      <4>3. QED  BY <2>5, <4>1, <4>2
    <3>3. \A d, e \in Conn : d # e /\ conn'[d].cap # None => conn'[d].cap # conn'[e].cap
      BY <1>6, <2>2, <2>5 DEF CapsOwned
    <3>4. QED  BY <3>1, <3>2, <3>3 DEF CapsOwned
  <2>13. AtBarrier'
    <3>1. ASSUME NEW d \in Conn, conn'[d].phase = "barrier"
          PROVE  conn'[d] = conn[d] /\ rows'[conn[d].task] = rows[conn[d].task]
      <4>1. conn'[d] = conn[d] /\ conn[d].phase = "barrier"
        BY <2>1, <2>5, <3>1
      <4>2. conn[d].task \in Task
        BY <4>1 DEF ConnOK, KnowsOK, TypeOK, Connection
      <4>3. rows[conn[d].task].state # "absent"
        BY <4>2, RowsAssumption DEF CapsOwned
      <4>4. QED  BY <1>6, <2>3, <4>1, <4>2, <4>3
    <3>2. QED  BY <3>1 DEF AtBarrier
  <2>14. Spent'
    BY <2>1, <2>2, <2>5, <2>9, <2>11 DEF Spent, Holds
  <2>15. OldCapabilityIsDead'
    BY <2>1, <2>5 DEF OldCapabilityIsDead
  <2>16. QED  BY <2>7, <2>8, <2>10, <2>12, <2>13, <2>14, <2>15
<1>7. QED
  <2>1. CASE \E t \in Task, cap \in Capability \ issued :
                        /\ k.task = None
                        /\ rows[t].state = "absent"
                        /\ rows' = [rows EXCEPT ![t] = Created(cap, now)]
                        /\ issued' = issued \cup {cap}
                        /\ Keeps(x, k, {"task", "cap", "fresh", "thread"})
                        /\ x.task = t /\ x.cap = cap /\ x.fresh = "pending"
                        /\ x.thread = "ensured"
    BY <2>1, <1>6, Zenon
  <2>2. QED  BY <1>4, <1>5, <2>1, Zenon

LEMMA CapNegotiates ==
    ASSUME TypeOK, CapInv, NEW c \in Conn, Negotiate(c)
    PROVE  CapInv'
<1> DEFINE k == conn[c]
<1> USE DEF CapInv
<1>1. /\ k \in Connection /\ KnowsOK(k)
      /\ k.offered \in issued \cup {None} /\ k.cap \in issued \cup {None}
  BY ConnFacts
<1>2. up /\ UNCHANGED <<up, store, client>> /\ k.phase = "sent"
  BY Zenon DEF Negotiate
<1>3. NamesIssued
  BY <1>2, NamesKept
<1>4. PICK s : s = Swept
  OBVIOUS
<1>5. s \in [Task -> Row] /\ \A t \in Task : Aged(rows[t], s[t])
  BY <1>4, SweptRowsAged, 4 \in 0..4 DEF Swept, TypeOK
<1>6. PICK x \in Connection :
             /\ Becomes(c, x)
             /\ \/ /\ k.offered = None
                   /\ Keeps(x, k, {"phase"}) /\ x.phase = "open"
                   /\ rows' = rows /\ issued' = issued
                \/ /\ k.offered # None
                   /\ \E t \in Task, next \in Capability \ issued :
                        /\ Resumable(s[t], k.offered)
                        /\ Keeps(x, k, {"phase", "task", "cap", "rotation"})
                        /\ x.phase = "barrier" /\ x.task = t /\ x.cap = next /\ x.rotation
                        /\ rows' = [s EXCEPT ![t] = Resumed(@, next, now)]
                        /\ issued' = issued \cup {next}
                \/ /\ k.offered # None
                   /\ Keeps(x, k, {"phase"}) /\ x.phase = "classify"
                   /\ rows' = s /\ issued' = issued
  BY <1>4, EffectNegotiate
<1>7. CASE /\ Keeps(x, k, {"phase"}) /\ issued' = issued
           /\ \/ k.offered = None /\ x.phase = "open" /\ rows' = rows
              \/ k.offered # None /\ x.phase = "classify" /\ rows' = s
  <2>1. KnowsOK(x) /\ CalmConn(x, k)
    BY <1>1, <1>2, <1>7 DEF Keeps, KnowsOK, CalmConn, Fresh
  <2>2. KeptRows
    BY <1>4, <1>7, SweptKept
  <2>3. QED  BY <1>2, <1>3, <1>6, <1>7, <2>1, <2>2, OneMoves
<1>8. ASSUME NEW u \in Task, NEW next \in Capability \ issued,
             k.offered # None, Resumable(s[u], k.offered),
             Keeps(x, k, {"phase", "task", "cap", "rotation"}),
             x.phase = "barrier", x.task = u, x.cap = next, x.rotation,
             rows' = [s EXCEPT ![u] = Resumed(@, next, now)],
             issued' = issued \cup {next}
      PROVE  CapInv'
  <2>1. KnowsOK(x)
    BY <1>1, <1>2, <1>8, RowsAssumption DEF Keeps, KnowsOK, Fresh
  <2>2. /\ \A t \in Task : ~Holds(rows[t], next)
        /\ \A d \in Conn : conn[d].cap # next /\ conn[d].offered # next
    BY NewIsUnknown
  <2>3. \A t \in Task : t # u => rows'[t] = s[t]
    BY <1>5, <1>8
  <2>4. /\ rows[u].resume = k.offered /\ rows[u].pending = None
        /\ rows[u].state = "active" /\ s[u] = rows[u]
    BY <1>5, <1>8 DEF Resumable, Aged, Active
  <2>5. rows'[u].resume = k.offered /\ rows'[u].pending = next /\ rows'[u].state = "active"
    <3>1. rows'[u] = Resumed(rows[u], next, now) /\ rows[u] \in Row
      BY <1>5, <1>8, <2>4 DEF TypeOK
    <3>2. PICK n : n = rows[u].conns + 1
      OBVIOUS
    <3>3. rows'[u] = [rows[u] EXCEPT !.pending = next, !.conns = n, !.updated = now]
      BY <3>1, <3>2 DEF Resumed
    <3>4. QED  BY <2>4, <3>1, <3>3 DEF Row
  <2>6. \A t \in Task : t # u => SameCaps(rows'[t], rows[t])
    BY <1>5, <2>3 DEF Aged, SameCaps
  <2>7. /\ conn'[c] = x /\ x.offered = k.offered
        /\ \A d \in Conn : d # c => conn'[d] = conn[d]
    BY <1>6, <1>8 DEF Keeps, Becomes
  <2>8. ConnOK'
    BY <1>2, <1>6, <2>1 DEF ConnOK, Becomes
  <2>9. FromIssued'
    <3>1. \A t \in Task : /\ rows'[t].resume \in {rows[t].resume, next}
                          /\ rows'[t].pending \in {rows[t].pending, None, next}
      BY <2>4, <2>5, <2>6 DEF SameCaps
    <3>2. \A d \in Conn : /\ conn'[d].cap \in {conn[d].cap, next}
                          /\ conn'[d].offered = conn[d].offered
      BY <1>8, <2>7
    <3>3. QED  BY <1>2, <1>8, <3>1, <3>2, StillIssued
  <2>10. k.offered \in Capability /\ k.offered # next
    BY <1>1, <1>8, <2>2 DEF Connection
  <2>11. \A t \in Task : \A cap \in Capability :
           Holds(rows'[t], cap) <=> (t = u /\ cap = next) \/ Holds(rows[t], cap)
    BY <2>4, <2>5, <2>6, RowsAssumption DEF Holds, SameCaps
  <2>12. HeldOnce'
    <3>1. \A t \in Task : rows'[t].pending # None => rows'[t].pending # rows'[t].resume
      BY <2>5, <2>6, <2>10 DEF HeldOnce, SameCaps
    <3>2. \A t \in Task : rows'[t].state = "absent" =>
            rows'[t].resume = None /\ rows'[t].pending = None
      BY <2>5, <2>6 DEF HeldOnce, SameCaps
    <3>3. \A t, v \in Task : \A cap \in Capability :
            Holds(rows'[t], cap) /\ Holds(rows'[v], cap) => t = v
      BY <2>2, <2>11 DEF HeldOnce
    <3>4. QED  BY <3>1, <3>2, <3>3 DEF HeldOnce
  <2>13. \A d \in Conn : conn[d].cap \in Capability \cup {None}
                         /\ conn[d].task \in Task \cup {None}
                         /\ conn[d].offered \in Capability \cup {None}
    BY DEF TypeOK, Connection
  <2>14. CapsOwned'
    <3>1. \A d \in Conn : conn'[d].task # None => rows'[conn'[d].task].state # "absent"
      BY <1>8, <2>5, <2>6, <2>7, <2>13 DEF CapsOwned, SameCaps
    <3>2. \A d \in Conn : \A t \in Task : Holds(rows'[t], conn'[d].cap) => t = conn'[d].task
      <4>1. \A t \in Task : Holds(rows'[t], x.cap) => t = x.task
        BY <1>8, <2>2, <2>11
      <4>2. \A d \in Conn : d # c =>
              \A t \in Task : Holds(rows'[t], conn[d].cap) => t = conn[d].task
        BY <2>2, <2>11, <2>13 DEF CapsOwned, Holds
      <4>3. QED  BY <2>7, <4>1, <4>2
    <3>3. \A d, e \in Conn : d # e /\ conn'[d].cap # None => conn'[d].cap # conn'[e].cap
      BY <1>8, <2>2, <2>7 DEF CapsOwned
    <3>4. QED  BY <3>1, <3>2, <3>3 DEF CapsOwned
  <2>15. AtBarrier'
    <3>1. ASSUME NEW d \in Conn, d # c, conn[d].phase = "barrier"
          PROVE  SameCaps(rows'[conn[d].task], rows[conn[d].task])
      <4>1. conn[d].task \in Task /\ conn[d].cap # None
        BY <3>1 DEF ConnOK, KnowsOK, TypeOK, Connection
      <4>2. rows[conn[d].task].pending = conn[d].cap
        BY <3>1 DEF AtBarrier
      <4>3. QED  BY <2>4, <2>6, <4>1, <4>2
    <3>2. QED  BY <1>8, <2>5, <2>7, <3>1 DEF AtBarrier, SameCaps
  <2>16. Spent'
    <3>1. ASSUME NEW d \in Conn, conn'[d].phase = "open", conn'[d].offered # None,
                 NEW t \in Task
          PROVE  ~Holds(rows'[t], conn'[d].offered)
      <4>1. d # c /\ conn'[d] = conn[d]
        BY <1>8, <2>7, <3>1
      <4>2. QED  BY <2>2, <2>11, <2>13, <3>1, <4>1 DEF Spent
    <3>2. QED  BY <3>1, Zenon DEF Spent
  <2>17. OldCapabilityIsDead'
    <3>1. \A d \in Conn : d # c /\ conn[d].phase = "open" /\ conn[d].offered # None
                            => conn[d].offered # k.offered
      BY <2>4, <2>10 DEF Spent, Holds
    <3>2. QED  BY <1>8, <2>7, <3>1 DEF OldCapabilityIsDead
  <2>18. QED  BY <2>8, <2>9, <2>12, <2>14, <2>15, <2>16, <2>17
<1>9. QED
  <2>1. CASE \E t \in Task, next \in Capability \ issued :
                        /\ k.offered # None
                        /\ Resumable(s[t], k.offered)
                        /\ Keeps(x, k, {"phase", "task", "cap", "rotation"})
                        /\ x.phase = "barrier" /\ x.task = t /\ x.cap = next /\ x.rotation
                        /\ rows' = [s EXCEPT ![t] = Resumed(@, next, now)]
                        /\ issued' = issued \cup {next}
    BY <2>1, <1>8, Zenon
  <2>2. QED  BY <1>6, <1>7, <2>1, Zenon

(* The whole of CapInv is kept by every step. *)
LEMMA CapStep == TypeOK /\ CapInv /\ [Next]_vars => CapInv'
<1> SUFFICES ASSUME TypeOK, CapInv, [Next]_vars PROVE CapInv'
  OBVIOUS
<1>1. CASE UNCHANGED vars
  <2>1. UNCHANGED <<up, issued, conn, store, client>> /\ KeptRows
    BY <1>1 DEF vars, KeptRows
  <2>2. QED  BY <2>1, CapsStay
<1>2. QED
  BY <1>1, CapClient, CapRejected, CapServer, CapRest, CapBegins, CapConfirms, CapEnsures,
     CapNegotiates DEF Next

(* docs/multi-agent.md: after a rotation is confirmed, the old capability  *)
(* resumes nothing.  OldCapabilityIsDead, for any number of connections    *)
(* that offer the same capability at once, across crashes of the host.     *)
THEOREM OldCapabilityDies == Spec => []OldCapabilityIsDead
<1>1. Init => TypeOK /\ CapInv
  BY TypeInit, CapInit
<1>2. TypeOK /\ CapInv /\ [Next]_vars => (TypeOK /\ CapInv)'
  BY TypeStep, CapStep
<1>3. TypeOK /\ CapInv => OldCapabilityIsDead
  BY DEF CapInv
<1>4. QED  BY <1>1, <1>2, <1>3, PTL DEF Spec

-----------------------------------------------------------------------------
(* Counts: a step that binds no connection and moves none off the barrier *)

(* A connection that comes to no task, and stays at the barrier. *)
Stays(x, k) ==
    /\ x.task # None /\ x.phase \in {"barrier", "open", "leaving"} =>
         k.phase \in {"barrier", "open", "leaving"} /\ x.task = k.task
    /\ k.phase = "barrier" => /\ x.phase = "barrier" /\ x.rotation = k.rotation
                              /\ x.task = k.task /\ x.cap = k.cap

RowStays(s, row) ==
    Active(s) => Active(row) /\ s.conns = row.conns /\ s.pending = row.pending

(* The count of one task. *)
CountedAt(t) ==
    /\ IsFiniteSet(Attached(t))
    /\ up /\ Active(rows[t]) => rows[t].conns >= Cardinality(Attached(t))

LEMMA CountedEverywhere ==
    AttachedFinite /\ ConnectionsCounted <=> \A t \in Task : CountedAt(t)
BY Zenon DEF AttachedFinite, ConnectionsCounted, CountedAt

LEMMA CountedIfFewer ==
    ASSUME TypeOK, NEW t \in Task, CountedAt(t), up' => up,
           Attached(t)' \subseteq Attached(t),
           Active(rows'[t]) => Active(rows[t]) /\ rows'[t].conns = rows[t].conns
    PROVE  CountedAt(t)'
<1>1. PICK A : A = Attached(t)
  OBVIOUS
<1>2. PICK B : B = Attached(t)'
  OBVIOUS
<1>3. IsFiniteSet(A) /\ B \subseteq A
  BY <1>1, <1>2 DEF CountedAt
<1>4. IsFiniteSet(B) /\ Cardinality(B) <= Cardinality(A)
  BY <1>3, FS_Subset, Zenon
<1>5. PICK a : a = Cardinality(A)
  OBVIOUS
<1>6. PICK b : b = Cardinality(B)
  OBVIOUS
<1>7. a \in Nat /\ b \in Nat /\ b <= a
  BY <1>3, <1>4, <1>5, <1>6, FS_CardinalityType, Zenon
<1>8. ASSUME up', Active(rows'[t])
      PROVE  rows'[t].conns >= b
  <2>1. rows[t].conns >= a /\ rows'[t].conns = rows[t].conns /\ rows[t].conns \in Nat
    BY <1>1, <1>5, <1>8 DEF CountedAt, TypeOK, Row
  <2>2. QED  BY <1>7, <2>1
<1>9. QED  BY <1>2, <1>4, <1>6, <1>8 DEF CountedAt

LEMMA OwnersStay ==
    ASSUME PendingHasOwner, up' => up,
           \A t \in Task : Active(rows'[t]) /\ rows'[t].pending # None =>
              /\ Active(rows[t]) /\ rows'[t].pending = rows[t].pending
              /\ \A d \in Conn : conn[d].phase = "barrier" /\ conn[d].task = t =>
                   /\ conn'[d].phase = "barrier" /\ conn'[d].rotation = conn[d].rotation
                   /\ conn'[d].task = conn[d].task /\ conn'[d].cap = conn[d].cap
    PROVE  PendingHasOwner'
<1> SUFFICES ASSUME up', NEW t \in Task, Active(rows'[t]), rows'[t].pending # None
             PROVE  \E c \in Conn : /\ conn'[c].phase = "barrier"
                                    /\ conn'[c].rotation
                                    /\ conn'[c].task = t
                                    /\ conn'[c].cap = rows'[t].pending
  BY DEF PendingHasOwner
<1>1. Active(rows[t]) /\ rows[t].pending = rows'[t].pending
  OBVIOUS
<1>2. PICK c \in Conn : /\ conn[c].phase = "barrier"
                        /\ conn[c].rotation
                        /\ conn[c].task = t
                        /\ conn[c].cap = rows[t].pending
  BY <1>1 DEF PendingHasOwner
<1>3. QED  BY <1>1, <1>2

LEMMA CountCalm ==
    ASSUME TypeOK, CountInv, up' => up,
           \A t \in Task : RowStays(rows'[t], rows[t]),
           \A d \in Conn : Stays(conn'[d], conn[d])
    PROVE  CountInv'
<1>1. \A t \in Task : Attached(t)' \subseteq Attached(t)
  BY RowsAssumption DEF Attached, Stays
<1>2. \A t \in Task : CountedAt(t)'
  BY <1>1, CountedEverywhere, CountedIfFewer DEF CountInv, RowStays
<1>3. AttachedFinite' /\ ConnectionsCounted'
  <2>1. (AttachedFinite /\ ConnectionsCounted <=> \A t \in Task : CountedAt(t))'
    BY CountedEverywhere, PTL
  <2>2. QED  BY <1>2, <2>1
<1>4. PendingHasOwner'
  BY OwnersStay DEF CountInv, RowStays, Stays
<1>5. QED  BY <1>3, <1>4 DEF CountInv

LEMMA CountMoves ==
    ASSUME TypeOK, CountInv, NEW c \in Conn, NEW x, Becomes(c, x), up' = up,
           Stays(x, conn[c]), \A t \in Task : RowStays(rows'[t], rows[t])
    PROVE  CountInv'
<1>1. \A d \in Conn : Stays(conn'[d], conn[d])
  BY DEF Becomes, Stays
<1>2. QED  BY <1>1, CountCalm

LEMMA CountInit == Init => CountInv
<1> SUFFICES ASSUME Init PROVE CountInv
  OBVIOUS
<1>1. \A t \in Task : Attached(t) = {}
  BY DEF Init, Attached, FreeConnection
<1>2. AttachedFinite
  BY <1>1, FS_EmptySet DEF AttachedFinite
<1>3. \A t \in Task : ~Active(rows[t])
  BY DEF Init, NoRow, Active
<1>4. QED  BY <1>2, <1>3 DEF CountInv, PendingHasOwner, ConnectionsCounted

(* The statements that keep the count and the pending capability. *)
LEMMA StatementsStay ==
    ASSUME NEW row \in Row, NEW t \in Nat
    PROVE  /\ RowStays(Closed(row, t), row)
           /\ \A owned \in BOOLEAN : RowStays(Inventoried(row, owned, t), row)
           /\ Acknowledged(row, t).conns = row.conns /\ RolledBack(row, t).conns = row.conns
           /\ Active(Acknowledged(row, t)) \/ Active(RolledBack(row, t)) => Active(row)
           /\ Acknowledged(row, t).pending = None /\ RolledBack(row, t).pending = None
<1> USE DEF Row, TaskState, RowStays, Active
<1>1. RowStays(Closed(row, t), row)
  <2>1. PICK n : n = IF row.state = "closed" THEN row.closedAt ELSE t
    OBVIOUS
  <2>2. Closed(row, t) = IF row.state \notin {"active", "closed"} THEN row
                         ELSE [row EXCEPT !.state = "closed", !.tab = FALSE,
                                          !.updated = t, !.closedAt = n]
    BY <2>1 DEF Closed
  <2>3. QED  BY <2>2
<1>2. \A owned \in BOOLEAN : RowStays(Inventoried(row, owned, t), row)
  BY DEF Inventoried
<1>3. /\ Acknowledged(row, t).conns = row.conns /\ Acknowledged(row, t).pending = None
      /\ Active(Acknowledged(row, t)) => Active(row)
  BY DEF Acknowledged
<1>4. /\ RolledBack(row, t).conns = row.conns /\ RolledBack(row, t).pending = None
      /\ Active(RolledBack(row, t)) => Active(row)
  BY DEF RolledBack
<1>5. QED  BY <1>1, <1>2, <1>3, <1>4

LEMMA RowsStay ==
    ASSUME TypeOK, NEW u,
           \/ rows' = rows \/ rows' = Swept
           \/ rows' = [rows EXCEPT ![u] = Closed(@, now)]
    PROVE  \A t \in Task : RowStays(rows'[t], rows[t])
<1>1. CASE rows' = rows
  BY <1>1 DEF RowStays
<1>2. CASE rows' = Swept
  <2>1. \A t \in Task : Aged(rows[t], Swept[t])
    BY SweptRowsAged, 4 \in 0..4 DEF TypeOK, Swept
  <2>2. QED  BY <1>2, <2>1 DEF Aged, RowStays
<1>3. CASE rows' = [rows EXCEPT ![u] = Closed(@, now)]
  <2>1. \A t \in Task : rows[t] \in Row /\ RowStays(Closed(rows[t], now), rows[t])
    BY StatementsStay DEF TypeOK
  <2>2. \A t \in Task : rows'[t] = rows[t] \/ rows'[t] = Closed(rows[t], now)
    BY <1>3 DEF TypeOK
  <2>3. QED  BY <2>1, <2>2 DEF RowStays
<1>4. QED  BY <1>1, <1>2, <1>3

LEMMA CountClient ==
    ASSUME TypeOK, CountInv, NEW c \in Conn,
           \/ ClientConnects(c) \/ ClientPrepares(c) \/ ClientRejected(c)
           \/ ClientActivates(c) \/ ClientStarts(c) \/ ClientSaves(c)
           \/ ClientAsksClose(c) \/ ClientClears(c) \/ ClientLeaves(c)
    PROVE  CountInv'
<1> DEFINE k == conn[c]
<1>1. UNCHANGED <<up, rows>>
  BY Zenon DEF ClientConnects, ClientPrepares, ClientRejected, ClientActivates, ClientStarts,
     ClientSaves, ClientAsksClose, ClientClears, ClientLeaves
<1>2. \A t \in Task : RowStays(rows'[t], rows[t])
  BY <1>1 DEF RowStays
<1>3. ASSUME NEW x, Keeps(x, k, {"peer", "confirm", "close"})
      PROVE  Stays(x, k)
  BY <1>3 DEF Keeps, Stays
<1>4. CASE ClientConnects(c)
  <2>1. PICK x \in Connection : Becomes(c, x) /\ Fresh(x)
    BY <1>4, EffectConnects
  <2>2. k.phase # "barrier"
    BY <1>4 DEF ClientConnects, Free
  <2>3. Stays(x, k)
    BY <2>1, <2>2 DEF Stays, Fresh
  <2>4. QED  BY <1>1, <1>2, <2>1, <2>3, CountMoves
<1>5. CASE ClientPrepares(c) \/ ClientSaves(c)
  <2>1. PICK x \in Connection : Becomes(c, x) /\ Keeps(x, k, {"confirm"})
    BY <1>5, EffectConfirming
  <2>2. Keeps(x, k, {"peer", "confirm", "close"})
    BY <2>1 DEF Keeps
  <2>3. QED  BY <1>1, <1>2, <1>3, <2>1, <2>2, CountMoves
<1>6. CASE ClientActivates(c) \/ ClientStarts(c)
  <2>1. conn' = conn
    BY <1>6, Zenon DEF ClientActivates, ClientStarts
  <2>2. \A d \in Conn : Stays(conn'[d], conn[d])
    BY <2>1 DEF Stays
  <2>3. QED  BY <1>1, <1>2, <2>2, CountCalm
<1>7. CASE ClientAsksClose(c)
  <2>1. PICK x \in Connection : Becomes(c, x) /\ Keeps(x, k, {"close"})
    BY <1>7, EffectAsksClose
  <2>2. Keeps(x, k, {"peer", "confirm", "close"})
    BY <2>1 DEF Keeps
  <2>3. QED  BY <1>1, <1>2, <1>3, <2>1, <2>2, CountMoves
<1>8. CASE ClientClears(c) \/ ClientLeaves(c)
  <2>1. PICK x \in Connection : Becomes(c, x) /\ Keeps(x, k, {"peer"})
    BY <1>8, EffectLeaves
  <2>2. Keeps(x, k, {"peer", "confirm", "close"})
    BY <2>1 DEF Keeps
  <2>3. QED  BY <1>1, <1>2, <1>3, <2>1, <2>2, CountMoves
<1>9. CASE ClientRejected(c)
  <2>1. PICK x \in Connection :
             /\ Keeps(x, k, {"peer"})
             /\ \/ Becomes(c, x)
                \/ \E d \in Conn, y \in Connection :
                        /\ Free(d) /\ d # c
                        /\ conn'[c] = x /\ conn'[d] = y
                        /\ \A e \in Conn : e # c /\ e # d => conn'[e] = conn[e]
                        /\ Fresh(y)
    BY <1>9, EffectRejected
  <2>2. Keeps(x, k, {"peer", "confirm", "close"})
    BY <2>1 DEF Keeps
  <2>3. Stays(x, k)
    BY <1>3, <2>2
  <2>4. CASE Becomes(c, x)
    BY <1>1, <1>2, <2>3, <2>4, CountMoves
  <2>5. ASSUME NEW d \in Conn, NEW y \in Connection, Free(d), d # c,
               conn'[c] = x, conn'[d] = y,
               \A e \in Conn : e # c /\ e # d => conn'[e] = conn[e],
               Fresh(y)
        PROVE  CountInv'
    <3>1. conn[d].phase # "barrier"
      BY <2>5 DEF Free
    <3>2. Stays(y, conn[d])
      BY <2>5, <3>1 DEF Stays, Fresh
    <3>3. \A e \in Conn : Stays(conn'[e], conn[e])
      BY <2>3, <2>5, <3>2 DEF Stays
    <3>4. QED  BY <1>1, <1>2, <3>3, CountCalm
  <2>6. QED  BY <2>1, <2>4, <2>5, Zenon
<1>10. QED  BY <1>4, <1>5, <1>6, <1>7, <1>8, <1>9

LEMMA CountThread ==
    ASSUME TypeOK, CapInv, CountInv, NEW c \in Conn,
           \/ Classify(c) \/ RequestChecked(c) \/ Respond(c) \/ Delivered(c) \/ CloseTask(c)
    PROVE  CountInv'
<1> DEFINE k == conn[c]
<1>1. k \in Connection /\ KnowsOK(k)
  BY ConnFacts
<1>2. UNCHANGED up
  BY Zenon DEF Classify, RequestChecked, Respond, Delivered, CloseTask
<1>3. CASE Classify(c)
  <2>1. PICK x \in Connection : /\ Becomes(c, x) /\ Keeps(x, k, {"phase", "reason"})
                                /\ x.phase = "rejected"
    BY <1>3, EffectClassify
  <2>2. rows' = rows /\ k.phase = "classify"
    BY <1>3, Zenon DEF Classify
  <2>3. Stays(x, k)
    BY <2>1, <2>2 DEF Keeps, Stays
  <2>4. QED  BY <1>2, <2>1, <2>2, <2>3, RowsStay, CountMoves
<1>4. CASE RequestChecked(c)
  <2>1. PICK x \in Connection : Becomes(c, x) /\ Keeps(x, k, {"thread"})
    BY <1>4, EffectChecked
  <2>2. rows' = rows
    BY <1>4, Zenon DEF RequestChecked
  <2>3. Stays(x, k)
    BY <2>1 DEF Keeps, Stays
  <2>4. QED  BY <1>2, <2>1, <2>2, <2>3, RowsStay, CountMoves
<1>5. CASE Respond(c)
  <2>1. PICK x \in Connection : Becomes(c, x) /\ Keeps(x, k, {"thread", "fresh"})
    BY <1>5, EffectRespond
  <2>2. rows' = Swept \/ rows' = rows
    BY <1>5 DEF Respond
  <2>3. Stays(x, k)
    BY <2>1 DEF Keeps, Stays
  <2>4. QED  BY <1>2, <2>1, <2>2, <2>3, RowsStay, CountMoves
<1>6. CASE Delivered(c)
  <2>1. PICK x \in Connection : Becomes(c, x) /\ Keeps(x, k, {"fresh"})
    BY <1>6, EffectDelivered
  <2>2. rows' = rows
    BY <1>6, Zenon DEF Delivered
  <2>3. Stays(x, k)
    BY <2>1 DEF Keeps, Stays
  <2>4. QED  BY <1>2, <2>1, <2>2, <2>3, RowsStay, CountMoves
<1>7. CASE CloseTask(c)
  <2>1. PICK x \in Connection :
          /\ Becomes(c, x) /\ Keeps(x, k, {"close", "cancelled"})
          /\ \/ rows' = rows
             \/ rows' = [rows EXCEPT ![k.task] = Closed(@, now)]
    BY <1>7, EffectClose DEF Keeps
  <2>2. Stays(x, k)
    BY <2>1 DEF Keeps, Stays
  <2>3. QED  BY <1>2, <2>1, <2>2, RowsStay, CountMoves
<1>8. QED  BY <1>3, <1>4, <1>5, <1>6, <1>7

LEMMA CountRest ==
    ASSUME TypeOK, CapInv, CountInv,
           (\E S \in SUBSET Task : Inventory(S)) \/ Crash \/ Boot \/ Tick
    PROVE  CountInv'
<1>1. ASSUME NEW S \in SUBSET Task, Inventory(S)
      PROVE  CountInv'
  <2>1. \A t \in Task : rows[t] \in Row /\ (t \in S) \in BOOLEAN
    BY DEF TypeOK
  <2>2. \A t \in Task : RowStays(Inventoried(rows[t], t \in S, now), rows[t])
    BY <2>1, StatementsStay, Zenon DEF TypeOK
  <2>3. \A t \in Task : rows'[t] = Inventoried(rows[t], t \in S, now)
    BY <1>1, Zenon DEF Inventory
  <2>4. \A t \in Task : RowStays(rows'[t], rows[t])
    BY <2>2, <2>3, Zenon
  <2>5. UNCHANGED <<up, conn>>
    BY <1>1, Zenon DEF Inventory
  <2>6. \A d \in Conn : Stays(conn'[d], conn[d])
    BY <2>5 DEF Stays
  <2>7. QED  BY <2>4, <2>5, <2>6, CountCalm
<1>2. CASE Crash
  <2>1. \A d \in Conn : Gone(conn'[d], conn[d])
    BY <1>2, EffectCrash
  <2>2. \A t \in Task : Attached(t)' = {}
    BY <2>1 DEF Attached, Gone
  <2>3. ~up'
    BY <1>2, Zenon DEF Crash
  <2>4. QED
    BY <2>2, <2>3, FS_EmptySet DEF CountInv, AttachedFinite, PendingHasOwner, ConnectionsCounted
<1>3. CASE Boot
  <2>1. PICK r : r = [t \in Task |-> Reopened(rows[t], now)]
    OBVIOUS
  <2>2. r \in [Task -> Row] /\ \A t \in Task : r[t] = Reopened(rows[t], now)
    <3>1. \A t \in Task : Reopened(rows[t], now) \in Row
      BY RowFacts, Zenon
    <3>2. QED  BY <2>1, <3>1
  <2>3. PICK n \in 0..4 : rows' = SweptRows(r, now, n)
    <3>1. \E n \in 0..4 :
            rows' = SweptRows([t \in Task |-> Reopened(rows[t], now)], now, n)
      BY <1>3 DEF Boot
    <3>2. QED  BY <2>1, <3>1, Zenon
  <2>4. \A t \in Task : Aged(r[t], rows'[t])
    BY <2>2, <2>3, SweptRowsAged DEF TypeOK
  <2>5. \A row \in Row : Active(Reopened(row, now)) => Reopened(row, now).pending = None
    BY DEF Row, TaskState, Reopened, Active
  <2>6. \A t \in Task : Active(rows'[t]) => rows'[t].pending = None /\ rows'[t].conns \in Nat
    BY <2>2, <2>4, <2>5 DEF TypeOK, Aged, Row
  <2>7. ~up /\ conn' = conn
    BY <1>3, Zenon DEF Boot
  <2>8. \A t \in Task : Attached(t)' = {}
    BY <2>7 DEF CapInv, ConnOK, Served, Attached
  <2>9. Cardinality({}) = 0 /\ IsFiniteSet({})
    BY FS_EmptySet
  <2>10. AttachedFinite' /\ PendingHasOwner'
    BY <2>6, <2>8, <2>9 DEF AttachedFinite, PendingHasOwner
  <2>11. \A t \in Task : Active(rows'[t]) => rows'[t].conns >= 0
    BY <2>6
  <2>12. \A t \in Task : Cardinality(Attached(t)') = 0
    BY <2>8, <2>9
  <2>13. ConnectionsCounted'
    BY <2>11, <2>12 DEF ConnectionsCounted
  <2>14. QED  BY <2>10, <2>13 DEF CountInv
<1>4. CASE Tick
  <2>1. UNCHANGED <<up, rows, conn>>
    BY <1>4, Zenon DEF Tick
  <2>2. \A d \in Conn : Stays(conn'[d], conn[d])
    BY <2>1 DEF Stays
  <2>3. QED  BY <2>1, <2>2, RowsStay, CountCalm
<1>5. QED  BY <1>1, <1>2, <1>3, <1>4

LEMMA CountedNext ==
    ASSUME \A t \in Task : CountedAt(t)', PendingHasOwner'
    PROVE  CountInv'
<1>1. (AttachedFinite /\ ConnectionsCounted <=> \A t \in Task : CountedAt(t))'
  BY CountedEverywhere, PTL
<1>2. QED  BY <1>1 DEF CountInv

LEMMA CountBegins ==
    ASSUME TypeOK, CapInv, CountInv, NEW c \in Conn, DisconnectBegins(c)
    PROVE  CountInv'
<1> DEFINE k == conn[c]
<1>1. k \in Connection /\ KnowsOK(k)
  BY ConnFacts
<1>2. up /\ up' = up
  BY Zenon DEF DisconnectBegins
<1>3. PICK x \in Connection :
             /\ Becomes(c, x)
             /\ x.task = k.task /\ x.phase \in {"gone", "leaving"}
             /\ \/ k.cancelled /\ x.phase = "gone" /\ rows' = rows
                \/ /\ RotationHeld(rows[k.task], k.cap)
                   /\ rows' = [rows EXCEPT ![k.task] = RolledBack(@, now)]
                \/ /\ ~(k.rotation /\ RotationHeld(rows[k.task], k.cap))
                   /\ rows' = rows
  BY EffectBegins DEF Keeps
<1>4. \A t \in Task : \/ rows'[t] = rows[t]
                      \/ t = k.task /\ rows'[t] = RolledBack(rows[t], now)
  BY <1>3 DEF TypeOK
<1>5. \A t \in Task : /\ Acknowledged(rows[t], now).conns = rows[t].conns
                      /\ RolledBack(rows[t], now).conns = rows[t].conns
                      /\ Active(RolledBack(rows[t], now)) => Active(rows[t])
                      /\ RolledBack(rows[t], now).pending = None
  BY StatementsStay DEF TypeOK
<1>6. k.phase \in {"rejected", "barrier", "open"}
  BY DEF DisconnectBegins
<1>7. \A t \in Task : Attached(t)' \subseteq Attached(t)
  BY <1>1, <1>3, <1>6, RowsAssumption DEF Attached, Becomes, KnowsOK, Fresh
<1>8. \A t \in Task : CountedAt(t)'
  <2>1. \A t \in Task : Active(rows'[t]) => Active(rows[t]) /\ rows'[t].conns = rows[t].conns
    BY <1>4, <1>5
  <2>2. QED  BY <1>2, <1>7, <2>1, CountedEverywhere, CountedIfFewer DEF CountInv
<1>9. ASSUME NEW t \in Task, Active(rows'[t]), rows'[t].pending # None
      PROVE  /\ Active(rows[t]) /\ rows'[t].pending = rows[t].pending
             /\ \A d \in Conn : conn[d].phase = "barrier" /\ conn[d].task = t => d # c
  <2>1. rows'[t] = rows[t]
    BY <1>4, <1>5, <1>9
  <2>2. ASSUME k.phase = "barrier", k.task = t
        PROVE  FALSE
    <3>1. k.rotation /\ ~k.cancelled /\ rows[t].pending = k.cap
      BY <1>1, <2>2 DEF KnowsOK, CapInv, AtBarrier
    <3>2. RotationHeld(rows[k.task], k.cap)
      BY <1>9, <2>1, <2>2, <3>1 DEF RotationHeld
    <3>3. rows'[t] = RolledBack(rows[t], now)
      BY <1>3, <2>2, <3>1, <3>2 DEF TypeOK
    <3>4. QED  BY <1>5, <1>9, <3>3
  <2>3. QED  BY <1>9, <2>1, <2>2
<1>10. PendingHasOwner'
  BY <1>2, <1>3, <1>9, OwnersStay DEF CountInv, Becomes
<1>11. QED  BY <1>8, <1>10, CountedNext

LEMMA CountEnds ==
    ASSUME TypeOK, CapInv, CountInv, NEW c \in Conn, DisconnectEnds(c)
    PROVE  CountInv'
<1> DEFINE k == conn[c]
<1>1. k \in Connection /\ KnowsOK(k)
  BY ConnFacts
<1>2. up /\ up' = up /\ k.phase = "leaving"
  BY Zenon DEF DisconnectEnds
<1>3. PICK x \in Connection : Becomes(c, x) /\ Keeps(x, k, {"phase"}) /\ x.phase = "gone"
  BY EffectEnds
<1>4. Stays(x, k)
  BY <1>2, <1>3 DEF Stays
<1>5. CASE rows' = rows \/ rows' = [rows EXCEPT ![k.task] = Closed(@, now)]
  BY <1>2, <1>3, <1>4, <1>5, RowsStay, CountMoves
<1>6. CASE k.task # None /\ rows' = [rows EXCEPT ![k.task] = Detached(@, now)]
  <2>1. PICK u \in Task : u = k.task
    BY <1>1, <1>6 DEF Connection
  <2>2. \A t \in Task : t # u => rows'[t] = rows[t]
    BY <1>6, <2>1 DEF TypeOK
  <2>3. PICK row : row = rows[u]
    OBVIOUS
  <2>4. row \in Row /\ rows'[u] = Detached(row, now)
    BY <1>6, <2>1, <2>3 DEF TypeOK
  <2>5. /\ Active(rows'[u]) => Active(row)
        /\ rows'[u].pending = row.pending
        /\ Active(row) => rows'[u].conns = IF row.conns > 0 THEN row.conns - 1 ELSE 0
    <3>1. PICK n : n = IF row.conns > 0 THEN row.conns - 1 ELSE 0
      OBVIOUS
    <3>2. rows'[u] = IF Active(row) THEN [row EXCEPT !.conns = n, !.updated = now]
                          ELSE row
      BY <2>4, <3>1 DEF Detached
    <3>3. QED  BY <2>4, <3>1, <3>2 DEF Row, Active
  <2>6. \A d \in Conn : Stays(conn'[d], conn[d])
    BY <1>3, <1>4 DEF Becomes, Stays
  <2>7. \A t \in Task : Attached(t)' \subseteq Attached(t)
    BY <2>6, RowsAssumption DEF Attached, Stays
  <2>8. \A t \in Task : t # u => CountedAt(t)'
    BY <1>2, <2>2, <2>7, CountedEverywhere, CountedIfFewer DEF CountInv
  <2>9. CountedAt(u)'
    <3>1. PICK A : A = Attached(u)
      OBVIOUS
    <3>2. PICK B : B = Attached(u)'
      OBVIOUS
    <3>3. B = A \ {c} /\ c \in A
      <4>1. c \in A
        BY <1>2, <2>1, <3>1 DEF Attached
      <4>2. c \notin B
        BY <1>3, <3>2 DEF Attached, Becomes
      <4>3. \A d \in Conn : d # c => (d \in A <=> d \in B)
        BY <1>3, <3>1, <3>2 DEF Attached, Becomes
      <4>4. A \subseteq Conn /\ B \subseteq Conn
        BY <3>1, <3>2 DEF Attached
      <4>5. QED  BY <4>1, <4>2, <4>3, <4>4
    <3>4. CountedAt(u)
      BY <2>1, CountedEverywhere, Zenon DEF CountInv
    <3>5. IsFiniteSet(A)
      BY <3>1, <3>4 DEF CountedAt
    <3>6. IsFiniteSet(B) /\ Cardinality(B) = Cardinality(A) - 1
      BY <3>3, <3>5, FS_RemoveElement
    <3>7. PICK a : a = Cardinality(A)
      OBVIOUS
    <3>8. a \in Nat /\ a - 1 \in Nat
      BY <3>3, <3>5, <3>6, <3>7, FS_CardinalityType
    <3>9. Active(row) => row.conns >= a /\ row.conns \in Nat
      BY <1>2, <2>3, <2>4, <3>1, <3>4, <3>7 DEF CountedAt, Row
    <3>10. Active(rows'[u]) => rows'[u].conns >= a - 1
      BY <2>5, <3>8, <3>9
    <3>11. QED  BY <3>2, <3>6, <3>7, <3>10 DEF CountedAt
  <2>10. PendingHasOwner'
    <3>1. \A t \in Task : Active(rows'[t]) =>
            Active(rows[t]) /\ rows'[t].pending = rows[t].pending
      BY <2>2, <2>3, <2>5
    <3>2. QED  BY <1>2, <2>6, <3>1, OwnersStay DEF CountInv, Stays
  <2>11. QED  BY <2>8, <2>9, <2>10, CountedNext
<1>7. QED  BY <1>5, <1>6 DEF DisconnectEnds

LEMMA CountConfirms ==
    ASSUME TypeOK, CapInv, CountInv, NEW c \in Conn, Confirm(c)
    PROVE  CountInv'
<1> DEFINE k == conn[c]
<1>1. k \in Connection /\ KnowsOK(k)
  BY ConnFacts
<1>2. up /\ up' = up /\ k.phase \in {"barrier", "open"}
  BY Zenon DEF Confirm
<1>3. PICK x \in Connection :
             /\ Becomes(c, x)
             /\ \/ /\ k.rotation /\ RotationHeld(rows[k.task], k.cap)
                   /\ Keeps(x, k, {"phase", "rotation", "confirm"})
                   /\ x.phase = "open"
                   /\ rows' = [rows EXCEPT ![k.task] = Acknowledged(@, now)]
                \/ /\ Keeps(x, k, {"peer", "confirm", "fresh"})
                   /\ rows' = rows
  BY EffectConfirm DEF Keeps
<1>4. CASE Keeps(x, k, {"peer", "confirm", "fresh"}) /\ rows' = rows
  <2>1. Stays(x, k)
    BY <1>4 DEF Keeps, Stays
  <2>2. QED  BY <1>2, <1>3, <1>4, <2>1, RowsStay, CountMoves
<1>5. CASE /\ k.rotation /\ RotationHeld(rows[k.task], k.cap)
           /\ Keeps(x, k, {"phase", "rotation", "confirm"})
           /\ x.phase = "open"
           /\ rows' = [rows EXCEPT ![k.task] = Acknowledged(@, now)]
  <2>1. k.phase = "barrier" /\ k.task \in Task
    BY <1>1, <1>2, <1>5 DEF KnowsOK, Connection
  <2>2. \A t \in Task : t # k.task => rows'[t] = rows[t]
    BY <1>5 DEF TypeOK
  <2>3. rows'[k.task] = Acknowledged(rows[k.task], now) /\ rows[k.task] \in Row
    BY <1>5, <2>1 DEF TypeOK
  <2>4. /\ rows'[k.task].conns = rows[k.task].conns /\ rows'[k.task].pending = None
        /\ Active(rows'[k.task]) => Active(rows[k.task])
    BY <2>3, StatementsStay DEF TypeOK
  <2>5. \A t \in Task : Attached(t)' \subseteq Attached(t)
    BY <1>2, <1>3, <1>5 DEF Attached, Becomes, Keeps
  <2>6. \A t \in Task : CountedAt(t)'
    <3>1. \A t \in Task : Active(rows'[t]) => Active(rows[t]) /\ rows'[t].conns = rows[t].conns
      BY <2>2, <2>4
    <3>2. QED  BY <1>2, <2>5, <3>1, CountedEverywhere, CountedIfFewer DEF CountInv
  <2>7. PendingHasOwner'
    BY <1>2, <1>3, <2>2, <2>4, OwnersStay DEF CountInv, Becomes
  <2>8. QED  BY <2>6, <2>7, CountedNext
<1>6. QED  BY <1>3, <1>4, <1>5

LEMMA CountEnsures ==
    ASSUME TypeOK, CapInv, CountInv, NEW c \in Conn, EnsureTask(c)
    PROVE  CountInv'
<1> DEFINE k == conn[c]
<1>1. k \in Connection /\ KnowsOK(k)
  BY ConnFacts
<1>2. up /\ up' = up /\ k.thread = "checked"
  BY Zenon DEF EnsureTask
<1>3. PICK x \in Connection :
             /\ Becomes(c, x)
             /\ \/ /\ Keeps(x, k, {"thread"}) /\ rows' = rows
                \/ /\ k.task = None
                   /\ \E t \in Task, cap \in Capability \ issued :
                        /\ rows[t].state = "absent"
                        /\ rows' = [rows EXCEPT ![t] = Created(cap, now)]
                        /\ x.phase = k.phase /\ x.task = t
  BY EffectEnsure DEF Keeps
<1>4. CASE Keeps(x, k, {"thread"}) /\ rows' = rows
  <2>1. Stays(x, k)
    BY <1>4 DEF Keeps, Stays
  <2>2. QED  BY <1>2, <1>3, <1>4, <2>1, RowsStay, CountMoves
<1>5. ASSUME NEW u \in Task, NEW cap \in Capability \ issued,
             k.task = None, rows[u].state = "absent",
             rows' = [rows EXCEPT ![u] = Created(cap, now)], x.task = u, x.phase = k.phase
      PROVE  CountInv'
  <2>1. \A t \in Task : t # u => rows'[t] = rows[t]
    BY <1>5 DEF TypeOK
  <2>2. rows'[u].conns = 1 /\ rows'[u].pending = None
    <3>1. rows'[u] = Created(cap, now)
      BY <1>5 DEF TypeOK
    <3>2. QED  BY <3>1 DEF Created, NoRow
  <2>3. \A d \in Conn : conn[d].task # u
    BY <1>5, RowsAssumption DEF CapInv, CapsOwned
  <2>4. \A t \in Task : t # u => Attached(t)' \subseteq Attached(t)
    BY <1>3, <1>5 DEF Attached, Becomes
  <2>5. \A t \in Task : t # u => CountedAt(t)'
    BY <1>2, <2>1, <2>4, CountedEverywhere, CountedIfFewer DEF CountInv
  <2>6. CountedAt(u)'
    <3>1. PICK B : B = Attached(u)'
      OBVIOUS
    <3>2. B \subseteq {c}
      BY <1>3, <2>3, <3>1 DEF Attached, Becomes
    <3>3. IsFiniteSet({c}) /\ Cardinality({c}) = 1
      BY FS_Singleton, Zenon
    <3>4. IsFiniteSet(B) /\ Cardinality(B) <= Cardinality({c})
      BY <3>2, <3>3, FS_Subset, Zenon
    <3>5. PICK b : b = Cardinality(B)
      OBVIOUS
    <3>6. b \in Nat
      BY <3>4, <3>5, FS_CardinalityType, Zenon
    <3>7. rows'[u].conns >= b
      BY <2>2, <3>3, <3>4, <3>5, <3>6
    <3>8. QED  BY <3>1, <3>4, <3>5, <3>7 DEF CountedAt
  <2>7. PendingHasOwner'
    <3>1. k.phase # "barrier"
      BY <1>1, <1>2 DEF KnowsOK
    <3>2. \A t \in Task : Active(rows'[t]) /\ rows'[t].pending # None => rows'[t] = rows[t]
      BY <2>1, <2>2
    <3>3. QED  BY <1>2, <1>3, <3>1, <3>2, OwnersStay DEF CountInv, Becomes
  <2>8. QED  BY <2>5, <2>6, <2>7, CountedNext
<1>6. QED
  <2>1. CASE \E t \in Task, cap \in Capability \ issued :
                        /\ k.task = None
                        /\ rows[t].state = "absent"
                        /\ rows' = [rows EXCEPT ![t] = Created(cap, now)]
                        /\ x.phase = k.phase /\ x.task = t
    BY <2>1, <1>5, Zenon
  <2>2. QED  BY <1>3, <1>4, <2>1, Zenon

LEMMA CountNegotiates ==
    ASSUME TypeOK, CapInv, CountInv, NEW c \in Conn, Negotiate(c)
    PROVE  CountInv'
<1> DEFINE k == conn[c]
<1>1. k \in Connection /\ KnowsOK(k)
  BY ConnFacts
<1>2. up /\ up' = up /\ k.phase = "sent"
  BY Zenon DEF Negotiate
<1>3. PICK s : s = Swept
  OBVIOUS
<1>4. s \in [Task -> Row] /\ \A t \in Task : Aged(rows[t], s[t])
  BY <1>3, SweptRowsAged, 4 \in 0..4 DEF Swept, TypeOK
<1>5. PICK x \in Connection :
             /\ Becomes(c, x)
             /\ \/ /\ Keeps(x, k, {"phase"}) /\ x.phase \in {"open", "classify"}
                   /\ rows' = rows \/ rows' = s
                \/ \E t \in Task, next \in Capability \ issued :
                        /\ Resumable(s[t], k.offered)
                        /\ x.phase = "barrier" /\ x.task = t /\ x.cap = next /\ x.rotation
                        /\ rows' = [s EXCEPT ![t] = Resumed(@, next, now)]
  BY <1>3, EffectNegotiate
<1>6. CASE /\ Keeps(x, k, {"phase"}) /\ x.phase \in {"open", "classify"}
           /\ rows' = rows \/ rows' = s
  <2>1. Stays(x, k)
    BY <1>1, <1>2, <1>6 DEF Keeps, Stays, KnowsOK, Fresh
  <2>2. QED  BY <1>2, <1>3, <1>5, <1>6, <2>1, RowsStay, CountMoves
<1>7. ASSUME NEW u \in Task, NEW next \in Capability \ issued,
             Resumable(s[u], k.offered), x.phase = "barrier", x.task = u, x.cap = next,
             x.rotation, rows' = [s EXCEPT ![u] = Resumed(@, next, now)]
      PROVE  CountInv'
  <2>1. \A t \in Task : t # u => rows'[t] = s[t]
    BY <1>4, <1>7
  <2>2. \A t \in Task : t # u => RowStays(rows'[t], rows[t])
    BY <1>4, <2>1 DEF Aged, RowStays
  <2>3. Active(rows[u]) /\ s[u] = rows[u] /\ rows[u] \in Row
    BY <1>4, <1>7 DEF Resumable, Aged, Active, TypeOK
  <2>4. PICK n : n = rows[u].conns + 1
    OBVIOUS
  <2>5. rows'[u].conns = n /\ rows'[u].pending = next
    <3>1. rows'[u] = [rows[u] EXCEPT !.pending = next, !.conns = n, !.updated = now]
      BY <1>4, <1>7, <2>3, <2>4 DEF Resumed
    <3>2. QED  BY <2>3, <3>1 DEF Row
  <2>6. \A t \in Task : t # u => Attached(t)' \subseteq Attached(t)
    BY <1>5, <1>7 DEF Attached, Becomes
  <2>7. \A t \in Task : t # u => CountedAt(t)'
    BY <1>2, <2>2, <2>6, CountedEverywhere, CountedIfFewer DEF CountInv, RowStays
  <2>8. CountedAt(u)'
    <3>1. PICK A : A = Attached(u)
      OBVIOUS
    <3>2. PICK B : B = Attached(u)'
      OBVIOUS
    <3>3. B = A \cup {c} /\ c \notin A
      BY <1>2, <1>5, <1>7, <3>1, <3>2 DEF Attached, Becomes
    <3>4. CountedAt(u)
      BY CountedEverywhere, Zenon DEF CountInv
    <3>5. IsFiniteSet(A)
      BY <3>1, <3>4 DEF CountedAt
    <3>6. IsFiniteSet(B) /\ Cardinality(B) = Cardinality(A) + 1
      BY <3>3, <3>5, FS_AddElement
    <3>7. PICK a : a = Cardinality(A)
      OBVIOUS
    <3>8. a \in Nat
      BY <3>5, <3>7, FS_CardinalityType
    <3>9. rows[u].conns >= a /\ rows[u].conns \in Nat
      BY <1>2, <2>3, <3>1, <3>4, <3>7 DEF CountedAt, Row
    <3>10. n >= a + 1
      BY <2>4, <3>8, <3>9
    <3>11. QED  BY <2>5, <3>2, <3>6, <3>7, <3>10 DEF CountedAt
  <2>9. PendingHasOwner'
    <3> SUFFICES ASSUME NEW t \in Task, Active(rows'[t]), rows'[t].pending # None
                 PROVE  \E d \in Conn : /\ conn'[d].phase = "barrier"
                                        /\ conn'[d].rotation
                                        /\ conn'[d].task = t
                                        /\ conn'[d].cap = rows'[t].pending
      BY DEF PendingHasOwner
    <3>1. CASE t = u
      BY <1>5, <1>7, <2>5, <3>1 DEF Becomes
    <3>2. CASE t # u
      <4>1. Active(rows[t]) /\ rows[t].pending # None /\ rows'[t].pending = rows[t].pending
        BY <2>2, <3>2 DEF RowStays
      <4>2. PICK d \in Conn : /\ conn[d].phase = "barrier"
                              /\ conn[d].rotation
                              /\ conn[d].task = t
                              /\ conn[d].cap = rows[t].pending
        BY <1>2, <4>1 DEF CountInv, PendingHasOwner
      <4>3. conn'[d] = conn[d]
        BY <1>2, <1>5, <4>2 DEF Becomes
      <4>4. QED  BY <4>1, <4>2, <4>3
    <3>3. QED  BY <3>1, <3>2
  <2>10. QED  BY <2>7, <2>8, <2>9, CountedNext
<1>8. QED
  <2>1. CASE \E t \in Task, next \in Capability \ issued :
                        /\ Resumable(s[t], k.offered)
                        /\ x.phase = "barrier" /\ x.task = t /\ x.cap = next /\ x.rotation
                        /\ rows' = [s EXCEPT ![t] = Resumed(@, next, now)]
    BY <2>1, <1>7, Zenon
  <2>2. QED  BY <1>5, <1>6, <2>1, Zenon

LEMMA CountStep == TypeOK /\ CapInv /\ CountInv /\ [Next]_vars => CountInv'
<1> SUFFICES ASSUME TypeOK, CapInv, CountInv, [Next]_vars PROVE CountInv'
  OBVIOUS
<1>1. CASE UNCHANGED vars
  <2>1. UNCHANGED <<up, rows, conn>>
    BY <1>1 DEF vars
  <2>2. \A d \in Conn : Stays(conn'[d], conn[d])
    BY <2>1 DEF Stays
  <2>3. QED  BY <2>1, <2>2, RowsStay, CountCalm
<1>2. QED
  BY <1>1, CountClient, CountThread, CountRest, CountBegins, CountEnds, CountConfirms,
     CountEnsures, CountNegotiates DEF Next

(* The journal never counts fewer connections than a task has, so that no  *)
(* cleanup closes a task somebody is connected to; and a rotation that is  *)
(* pending has a connection that will confirm it or take it back.          *)
THEOREM LeasesAreCounted == Spec => []LeasesCounted
<1>1. Init => TypeOK /\ CapInv /\ CountInv
  BY TypeInit, CapInit, CountInit
<1>2. TypeOK /\ CapInv /\ CountInv /\ [Next]_vars => (TypeOK /\ CapInv /\ CountInv)'
  BY TypeStep, CapStep, CountStep
<1>3. TypeOK /\ CapInv /\ CountInv => LeasesCounted
  BY DEF CountInv, LeasesCounted
<1>4. QED  BY <1>1, <1>2, <1>3, PTL DEF Spec

-----------------------------------------------------------------------------
(* Tombs: the statements of a cleanup *)

Apart(r) == \A k, u \in Task : \A cap \in Capability :
                Holds(r[k], cap) /\ Holds(r[u], cap) => k = u

LEMMA IdleClosedTombs ==
    ASSUME NEW r \in [Task -> Row], NEW tb \in [Capability -> Nat \cup {None}],
           NEW t \in Nat, TombsRight(r, tb, t)
    PROVE  TombsRight(IdleClosed(r, t), tb, t)
<1>1. PICK a : a = IdleClosed(r, t)
  OBVIOUS
<1>2. \A k \in Task : Aged(r[k], a[k])
  BY <1>1, IdleClosedAged
<1>3. \A k \in Task : \A cap \in Capability :
        /\ Holds(a[k], cap) <=> Holds(r[k], cap)
        /\ Active(a[k]) => Active(r[k])
        /\ Active(r[k]) \/ a[k].closedAt = r[k].closedAt
        /\ a[k].resume = r[k].resume
        /\ Active(r[k]) => a[k].state # "deleted"
        /\ ~Active(r[k]) => a[k] = r[k]
  <2>1. \A k \in Task : a[k] = IF Idle(r[k], t)
                               THEN [r[k] EXCEPT !.state = "closed", !.updated = t,
                                                 !.closedAt = t]
                               ELSE r[k]
    BY <1>1 DEF IdleClosed
  <2>2. \A k \in Task : ~Active(r[k]) => a[k] = r[k]
    BY <2>1 DEF Idle
  <2>3. \A k \in Task : Active(r[k]) => a[k].state # "deleted"
    BY <2>1 DEF Active, Row
  <2>4. QED  BY <1>2, <2>2, <2>3 DEF Aged, Holds
<1>4. \A cap \in Capability : cap # None
  BY RowsAssumption
<1>5. \A k \in Task : \A cap \in Capability :
        Active(r[k]) /\ r[k].resume = cap => tb[cap] = None
  BY <1>4 DEF TombsRight, Holds
<1>6. TombsRight(a, tb, t)
  <2>1. ASSUME NEW k \in Task, NEW cap \in Capability
        PROVE  /\ Active(a[k]) /\ Holds(a[k], cap) => tb[cap] = None
               /\ a[k].resume = cap /\ tb[cap] # None => tb[cap] = a[k].closedAt
               /\ a[k].state = "deleted" /\ a[k].resume = cap =>
                    tb[cap] # None \/ a[k].closedAt < t - TombstoneRetention
    <3>1. CASE Active(r[k])
      BY <1>3, <1>5, <3>1 DEF TombsRight
    <3>2. CASE ~Active(r[k])
      BY <1>3, <3>2 DEF TombsRight
    <3>3. QED  BY <3>1, <3>2
  <2>2. QED  BY <2>1 DEF TombsRight
<1>7. QED  BY <1>1, <1>6

LEMMA EntombedTombs ==
    ASSUME NEW r \in [Task -> Row], NEW tb \in [Capability -> Nat \cup {None}],
           NEW t \in Nat, TombsRight(r, tb, t), Apart(r)
    PROVE  TombsRight(r, Entombed(r, tb, t), t)
<1>1. PICK e : e = Entombed(r, tb, t)
  OBVIOUS
<1>2. \A cap \in Capability :
        \/ e[cap] = tb[cap]
        \/ /\ tb[cap] = None
           /\ \E k \in Task : /\ Expired(r[k], t)
                              /\ cap \in {r[k].resume, r[k].pending}
                              /\ e[cap] = r[k].closedAt
  BY <1>1, EntombedIs, Zenon
<1>3. ASSUME NEW k \in Task, NEW cap \in Capability
      PROVE  /\ Active(r[k]) /\ Holds(r[k], cap) => e[cap] = None
             /\ r[k].resume = cap /\ e[cap] # None => e[cap] = r[k].closedAt
             /\ r[k].state = "deleted" /\ r[k].resume = cap =>
                  e[cap] # None \/ r[k].closedAt < t - TombstoneRetention
  <2>1. CASE e[cap] = tb[cap]
    BY <2>1 DEF TombsRight
  <2>2. CASE tb[cap] = None /\ e[cap] # tb[cap]
    <3>1. PICK u \in Task : /\ Expired(r[u], t)
                            /\ cap \in {r[u].resume, r[u].pending}
                            /\ e[cap] = r[u].closedAt
      BY <1>2, <2>2
    <3>2. Holds(r[u], cap) /\ cap # None
      BY <3>1, RowsAssumption DEF Holds
    <3>3. Holds(r[k], cap) => k = u
      BY <3>2 DEF Apart
    <3>4. r[k].resume = cap => Holds(r[k], cap)
      BY <3>2 DEF Holds
    <3>5. QED  BY <2>2, <3>1, <3>3, <3>4 DEF Expired, Active
  <2>3. QED  BY <1>2, <2>1, <2>2
<1>4. QED  BY <1>1, <1>3, Zenon DEF TombsRight

LEMMA DeletedTombs ==
    ASSUME NEW r \in [Task -> Row], NEW tb \in [Capability -> Nat \cup {None}],
           NEW t \in Nat, TombsRight(r, tb, t),
           \A k \in Task : \A cap \in Capability :
                Expired(r[k], t) /\ cap \in {r[k].resume, r[k].pending} => tb[cap] # None
    PROVE  TombsRight(Deleted(r, t), tb, t)
<1>1. PICK a : a = Deleted(r, t)
  OBVIOUS
<1>2. \A k \in Task : Aged(r[k], a[k])
  BY <1>1, DeletedAged
<1>3. \A k \in Task : a[k] = IF Expired(r[k], t) THEN [r[k] EXCEPT !.state = "deleted"]
                                                 ELSE r[k]
  BY <1>1 DEF Deleted
<1>4. ASSUME NEW k \in Task
      PROVE  /\ a[k].resume = r[k].resume /\ a[k].pending = r[k].pending
             /\ a[k].closedAt = r[k].closedAt
             /\ Active(a[k]) => Active(r[k])
             /\ a[k].state = "deleted" => r[k].state = "deleted" \/ Expired(r[k], t)
  BY <1>3 DEF Active, Row
<1>5. ASSUME NEW k \in Task, NEW cap \in Capability
      PROVE  /\ Active(a[k]) /\ Holds(a[k], cap) => tb[cap] = None
             /\ a[k].resume = cap /\ tb[cap] # None => tb[cap] = a[k].closedAt
             /\ a[k].state = "deleted" /\ a[k].resume = cap =>
                  tb[cap] # None \/ a[k].closedAt < t - TombstoneRetention
  BY <1>4 DEF TombsRight, Holds
<1>6. QED  BY <1>1, <1>5, Zenon DEF TombsRight

LEMMA ForgottenTombs ==
    ASSUME NEW r \in [Task -> Row], NEW tb \in [Capability -> Nat \cup {None}],
           NEW t \in Nat, TombsRight(r, tb, t)
    PROVE  TombsRight(r, Forgotten(tb, t), t)
<1>1. PICK e : e = Forgotten(tb, t)
  OBVIOUS
<1>2. \A cap \in Capability :
        \/ e[cap] = tb[cap]
        \/ e[cap] = None /\ tb[cap] # None /\ tb[cap] < t - TombstoneRetention
  BY <1>1 DEF Forgotten
<1>3. ASSUME NEW k \in Task, NEW cap \in Capability
      PROVE  /\ Active(r[k]) /\ Holds(r[k], cap) => e[cap] = None
             /\ r[k].resume = cap /\ e[cap] # None => e[cap] = r[k].closedAt
             /\ r[k].state = "deleted" /\ r[k].resume = cap =>
                  e[cap] # None \/ r[k].closedAt < t - TombstoneRetention
  BY <1>2 DEF TombsRight
<1>4. QED  BY <1>1, <1>3, Zenon DEF TombsRight

LEMMA SweptTombsRight ==
    ASSUME NEW r \in [Task -> Row], NEW tb \in [Capability -> Nat \cup {None}],
           NEW t \in Nat, NEW n \in 0..4, TombsRight(r, tb, t), Apart(r)
    PROVE  TombsRight(SweptRows(r, t, n), SweptTombs(r, tb, t, n), t)
<1>1. PICK a : a = IF n >= 1 THEN IdleClosed(r, t) ELSE r
  OBVIOUS
<1>2. a \in [Task -> Row] /\ TombsRight(a, tb, t)
  BY <1>1, IdleClosedAged, IdleClosedTombs
<1>3. Apart(a)
  <2>1. \A k \in Task : Aged(r[k], a[k])
    BY <1>1, IdleClosedAged DEF Aged
  <2>2. QED  BY <2>1 DEF Apart, Aged, Holds
<1>4. PICK e : e = IF n >= 2 THEN Entombed(a, tb, t) ELSE tb
  OBVIOUS
<1>5. e \in [Capability -> Nat \cup {None}] /\ TombsRight(a, e, t)
  BY <1>2, <1>3, <1>4, EntombedIs, EntombedTombs
<1>6. PICK b : b = IF n >= 3 THEN Deleted(a, t) ELSE a
  OBVIOUS
<1>7. b \in [Task -> Row] /\ TombsRight(b, e, t)
  <2>1. CASE n >= 3
    <3>1. e = Entombed(a, tb, t)
      BY <1>4, <2>1
    <3>2. \A k \in Task : \A cap \in Capability :
            Expired(a[k], t) /\ cap \in {a[k].resume, a[k].pending} => e[cap] # None
      <4>1. \A k \in Task : \A cap \in Capability :
              Expired(a[k], t) /\ cap \in {a[k].resume, a[k].pending}
                => Entombed(a, tb, t)[cap] # None
        BY <1>2, EntombedIs, Zenon
      <4>2. QED  BY <3>1, <4>1
    <3>3. b = Deleted(a, t)
      BY <1>6, <2>1
    <3>4. TombsRight(Deleted(a, t), e, t)
      BY <1>2, <1>5, <3>2, DeletedTombs, Zenon
    <3>5. QED  BY <1>2, <3>3, <3>4, DeletedAged
  <2>2. CASE ~(n >= 3)
    BY <1>2, <1>5, <1>6, <2>2
  <2>3. QED  BY <2>1, <2>2
<1>8. SweptRows(r, t, n) = b
  BY <1>1, <1>6 DEF SweptRows
<1>9. SweptTombs(r, tb, t, n) = IF n >= 4 THEN Forgotten(e, t) ELSE e
  BY <1>1, <1>4 DEF SweptTombs
<1>10. QED  BY <1>5, <1>7, <1>8, <1>9, ForgottenTombs

(* Where the tombs of a cleanup come from. *)
LEMMA SweptTombsFrom ==
    ASSUME NEW r \in [Task -> Row], NEW tb \in [Capability -> Nat \cup {None}],
           NEW t \in Nat, NEW n \in 0..4, NEW cap \in Capability,
           SweptTombs(r, tb, t, n)[cap] # None, tb[cap] = None
    PROVE  \E k \in Task : Holds(r[k], cap) /\ ~Active(SweptRows(r, t, n)[k])
<1>1. PICK a : a = IF n >= 1 THEN IdleClosed(r, t) ELSE r
  OBVIOUS
<1>2. a \in [Task -> Row] /\ \A k \in Task : Aged(r[k], a[k])
  BY <1>1, IdleClosedAged DEF Aged
<1>3. PICK e : e = IF n >= 2 THEN Entombed(a, tb, t) ELSE tb
  OBVIOUS
<1>4. PICK b : b = IF n >= 3 THEN Deleted(a, t) ELSE a
  OBVIOUS
<1>5. \A k \in Task : Aged(a[k], b[k])
  BY <1>2, <1>4, DeletedAged DEF Aged
<1>6. SweptRows(r, t, n) = b
  BY <1>1, <1>4 DEF SweptRows
<1>7. SweptTombs(r, tb, t, n) = IF n >= 4 THEN Forgotten(e, t) ELSE e
  BY <1>1, <1>3 DEF SweptTombs
<1>8. e[cap] # None
  BY <1>7 DEF Forgotten
<1>9. n >= 2 /\ e = Entombed(a, tb, t)
  BY <1>3, <1>8
<1>10. PICK k \in Task : Expired(a[k], t) /\ cap \in {a[k].resume, a[k].pending}
  BY <1>2, <1>8, <1>9, EntombedIs
<1>11. Holds(r[k], cap) /\ ~Active(b[k])
  BY <1>2, <1>5, <1>10, RowsAssumption DEF Aged, Holds, Expired, Active
<1>12. QED  BY <1>6, <1>11

-----------------------------------------------------------------------------
(* The file of the client: the steps of the host *)

(* What a step may do to a task's capability as its owner sees it: a task  *)
(* that stays active keeps a capability that is in the file.               *)
Kept == \A t \in Task :
          Active(rows[t]) /\ Active(rows'[t]) /\ rows[t].resume \in Stored
          => rows'[t].resume \in Stored'

(* Connection x of the host after a step, k before it. *)
HostConn(x, k) ==
    /\ x.offered = k.offered
    /\ k.phase # "free" => x.phase # "free"
    /\ x.confirm \in {k.confirm, None}
    /\ x.cap = k.cap \/ (k.cap = None /\ x.cap \notin issued)
    /\ x.phase = "barrier" => x.confirm = None \/ (k.phase = "barrier" /\ x.cap = k.cap)
    /\ \/ x.reason = k.reason
       \/ x.reason # "task_closed"
       \/ k.offered # None /\ ClosedKnown(rows, tombs, k.offered)
    /\ x.phase = "open" => k.phase = "open" \/ k.offered = None \/ k.confirm # None
    /\ x.phase = "open" /\ x.cap # None =>
         \/ rows'[x.task].resume = x.cap
         \/ k.phase = "open" /\ x.cap = k.cap /\ x.task = k.task
    /\ x.close = "done" =>
         \/ ~Active(rows'[x.task])
         \/ k.close = "done" /\ x.task = k.task

(* A row holds only what it held or what was just generated, a task is not *)
(* revived, and its capability is replaced only by a confirmed one.        *)
HostRow(t) ==
    /\ \A cap \in issued : Holds(rows'[t], cap) => Holds(rows[t], cap)
    /\ Active(rows'[t]) => Active(rows[t]) \/ rows[t].state = "absent"
    /\ \/ rows'[t].resume = rows[t].resume
       \/ rows[t].state = "absent"
       \/ \E c \in Conn : /\ conn[c].phase = "barrier" /\ conn[c].confirm # None
                          /\ conn[c].task = t /\ rows'[t].resume = conn[c].cap

HostTombs ==
    \A cap \in Capability : tombs'[cap] # None /\ tombs[cap] = None =>
        \E k \in Task : Holds(rows[k], cap) /\ ~Active(rows'[k])

LEMMA StoredIssued ==
    ASSUME TypeOK, CapInv
    PROVE  \A cap \in Stored : cap \in issued /\ cap \in Capability /\ cap # None
BY DEF Stored, TypeOK, Store, CapInv, FromIssued

LEMMA FileHost ==
    ASSUME TypeOK, CapInv, CapInv', FileInv, UNCHANGED <<store, client>>,
           \A d \in Conn : HostConn(conn'[d], conn[d]),
           \A t \in Task : HostRow(t), HostTombs, TombsOK'
    PROVE  FileInv' /\ Kept
<1> DEFINE c == client.conn
           k == conn[c]
           x == conn'[c]
<1>1. PICK F : F = Stored
  OBVIOUS
<1>2. F = Stored' /\ store' = store /\ client' = client
  BY <1>1 DEF Stored
<1>3. \A cap \in F : cap \in issued /\ cap \in Capability /\ cap # None
  BY <1>1, StoredIssued
<1>4. \A t \in Task : rows[t].state = "absent" =>
         rows[t].resume = None /\ \A cap \in Capability : ~Holds(rows[t], cap)
  BY DEF CapInv, HeldOnce, Holds
<1>5. ASSUME NEW t \in Task, Reaches(t)'
      PROVE  Reaches(t)
  <2>1. PICK cap \in F : Holds(rows'[t], cap)
    BY <1>2, <1>5 DEF Reaches
  <2>2. Holds(rows[t], cap)
    BY <1>3, <2>1 DEF HostRow
  <2>3. Active(rows'[t])
    BY <1>5 DEF Reaches
  <2>4. Active(rows[t])
    BY <1>3, <1>4, <2>2, <2>3 DEF HostRow
  <2>5. QED  BY <1>1, <2>2, <2>4 DEF Reaches
<1>6. ASSUME NEW t \in Task, rows[t].resume \in F
      PROVE  rows'[t].resume \in F
  <2>1. CASE rows'[t].resume = rows[t].resume
    BY <1>6, <2>1
  <2>2. rows[t].state # "absent"
    BY <1>3, <1>4, <1>6
  <2>3. ASSUME NEW d \in Conn, conn[d].phase = "barrier", conn[d].confirm # None,
               conn[d].task = t, rows'[t].resume = conn[d].cap
        PROVE  conn[d].cap \in F
    <3>1. conn[d].offered \in F
      BY <1>6, <2>3 DEF CapInv, AtBarrier
    <3>2. QED  BY <1>1, <2>3, <3>1 DEF FileInv, Prepared
  <2>4. QED  BY <2>1, <2>2, <2>3 DEF HostRow
<1>7. Kept
  BY <1>1, <1>2, <1>6 DEF Kept
<1>8. FileIsCurrent'
  BY <1>1, <1>2, <1>6 DEF FileInv, FileIsCurrent
<1>9. FileOfOneTask'
  <2>1. ASSUME NEW t \in Task, Reaches(t)', NEW cap \in F
        PROVE  tombs'[cap] = None /\ \A u \in Task : Holds(rows'[u], cap) => u = t
    <3>1. Reaches(t)
      BY <1>5, <2>1
    <3>2. tombs[cap] = None /\ \A u \in Task : Holds(rows[u], cap) => u = t
      BY <1>1, <3>1 DEF FileInv, FileOfOneTask
    <3>3. \A u \in Task : Holds(rows'[u], cap) => u = t
      BY <1>3, <3>2 DEF HostRow
    <3>4. Active(rows'[t])
      BY <2>1 DEF Reaches
    <3>5. tombs'[cap] = None
      BY <1>3, <3>2, <3>4 DEF HostTombs
    <3>6. QED  BY <3>3, <3>5
  <2>2. QED  BY <1>2, <2>1 DEF FileOfOneTask
<1>10. Prepared'
  <2>1. ASSUME NEW d \in Conn, conn'[d].phase = "barrier", conn'[d].confirm # None,
               conn'[d].offered \in F
        PROVE  conn'[d].cap \in F
    <3>1. /\ conn[d].phase = "barrier" /\ conn'[d].cap = conn[d].cap
          /\ conn[d].confirm # None /\ conn'[d].offered = conn[d].offered
      BY <2>1 DEF HostConn
    <3>2. QED  BY <1>1, <2>1, <3>1 DEF FileInv, Prepared
  <2>2. QED  BY <1>2, <2>1 DEF Prepared
<1>11. DoneIsClosed'
  <2>1. ASSUME NEW d \in Conn, conn'[d].close = "done"
        PROVE  ~Active(rows'[conn'[d].task])
    <3>1. CASE conn[d].close = "done" /\ conn'[d].task = conn[d].task
      <4>1. PICK u : u = conn[d].task
        OBVIOUS
      <4>2. u \in Task /\ ~Active(rows[u]) /\ rows[u].state # "absent"
        BY <3>1, <4>1, RowsAssumption
           DEF TypeOK, Connection, FileInv, DoneIsClosed, CapInv, ConnOK, KnowsOK, CapsOwned
      <4>3. ~Active(rows'[u])
        BY <4>2 DEF HostRow
      <4>4. QED  BY <3>1, <4>1, <4>3
    <3>2. QED  BY <2>1, <3>1 DEF HostConn
  <2>2. QED  BY <2>1 DEF DoneIsClosed
<1>12. FileOK'
  <2> SUFFICES ASSUME client.phase # "idle" PROVE FileOK'
    BY <1>2 DEF FileOK
  <2>1. /\ c \in Conn /\ k.phase # "free"
        /\ client.phase = "waiting" =>
             /\ k.confirm = None
             /\ IF k.offered = None THEN F = {} /\ client.rest = None
                                    ELSE k.phase # "open" /\ k.offered \in F
             /\ client.rest = None \/ client.rest \in F
             /\ k.reason = "task_closed" => \A t \in Task : ~Reaches(t)
        /\ client.phase = "rotating" =>
             /\ k.offered # None /\ k.cap # None
             /\ store = [active |-> k.offered, pending |-> k.cap]
        /\ client.phase \in {"ready", "closing"} => F \subseteq {k.cap}
        /\ k.cap # None => \A d \in Conn : conn[d].offered # k.cap
        /\ k.phase = "open" /\ k.cap # None => rows[k.task].resume = k.cap
    BY <1>1, Zenon DEF FileInv, FileOK
  <2>2. HostConn(x, k)
    BY <2>1
  <2>3. x.phase # "free"
    BY <2>1, <2>2 DEF HostConn
  <2>4. ASSUME client.phase = "waiting"
        PROVE  /\ x.confirm = None
               /\ IF x.offered = None THEN F = {} /\ client.rest = None
                                      ELSE x.phase # "open" /\ x.offered \in F
               /\ client.rest = None \/ client.rest \in F
               /\ x.reason = "task_closed" => \A t \in Task : ~Reaches(t)'
    <3>1. x.confirm = None /\ x.offered = k.offered
      BY <2>1, <2>2, <2>4 DEF HostConn
    <3>2. x.offered # None => x.phase # "open"
      BY <2>1, <2>2, <2>4 DEF HostConn
    <3>3. ASSUME x.reason = "task_closed", NEW t \in Task, Reaches(t)
          PROVE  FALSE
      <4>1. CASE k.reason = "task_closed"
        BY <2>1, <2>4, <3>3, <4>1
      <4>2. CASE k.offered # None /\ ClosedKnown(rows, tombs, k.offered)
        <5>1. k.offered \in F
          BY <2>1, <2>4, <4>2
        <5>2. tombs[k.offered] = None /\ \A u \in Task : Holds(rows[u], k.offered) => u = t
          BY <1>1, <3>3, <5>1 DEF FileInv, FileOfOneTask
        <5>3. PICK u \in Task : /\ rows[u].state = "closed"
                                /\ k.offered \in {rows[u].resume, rows[u].pending}
          BY <4>2, <5>2 DEF ClosedKnown
        <5>4. u = t
          BY <4>2, <5>2, <5>3 DEF Holds
        <5>5. QED  BY <3>3, <5>3, <5>4 DEF Reaches, Active
      <4>3. QED  BY <2>2, <3>3, <4>1, <4>2 DEF HostConn
    <3>4. QED  BY <1>5, <2>1, <2>4, <3>1, <3>2, <3>3
  <2>5. ASSUME client.phase = "rotating"
        PROVE  /\ x.offered # None /\ x.cap # None
               /\ store = [active |-> x.offered, pending |-> x.cap]
    BY <2>1, <2>2, <2>5 DEF HostConn
  <2>6. ASSUME client.phase \in {"ready", "closing"}
        PROVE  F \subseteq {x.cap}
    <3>1. k.cap = None => F = {}
      BY <1>3, <2>1, <2>6
    <3>2. QED  BY <2>1, <2>2, <2>6, <3>1 DEF HostConn
  <2>7. ASSUME x.cap # None, NEW d \in Conn
        PROVE  conn'[d].offered # x.cap
    <3>1. conn'[d].offered = conn[d].offered /\ conn[d].offered \in issued \cup {None}
      BY DEF HostConn, CapInv, FromIssued
    <3>2. QED  BY <2>1, <2>2, <2>7, <3>1 DEF HostConn
  <2>8. ASSUME x.phase = "open", x.cap # None
        PROVE  rows'[x.task].resume = x.cap
    <3>1. CASE k.phase = "open" /\ x.cap = k.cap /\ x.task = k.task
      <4>1. PICK u : u = k.task
        OBVIOUS
      <4>2. u \in Task /\ rows[u].resume = k.cap /\ k.cap # None
        BY <2>1, <2>8, <3>1, <4>1 DEF TypeOK, Connection, CapInv, ConnOK, KnowsOK
      <4>3. rows[u].state # "absent"
        BY <1>4, <4>2
      <4>4. ASSUME NEW d \in Conn, conn[d].phase = "barrier", conn[d].task = u
            PROVE  FALSE
        <5>1. conn[d].offered = k.cap
          BY <4>2, <4>4 DEF CapInv, AtBarrier
        <5>2. QED  BY <2>1, <4>2, <5>1
      <4>5. rows'[u].resume = rows[u].resume
        BY <4>2, <4>3, <4>4 DEF HostRow
      <4>6. QED  BY <3>1, <4>1, <4>2, <4>5
    <3>2. QED  BY <2>2, <2>8, <3>1 DEF HostConn
  <2>9. QED
    BY <1>2, <2>1, <2>3, <2>4, <2>5, <2>6, <2>7, <2>8 DEF FileOK
<1>13. QED  BY <1>7, <1>8, <1>9, <1>10, <1>11, <1>12 DEF FileInv

(* A row that grows older: it keeps its capability, and a closed one keeps *)
(* its time.                                                               *)
RowAges(s, row) ==
    /\ CalmRow(s, row)
    /\ Active(s) => Active(row)
    /\ ~Active(row) => s.closedAt = row.closedAt
    /\ s.state = "deleted" => row.state = "deleted"

LEMMA StatementsAge ==
    ASSUME NEW row \in Row, NEW t \in Nat
    PROVE  /\ RowAges(row, row) /\ RowAges(Detached(row, t), row)
           /\ RowAges(Closed(row, t), row) /\ ~Active(Closed(row, t))
           /\ \A owned \in BOOLEAN : RowAges(Inventoried(row, owned, t), row)
           /\ RowAges(RolledBack(row, t), row) /\ RowAges(Reopened(row, t), row)
<1> USE DEF Row, TaskState, RowAges, CalmRow, Active
<1>1. RowAges(row, row)
  OBVIOUS
<1>2. RowAges(Detached(row, t), row)
  <2>1. PICK n : n = IF row.conns > 0 THEN row.conns - 1 ELSE 0
    OBVIOUS
  <2>2. Detached(row, t) = IF Active(row) THEN [row EXCEPT !.conns = n, !.updated = t]
                           ELSE row
    BY <2>1 DEF Detached
  <2>3. QED  BY <2>2
<1>3. RowAges(Closed(row, t), row) /\ ~Active(Closed(row, t))
  <2>1. PICK n : n = IF row.state = "closed" THEN row.closedAt ELSE t
    OBVIOUS
  <2>2. Closed(row, t) = IF row.state \notin {"active", "closed"} THEN row
                         ELSE [row EXCEPT !.state = "closed", !.tab = FALSE,
                                          !.updated = t, !.closedAt = n]
    BY <2>1 DEF Closed
  <2>3. QED  BY <2>1, <2>2
<1>4. \A owned \in BOOLEAN : RowAges(Inventoried(row, owned, t), row)
  BY DEF Inventoried
<1>5. RowAges(RolledBack(row, t), row)
  BY DEF RolledBack
<1>6. RowAges(Reopened(row, t), row)
  BY DEF Reopened
<1>7. QED  BY <1>1, <1>2, <1>3, <1>4, <1>5, <1>6

LEMMA TombsAge ==
    ASSUME NEW r, NEW s, NEW tb, NEW t \in Nat, NEW t2 \in Nat, t2 >= t,
           \A k \in Task : r[k] \in Row /\ RowAges(s[k], r[k]), TombsRight(r, tb, t)
    PROVE  TombsRight(s, tb, t2)
<1>1. ASSUME NEW k \in Task, NEW cap \in Capability
      PROVE  /\ Active(s[k]) /\ Holds(s[k], cap) => tb[cap] = None
             /\ s[k].resume = cap /\ tb[cap] # None => tb[cap] = s[k].closedAt
             /\ s[k].state = "deleted" /\ s[k].resume = cap =>
                  tb[cap] # None \/ s[k].closedAt < t2 - TombstoneRetention
  <2>1. /\ s[k].resume = r[k].resume
        /\ Holds(s[k], cap) => Holds(r[k], cap)
        /\ Active(s[k]) => Active(r[k])
        /\ Active(r[k]) \/ s[k].closedAt = r[k].closedAt
        /\ s[k].state = "deleted" => r[k].state = "deleted"
    BY DEF RowAges, CalmRow, Holds
  <2>2. /\ Active(r[k]) /\ Holds(r[k], cap) => tb[cap] = None
        /\ r[k].resume = cap /\ tb[cap] # None => tb[cap] = r[k].closedAt
        /\ r[k].state = "deleted" /\ r[k].resume = cap =>
             tb[cap] # None \/ r[k].closedAt < t - TombstoneRetention
    BY Zenon DEF TombsRight
  <2>3. r[k].resume = cap => Holds(r[k], cap)
    BY RowsAssumption DEF Holds
  <2>4. s[k].state = "deleted" => ~Active(r[k])
    BY <2>1 DEF Active
  <2>5. r[k].closedAt < t - TombstoneRetention => r[k].closedAt < t2 - TombstoneRetention
    BY RowsAssumption DEF Row
  <2>6. QED  BY <2>1, <2>2, <2>3, <2>4, <2>5
<1>2. QED  BY <1>1, Zenon DEF TombsRight

(* A step that leaves the tombs alone. *)
LEMMA FileCalm ==
    ASSUME TypeOK, TypeOK', CapInv, CapInv', FileInv, UNCHANGED <<store, client, tombs>>,
           issued \subseteq issued', now' >= now,
           \A t \in Task : RowAges(rows'[t], rows[t]),
           \A d \in Conn : HostConn(conn'[d], conn[d])
    PROVE  FileInv' /\ Kept
<1>1. \A t \in Task : HostRow(t)
  BY RowsAssumption DEF HostRow, RowAges, CalmRow, Holds
<1>2. HostTombs
  BY DEF HostTombs
<1>3. TombsRight(rows, tombs, now) /\ now \in Nat /\ now' \in Nat /\ tombs' = tombs
      /\ \A k \in Task : rows[k] \in Row
  BY DEF FileInv, TombsOK, TypeOK
<1>4. TombsRight(rows', tombs, now')
  BY <1>3, TombsAge
<1>5. TombsOK'
  <2>1. \A cap \in Capability : tombs'[cap] # None => cap \in issued'
    BY DEF FileInv, TombsOK
  <2>2. TombsRight(rows', tombs', now')
    BY <1>3, <1>4
  <2>3. QED  BY <2>1, <2>2 DEF TombsOK
<1>6. QED  BY <1>1, <1>2, <1>5, FileHost

(* A step that cleans up, after the rows were reopened or not. *)
LEMMA FileSweeps ==
    ASSUME TypeOK, TypeOK', CapInv, CapInv', FileInv, UNCHANGED <<store, client, issued, now>>,
           NEW r \in [Task -> Row], NEW n \in 0..4,
           \A t \in Task : RowAges(r[t], rows[t]),
           rows' = SweptRows(r, now, n), tombs' = SweptTombs(r, tombs, now, n),
           \A d \in Conn : HostConn(conn'[d], conn[d])
    PROVE  FileInv' /\ Kept
<1>1. /\ TombsRight(rows, tombs, now) /\ now \in Nat /\ \A k \in Task : rows[k] \in Row
      /\ tombs \in [Capability -> Nat \cup {None}]
  BY DEF FileInv, TombsOK, TypeOK
<1>2. TombsRight(r, tombs, now)
  BY <1>1, TombsAge
<1>3. Apart(r)
  BY DEF Apart, RowAges, CalmRow, Holds, CapInv, HeldOnce
<1>4. TombsRight(rows', tombs', now)
  BY <1>1, <1>2, <1>3, SweptTombsRight
<1>5. \A t \in Task : Aged(r[t], rows'[t])
  BY <1>1, SweptRowsAged
<1>6. \A t \in Task : HostRow(t)
  BY <1>5, RowsAssumption DEF HostRow, RowAges, CalmRow, Holds, Aged
<1>7. HostTombs
  <2>1. ASSUME NEW cap \in Capability, tombs'[cap] # None, tombs[cap] = None
        PROVE  \E k \in Task : Holds(rows[k], cap) /\ ~Active(rows'[k])
    <3>1. PICK k \in Task : Holds(r[k], cap) /\ ~Active(rows'[k])
      BY <1>1, <2>1, SweptTombsFrom
    <3>2. Holds(rows[k], cap)
      BY <3>1 DEF Holds, RowAges, CalmRow
    <3>3. QED  BY <3>1, <3>2
  <2>2. QED  BY <2>1 DEF HostTombs
<1>8. TombsOK'
  <2>1. \A cap \in Capability : tombs'[cap] # None => cap \in issued'
    <3>1. \A k \in Task : \A cap : Holds(rows[k], cap) => cap \in issued
      BY DEF CapInv, FromIssued, Holds
    <3>2. QED  BY <1>7, <3>1 DEF HostTombs, FileInv, TombsOK
  <2>2. TombsRight(rows', tombs', now')
    BY <1>4
  <2>3. QED  BY <2>1, <2>2 DEF TombsOK
<1>9. QED  BY <1>6, <1>7, <1>8, FileHost

LEMMA HostOne ==
    ASSUME NEW c \in Conn, NEW x, Becomes(c, x), HostConn(x, conn[c])
    PROVE  \A d \in Conn : HostConn(conn'[d], conn[d])
<1>1. \A d \in Conn : HostConn(conn[d], conn[d])
  BY DEF HostConn
<1>2. QED  BY <1>1 DEF Becomes

LEMMA OneRowAges ==
    ASSUME TypeOK, NEW u,
           \/ rows' = rows
           \/ rows' = [rows EXCEPT ![u] = Detached(@, now)]
           \/ rows' = [rows EXCEPT ![u] = Closed(@, now)]
           \/ rows' = [rows EXCEPT ![u] = RolledBack(@, now)]
    PROVE  \A t \in Task : RowAges(rows'[t], rows[t])
<1>1. \A t \in Task : /\ RowAges(rows[t], rows[t])
                      /\ RowAges(Detached(rows[t], now), rows[t])
                      /\ RowAges(Closed(rows[t], now), rows[t])
                      /\ RowAges(RolledBack(rows[t], now), rows[t])
  BY StatementsAge DEF TypeOK
<1>2. \A t \in Task : \/ rows'[t] = rows[t]
                      \/ rows'[t] = Detached(rows[t], now)
                      \/ rows'[t] = Closed(rows[t], now)
                      \/ rows'[t] = RolledBack(rows[t], now)
  BY DEF TypeOK
<1>3. ASSUME NEW t \in Task
      PROVE  RowAges(rows'[t], rows[t])
  <2>1. CASE rows'[t] = rows[t]
    BY <1>1, <2>1, Zenon
  <2>2. CASE rows'[t] = Detached(rows[t], now)
    BY <1>1, <2>2, Zenon
  <2>3. CASE rows'[t] = Closed(rows[t], now)
    BY <1>1, <2>3, Zenon
  <2>4. CASE rows'[t] = RolledBack(rows[t], now)
    BY <1>1, <2>4, Zenon
  <2>5. QED  BY <1>2, <2>1, <2>2, <2>3, <2>4
<1>4. QED  BY <1>3

LEMMA FileServer ==
    ASSUME TypeOK, TypeOK', CapInv, CapInv', FileInv, NEW c \in Conn,
           \/ Classify(c) \/ DisconnectBegins(c) \/ DisconnectEnds(c)
           \/ RequestChecked(c) \/ Respond(c) \/ Delivered(c) \/ CloseTask(c)
    PROVE  FileInv' /\ Kept
<1> DEFINE k == conn[c]
<1>1. k \in Connection /\ KnowsOK(k) /\ now \in Nat
  BY ConnFacts DEF TypeOK
<1>2. UNCHANGED <<issued, store, client, now>>
  BY Zenon DEF Classify, DisconnectBegins, DisconnectEnds, RequestChecked, Respond, Delivered,
     CloseTask
<1>3. issued \subseteq issued' /\ now' >= now
  BY <1>1, <1>2
<1>4. CASE Classify(c)
  <2>1. UNCHANGED <<rows, tombs>> /\ k.phase = "classify"
    BY <1>4, Zenon DEF Classify
  <2>2. PICK x \in Connection :
             /\ Becomes(c, x) /\ Keeps(x, k, {"phase", "reason"})
             /\ x.phase = "rejected"
             /\ x.reason = IF ClosedKnown(rows, tombs, k.offered)
                           THEN "task_closed" ELSE "unknown_capability"
    BY <1>4, EffectClassify
  <2>3. HostConn(x, k)
    BY <1>1, <2>1, <2>2 DEF Keeps, HostConn, KnowsOK
  <2>4. QED  BY <1>2, <1>3, <2>1, <2>2, <2>3, OneRowAges, HostOne, FileCalm
<1>5. CASE DisconnectBegins(c)
  <2>1. tombs' = tombs /\ k.phase # "free"
    BY <1>5 DEF DisconnectBegins
  <2>2. PICK x \in Connection :
             /\ Becomes(c, x)
             /\ Keeps(x, k, {"phase", "cancelled", "rotation"})
             /\ x.phase \in {"gone", "leaving"}
             /\ \/ rows' = rows
                \/ rows' = [rows EXCEPT ![k.task] = RolledBack(@, now)]
    BY <1>5, EffectBegins DEF Keeps
  <2>3. HostConn(x, k)
    BY <2>1, <2>2 DEF Keeps, HostConn
  <2>4. QED  BY <1>2, <1>3, <2>1, <2>2, <2>3, OneRowAges, HostOne, FileCalm
<1>6. CASE DisconnectEnds(c)
  <2>1. tombs' = tombs
    BY <1>6, Zenon DEF DisconnectEnds
  <2>2. \/ rows' = rows
        \/ rows' = [rows EXCEPT ![k.task] = Detached(@, now)]
        \/ rows' = [rows EXCEPT ![k.task] = Closed(@, now)]
    BY <1>6 DEF DisconnectEnds
  <2>3. PICK x \in Connection : /\ Becomes(c, x) /\ Keeps(x, k, {"phase"})
                                /\ x.phase = "gone"
    BY <1>6, EffectEnds
  <2>4. HostConn(x, k)
    BY <2>3 DEF Keeps, HostConn
  <2>5. QED  BY <1>2, <1>3, <2>1, <2>2, <2>3, <2>4, OneRowAges, HostOne, FileCalm
<1>7. CASE RequestChecked(c)
  <2>1. UNCHANGED <<rows, tombs>>
    BY <1>7, Zenon DEF RequestChecked
  <2>2. PICK x \in Connection : Becomes(c, x) /\ Keeps(x, k, {"thread"})
    BY <1>7, EffectChecked
  <2>3. HostConn(x, k)
    BY <2>2 DEF Keeps, HostConn
  <2>4. QED  BY <1>2, <1>3, <2>1, <2>2, <2>3, OneRowAges, HostOne, FileCalm
<1>8. CASE Respond(c)
  <2>1. \/ rows' = Swept /\ tombs' = SweptTombstones
        \/ UNCHANGED <<rows, tombs>>
    BY <1>8 DEF Respond
  <2>2. PICK x \in Connection : Becomes(c, x) /\ Keeps(x, k, {"thread", "fresh"})
    BY <1>8, EffectRespond
  <2>3. HostConn(x, k)
    BY <2>2 DEF Keeps, HostConn
  <2>4. \A d \in Conn : HostConn(conn'[d], conn[d])
    BY <2>2, <2>3, HostOne
  <2>5. CASE UNCHANGED <<rows, tombs>>
    BY <1>2, <1>3, <2>4, <2>5, OneRowAges, FileCalm
  <2>6. CASE rows' = Swept /\ tombs' = SweptTombstones
    <3>1. rows \in [Task -> Row] /\ \A t \in Task : RowAges(rows[t], rows[t])
      BY <1>1, StatementsAge DEF TypeOK
    <3>2. 4 \in 0..4
      OBVIOUS
    <3>3. rows' = SweptRows(rows, now, 4) /\ tombs' = SweptTombs(rows, tombs, now, 4)
      BY <2>6, Zenon DEF Swept, SweptTombstones
    <3>4. QED  BY <1>2, <2>4, <3>1, <3>2, <3>3, FileSweeps
  <2>7. QED  BY <2>1, <2>5, <2>6
<1>9. CASE Delivered(c)
  <2>1. UNCHANGED <<rows, tombs>>
    BY <1>9, Zenon DEF Delivered
  <2>2. PICK x \in Connection : Becomes(c, x) /\ Keeps(x, k, {"fresh"})
    BY <1>9, EffectDelivered
  <2>3. HostConn(x, k)
    BY <2>2 DEF Keeps, HostConn
  <2>4. QED  BY <1>2, <1>3, <2>1, <2>2, <2>3, OneRowAges, HostOne, FileCalm
<1>10. CASE CloseTask(c)
  <2>1. tombs' = tombs /\ k.close = "asked"
    BY <1>10, Zenon DEF CloseTask
  <2>2. PICK x \in Connection :
             /\ Becomes(c, x) /\ Keeps(x, k, {"close", "cancelled"})
             /\ \/ rows' = [rows EXCEPT ![k.task] = Closed(@, now)]
                \/ x.close = "none" /\ rows' = rows
    BY <1>10, EffectClose DEF Keeps
  <2>3. k.task \in Task
    BY <1>1, <2>1 DEF KnowsOK, Connection
  <2>4. x.close = "done" => ~Active(rows'[x.task])
    <3>1. ASSUME rows' = [rows EXCEPT ![k.task] = Closed(@, now)]
          PROVE  ~Active(rows'[x.task])
      <4>1. rows'[x.task] = Closed(rows[k.task], now) /\ rows[k.task] \in Row
        BY <2>2, <2>3, <3>1 DEF Keeps, TypeOK
      <4>2. QED  BY <1>1, <4>1, StatementsAge
    <3>2. QED  BY <2>2, <3>1
  <2>5. HostConn(x, k)
    BY <2>2, <2>4 DEF Keeps, HostConn
  <2>6. QED  BY <1>2, <1>3, <2>1, <2>2, <2>5, OneRowAges, HostOne, FileCalm
<1>11. QED  BY <1>4, <1>5, <1>6, <1>7, <1>8, <1>9, <1>10

LEMMA FileRest ==
    ASSUME TypeOK, TypeOK', CapInv, CapInv', FileInv,
           (\E S \in SUBSET Task : Inventory(S)) \/ Crash \/ Boot \/ Tick
    PROVE  FileInv' /\ Kept
<1>1. ASSUME NEW S \in SUBSET Task, Inventory(S)
      PROVE  FileInv' /\ Kept
  <2>1. \A t \in Task : rows[t] \in Row /\ (t \in S) \in BOOLEAN
    BY DEF TypeOK
  <2>2. \A t \in Task : RowAges(Inventoried(rows[t], t \in S, now), rows[t])
    BY <2>1, StatementsAge, Zenon DEF TypeOK
  <2>3. \A t \in Task : rows'[t] = Inventoried(rows[t], t \in S, now)
    BY <1>1, Zenon DEF Inventory
  <2>4. \A t \in Task : RowAges(rows'[t], rows[t])
    BY <2>2, <2>3, Zenon
  <2>5. UNCHANGED <<now, tombs, issued, conn, store, client>>
    BY <1>1, Zenon DEF Inventory
  <2>6. \A d \in Conn : HostConn(conn'[d], conn[d])
    BY <2>5 DEF HostConn
  <2>7. issued \subseteq issued' /\ now' >= now
    BY <2>5 DEF TypeOK
  <2>8. QED  BY <2>4, <2>5, <2>6, <2>7, FileCalm
<1>2. CASE Crash
  <2>1. PICK n \in 0..3 : /\ rows' = SweptRows(rows, now, n)
                         /\ tombs' = SweptTombs(rows, tombs, now, n)
    BY <1>2, Zenon DEF Crash
  <2>2. n \in 0..4 /\ rows \in [Task -> Row] /\ \A t \in Task : RowAges(rows[t], rows[t])
    BY StatementsAge DEF TypeOK
  <2>3. \A d \in Conn : Gone(conn'[d], conn[d])
    BY <1>2, EffectCrash
  <2>4. \A d \in Conn : HostConn(conn'[d], conn[d])
    BY <2>3 DEF Gone, Keeps, HostConn
  <2>5. UNCHANGED <<now, issued, store, client>>
    BY <1>2, Zenon DEF Crash
  <2>6. QED  BY <2>1, <2>2, <2>4, <2>5, FileSweeps
<1>3. CASE Boot
  <2>1. PICK r : r = [t \in Task |-> Reopened(rows[t], now)]
    OBVIOUS
  <2>2. r \in [Task -> Row] /\ \A t \in Task : r[t] = Reopened(rows[t], now)
    <3>1. \A t \in Task : Reopened(rows[t], now) \in Row
      BY RowFacts, Zenon
    <3>2. QED  BY <2>1, <3>1
  <2>3. PICK n \in 0..4 : /\ rows' = SweptRows(r, now, n)
                         /\ tombs' = SweptTombs(r, tombs, now, n)
    <3>1. \E n \in 0..4 :
           /\ rows' = SweptRows([t \in Task |-> Reopened(rows[t], now)], now, n)
           /\ tombs' = SweptTombs([t \in Task |-> Reopened(rows[t], now)], tombs, now, n)
      BY <1>3 DEF Boot
    <3>2. QED  BY <2>1, <3>1, Zenon
  <2>4. \A t \in Task : RowAges(r[t], rows[t])
    BY <2>2, StatementsAge DEF TypeOK
  <2>5. UNCHANGED <<now, issued, conn, store, client>>
    BY <1>3, Zenon DEF Boot
  <2>6. \A d \in Conn : HostConn(conn'[d], conn[d])
    BY <2>5 DEF HostConn
  <2>7. QED  BY <2>2, <2>3, <2>4, <2>5, <2>6, FileSweeps
<1>4. CASE Tick
  <2>1. UNCHANGED <<rows, tombs, issued, conn, store, client>> /\ now' = now + 1
    BY <1>4, Zenon DEF Tick
  <2>2. \A d \in Conn : HostConn(conn'[d], conn[d])
    BY <2>1 DEF HostConn
  <2>3. issued \subseteq issued' /\ now' >= now
    BY <2>1 DEF TypeOK
  <2>4. QED  BY <2>1, <2>2, <2>3, OneRowAges, FileCalm
<1>5. QED  BY <1>1, <1>2, <1>3, <1>4

LEMMA FileConfirms ==
    ASSUME TypeOK, TypeOK', CapInv, CapInv', FileInv, NEW c \in Conn, Confirm(c)
    PROVE  FileInv' /\ Kept
<1> DEFINE k == conn[c]
<1>1. k \in Connection /\ KnowsOK(k) /\ now \in Nat
  BY ConnFacts DEF TypeOK
<1>2. /\ UNCHANGED <<tombs, issued, store, client, now>>
      /\ k.phase \in {"barrier", "open"} /\ k.confirm # None
  BY Zenon DEF Confirm
<1>3. issued \subseteq issued' /\ now' >= now
  BY <1>1, <1>2
<1>4. PICK x \in Connection :
             /\ Becomes(c, x)
             /\ \/ /\ k.rotation /\ RotationHeld(rows[k.task], k.cap)
                   /\ Keeps(x, k, {"phase", "rotation", "confirm"})
                   /\ x.phase = "open" /\ x.confirm = None
                   /\ rows' = [rows EXCEPT ![k.task] = Acknowledged(@, now)]
                \/ /\ Keeps(x, k, {"peer", "confirm", "fresh"})
                   /\ x.confirm = None
                   /\ rows' = rows
  BY EffectConfirm DEF Keeps
<1>5. CASE Keeps(x, k, {"peer", "confirm", "fresh"}) /\ x.confirm = None /\ rows' = rows
  <2>1. HostConn(x, k)
    BY <1>5 DEF Keeps, HostConn
  <2>2. QED  BY <1>2, <1>3, <1>4, <1>5, <2>1, OneRowAges, HostOne, FileCalm
<1>6. CASE /\ k.rotation /\ RotationHeld(rows[k.task], k.cap)
           /\ Keeps(x, k, {"phase", "rotation", "confirm"})
           /\ x.phase = "open" /\ x.confirm = None
           /\ rows' = [rows EXCEPT ![k.task] = Acknowledged(@, now)]
  <2>1. PICK u \in Task : u = k.task
    BY <1>1, <1>6 DEF KnowsOK, Connection
  <2>2. \A t \in Task : t # u => rows'[t] = rows[t]
    BY <1>6, <2>1 DEF TypeOK
  <2>3. k.phase = "barrier" /\ Active(rows[u]) /\ rows[u].pending = k.cap /\ k.cap # None
    BY <1>1, <1>2, <1>6, <2>1 DEF KnowsOK, RotationHeld
  <2>4. /\ rows'[u].resume = k.cap /\ rows'[u].pending = None
        /\ rows'[u].state = rows[u].state
    <3>1. rows'[u] = Acknowledged(rows[u], now) /\ rows[u] \in Row
      BY <1>6, <2>1 DEF TypeOK
    <3>2. QED  BY <2>3, <3>1 DEF Acknowledged, Row
  <2>5. HostConn(x, k)
    BY <1>2, <1>6, <2>1, <2>4 DEF Keeps, HostConn
  <2>6. \A t \in Task : HostRow(t)
    <3>1. HostRow(u)
      BY <1>2, <2>1, <2>3, <2>4 DEF HostRow, Holds, Active
    <3>2. \A t \in Task : t # u => HostRow(t)
      BY <2>2 DEF HostRow
    <3>3. QED  BY <3>1, <3>2
  <2>7. HostTombs
    BY <1>2 DEF HostTombs
  <2>8. TombsOK'
    <3>1. /\ TombsRight(rows, tombs, now)
          /\ \A cap \in Capability : tombs[cap] # None => cap \in issued
      BY DEF FileInv, TombsOK
    <3>2. ASSUME NEW t \in Task, NEW cap \in Capability
          PROVE  /\ Active(rows'[t]) /\ Holds(rows'[t], cap) => tombs[cap] = None
                 /\ rows'[t].resume = cap /\ tombs[cap] # None => tombs[cap] = rows'[t].closedAt
                 /\ rows'[t].state = "deleted" /\ rows'[t].resume = cap =>
                      tombs[cap] # None \/ rows'[t].closedAt < now - TombstoneRetention
      <4>1. CASE t = u
        <5>1. Holds(rows'[u], cap) \/ rows'[u].resume = cap => Holds(rows[u], cap)
          BY <2>3, <2>4, RowsAssumption DEF Holds
        <5>2. Holds(rows[u], cap) => tombs[cap] = None
          BY <2>3, <3>1 DEF TombsRight
        <5>3. rows'[u].state # "deleted"
          BY <2>3, <2>4 DEF Active
        <5>4. QED  BY <4>1, <5>1, <5>2, <5>3
      <4>2. CASE t # u
        BY <2>2, <3>1, <4>2 DEF TombsRight
      <4>3. QED  BY <4>1, <4>2
    <3>3. TombsRight(rows', tombs, now)
      BY <3>2, Zenon DEF TombsRight
    <3>4. QED  BY <1>2, <3>1, <3>3 DEF TombsOK
  <2>9. QED  BY <1>2, <1>4, <2>5, <2>6, <2>7, <2>8, HostOne, FileHost
<1>7. QED  BY <1>4, <1>5, <1>6

LEMMA FileEnsures ==
    ASSUME TypeOK, TypeOK', CapInv, CapInv', FileInv, NEW c \in Conn, EnsureTask(c)
    PROVE  FileInv' /\ Kept
<1> DEFINE k == conn[c]
<1>1. k \in Connection /\ KnowsOK(k) /\ now \in Nat
  BY ConnFacts DEF TypeOK
<1>2. UNCHANGED <<tombs, store, client, now>> /\ k.thread = "checked"
  BY Zenon DEF EnsureTask
<1>3. PICK x \in Connection :
             /\ Becomes(c, x)
             /\ \/ Keeps(x, k, {"thread"}) /\ rows' = rows /\ issued' = issued
                \/ /\ k.task = None
                   /\ \E t \in Task, cap \in Capability \ issued :
                        /\ rows[t].state = "absent"
                        /\ rows' = [rows EXCEPT ![t] = Created(cap, now)]
                        /\ issued' = issued \cup {cap}
                        /\ Keeps(x, k, {"task", "cap", "fresh", "thread"})
                        /\ x.task = t /\ x.cap = cap
  BY EffectEnsure
<1>4. CASE Keeps(x, k, {"thread"}) /\ rows' = rows /\ issued' = issued
  <2>1. HostConn(x, k)
    BY <1>4 DEF Keeps, HostConn
  <2>2. issued \subseteq issued' /\ now' >= now
    BY <1>1, <1>2, <1>4
  <2>3. QED  BY <1>2, <1>3, <1>4, <2>1, <2>2, OneRowAges, HostOne, FileCalm
<1>5. ASSUME NEW u \in Task, NEW next \in Capability \ issued,
             k.task = None, rows[u].state = "absent",
             rows' = [rows EXCEPT ![u] = Created(next, now)], issued' = issued \cup {next},
             Keeps(x, k, {"task", "cap", "fresh", "thread"}), x.task = u, x.cap = next
      PROVE  FileInv' /\ Kept
  <2>1. \A t \in Task : t # u => rows'[t] = rows[t]
    BY <1>5 DEF TypeOK
  <2>2. rows'[u].resume = next /\ rows'[u].pending = None /\ rows'[u].state = "active"
    <3>1. rows'[u] = Created(next, now)
      BY <1>5 DEF TypeOK
    <3>2. QED  BY <3>1 DEF Created, NoRow
  <2>3. k.cap = None /\ k.close = "none" /\ k.phase # "barrier"
    BY <1>1, <1>2, <1>5 DEF KnowsOK
  <2>4. HostConn(x, k)
    BY <1>5, <2>2, <2>3 DEF Keeps, HostConn
  <2>5. \A t \in Task : HostRow(t)
    <3>1. HostRow(u)
      BY <1>5, <2>2, RowsAssumption DEF HostRow, Holds
    <3>2. \A t \in Task : t # u => HostRow(t)
      BY <2>1 DEF HostRow
    <3>3. QED  BY <3>1, <3>2
  <2>6. HostTombs
    BY <1>2 DEF HostTombs
  <2>7. TombsOK'
    <3>1. /\ TombsRight(rows, tombs, now)
          /\ \A cap \in Capability : tombs[cap] # None => cap \in issued
      BY DEF FileInv, TombsOK
    <3>2. ASSUME NEW t \in Task, NEW cap \in Capability
          PROVE  /\ Active(rows'[t]) /\ Holds(rows'[t], cap) => tombs[cap] = None
                 /\ rows'[t].resume = cap /\ tombs[cap] # None => tombs[cap] = rows'[t].closedAt
                 /\ rows'[t].state = "deleted" /\ rows'[t].resume = cap =>
                      tombs[cap] # None \/ rows'[t].closedAt < now - TombstoneRetention
      <4>1. CASE t = u
        <5>1. Holds(rows'[u], cap) \/ rows'[u].resume = cap => cap = next
          BY <2>2 DEF Holds
        <5>2. tombs[next] = None
          BY <3>1
        <5>3. QED  BY <2>2, <4>1, <5>1, <5>2
      <4>2. CASE t # u
        BY <2>1, <3>1, <4>2 DEF TombsRight
      <4>3. QED  BY <4>1, <4>2
    <3>3. TombsRight(rows', tombs, now)
      BY <3>2, Zenon DEF TombsRight
    <3>4. QED  BY <1>2, <1>5, <3>1, <3>3 DEF TombsOK
  <2>8. QED  BY <1>2, <1>3, <2>4, <2>5, <2>6, <2>7, HostOne, FileHost
<1>6. QED
  <2>1. CASE \E t \in Task, cap \in Capability \ issued :
                        /\ k.task = None
                        /\ rows[t].state = "absent"
                        /\ rows' = [rows EXCEPT ![t] = Created(cap, now)]
                        /\ issued' = issued \cup {cap}
                        /\ Keeps(x, k, {"task", "cap", "fresh", "thread"})
                        /\ x.task = t /\ x.cap = cap
    BY <2>1, <1>5, Zenon
  <2>2. QED  BY <1>3, <1>4, <2>1, Zenon

LEMMA FileNegotiates ==
    ASSUME TypeOK, TypeOK', CapInv, CapInv', FileInv, NEW c \in Conn, Negotiate(c)
    PROVE  FileInv' /\ Kept
<1> DEFINE k == conn[c]
<1>1. k \in Connection /\ KnowsOK(k) /\ now \in Nat
  BY ConnFacts DEF TypeOK
<1>2. UNCHANGED <<store, client, now>> /\ k.phase = "sent"
  BY Zenon DEF Negotiate
<1>3. PICK s : s = Swept
  OBVIOUS
<1>4. PICK tb : tb = SweptTombstones
  OBVIOUS
<1>5. /\ s \in [Task -> Row] /\ tb \in [Capability -> Nat \cup {None}]
      /\ s = SweptRows(rows, now, 4) /\ tb = SweptTombs(rows, tombs, now, 4)
  BY <1>3, <1>4, SweptTyped, Zenon DEF Swept, SweptTombstones
<1>6. PICK x \in Connection :
             /\ Becomes(c, x)
             /\ \/ /\ k.offered = None
                   /\ Keeps(x, k, {"phase"}) /\ x.phase = "open"
                   /\ rows' = rows /\ tombs' = tombs /\ issued' = issued
                \/ /\ tombs' = tb
                   /\ \E t \in Task, next \in Capability \ issued :
                        /\ Resumable(s[t], k.offered)
                        /\ Keeps(x, k, {"phase", "task", "cap", "rotation"})
                        /\ x.phase = "barrier" /\ x.task = t /\ x.cap = next
                        /\ rows' = [s EXCEPT ![t] = Resumed(@, next, now)]
                        /\ issued' = issued \cup {next}
                \/ /\ tombs' = tb
                   /\ Keeps(x, k, {"phase"}) /\ x.phase = "classify"
                   /\ rows' = s /\ issued' = issued
  BY <1>3, <1>4, EffectNegotiate
<1>7. CASE /\ k.offered = None
           /\ Keeps(x, k, {"phase"}) /\ x.phase = "open"
           /\ rows' = rows /\ tombs' = tombs /\ issued' = issued
  <2>1. HostConn(x, k)
    BY <1>1, <1>2, <1>7 DEF Keeps, HostConn, KnowsOK, Fresh
  <2>2. issued \subseteq issued' /\ now' >= now
    BY <1>1, <1>2, <1>7
  <2>3. QED  BY <1>2, <1>6, <1>7, <2>1, <2>2, OneRowAges, HostOne, FileCalm
<1>8. CASE /\ tombs' = tb
           /\ Keeps(x, k, {"phase"}) /\ x.phase = "classify"
           /\ rows' = s /\ issued' = issued
  <2>1. HostConn(x, k)
    BY <1>8 DEF Keeps, HostConn
  <2>2. rows \in [Task -> Row] /\ \A t \in Task : RowAges(rows[t], rows[t])
    BY <1>1, StatementsAge DEF TypeOK
  <2>3. rows' = SweptRows(rows, now, 4) /\ tombs' = SweptTombs(rows, tombs, now, 4)
    BY <1>5, <1>8
  <2>4. \A d \in Conn : HostConn(conn'[d], conn[d])
    BY <1>6, <2>1, HostOne
  <2>5. UNCHANGED <<store, client, issued, now>>
    BY <1>2, <1>8
  <2>6. 4 \in 0..4
    OBVIOUS
  <2>7. QED  BY <2>2, <2>3, <2>4, <2>5, <2>6, FileSweeps
<1>9. ASSUME NEW u \in Task, NEW next \in Capability \ issued, tombs' = tb,
             Resumable(s[u], k.offered), Keeps(x, k, {"phase", "task", "cap", "rotation"}),
             x.phase = "barrier", x.task = u, x.cap = next,
             rows' = [s EXCEPT ![u] = Resumed(@, next, now)], issued' = issued \cup {next}
      PROVE  FileInv' /\ Kept
  <2>1. \A t \in Task : t # u => rows'[t] = s[t]
    BY <1>5, <1>9
  <2>2. /\ rows'[u].resume = s[u].resume /\ rows'[u].pending = next
        /\ rows'[u].state = "active" /\ Active(s[u])
    <3>1. rows'[u] = Resumed(s[u], next, now) /\ s[u] \in Row
      BY <1>5, <1>9
    <3>2. PICK n : n = s[u].conns + 1
      OBVIOUS
    <3>3. rows'[u] = [s[u] EXCEPT !.pending = next, !.conns = n, !.updated = now]
      BY <3>1, <3>2 DEF Resumed
    <3>4. Active(s[u])
      BY <1>9, Zenon DEF Resumable
    <3>5. /\ rows'[u].resume = s[u].resume /\ rows'[u].pending = next
          /\ rows'[u].state = s[u].state
      BY <3>1, <3>3 DEF Row
    <3>6. QED  BY <3>4, <3>5, Zenon DEF Active
  <2>3. k.cap = None /\ k.confirm = None /\ k.close = "none"
    BY <1>1, <1>2 DEF KnowsOK, Fresh
  <2>4. HostConn(x, k)
    BY <1>9, <2>3 DEF Keeps, HostConn
  <2>5. \A t \in Task : Aged(rows[t], s[t])
    BY <1>1, <1>5, SweptRowsAged, 4 \in 0..4 DEF TypeOK
  <2>6. \A t \in Task : \A cap \in Capability : cap # next =>
          (Holds(rows'[t], cap) => Holds(s[t], cap))
    BY <2>1, <2>2 DEF Holds
  <2>7. \A t \in Task : Active(rows'[t]) <=> Active(s[t])
    BY <2>1, <2>2 DEF Active
  <2>8. \A t \in Task : HostRow(t)
    <3>1. issued \subseteq Capability
      BY DEF TypeOK
    <3>2. ASSUME NEW t \in Task
          PROVE  HostRow(t)
      <4>1. \A cap \in issued : Holds(rows'[t], cap) => Holds(rows[t], cap)
        BY <2>5, <2>6, <3>1 DEF Holds, Aged
      <4>2. Active(rows'[t]) => Active(rows[t])
        BY <2>5, <2>7 DEF Aged
      <4>3. rows'[t].resume = rows[t].resume
        BY <2>1, <2>2, <2>5 DEF Aged
      <4>4. QED  BY <4>1, <4>2, <4>3 DEF HostRow
    <3>3. QED  BY <3>2
  <2>9. HostTombs
    <3>1. ASSUME NEW cap \in Capability, tb[cap] # None, tombs[cap] = None
          PROVE  \E t \in Task : Holds(rows[t], cap) /\ ~Active(s[t])
      <4>1. rows \in [Task -> Row] /\ tombs \in [Capability -> Nat \cup {None}] /\ 4 \in 0..4
        BY DEF TypeOK
      <4>2. QED  BY <1>1, <1>5, <3>1, <4>1, SweptTombsFrom
    <3>2. QED  BY <1>9, <2>7, <3>1 DEF HostTombs
  <2>10. TombsOK'
    <3>1. /\ TombsRight(rows, tombs, now)
          /\ \A cap \in Capability : tombs[cap] # None => cap \in issued
      BY DEF FileInv, TombsOK
    <3>2. \A cap \in Capability : tb[cap] # None => cap \in issued
      <4>1. \A t \in Task : \A cap : Holds(rows[t], cap) => cap \in issued
        BY DEF CapInv, FromIssued, Holds
      <4>2. QED  BY <1>9, <2>9, <3>1, <4>1 DEF HostTombs
    <3>3. TombsRight(s, tb, now)
      <4>1. /\ rows \in [Task -> Row] /\ tombs \in [Capability -> Nat \cup {None}]
            /\ 4 \in 0..4 /\ Apart(rows)
        BY DEF TypeOK, Apart, CapInv, HeldOnce
      <4>2. QED  BY <1>1, <1>5, <3>1, <4>1, SweptTombsRight
    <3>4. ASSUME NEW t \in Task, NEW cap \in Capability
          PROVE  /\ Active(rows'[t]) /\ Holds(rows'[t], cap) => tb[cap] = None
                 /\ rows'[t].resume = cap /\ tb[cap] # None => tb[cap] = rows'[t].closedAt
                 /\ rows'[t].state = "deleted" /\ rows'[t].resume = cap =>
                      tb[cap] # None \/ rows'[t].closedAt < now - TombstoneRetention
      <4>1. CASE t = u
        <5>1. Holds(rows'[u], cap) \/ rows'[u].resume = cap => cap = next \/ Holds(s[u], cap)
          BY <2>2, RowsAssumption DEF Holds
        <5>2. Holds(s[u], cap) => tb[cap] = None
          BY <2>2, <3>3 DEF TombsRight
        <5>3. tb[next] = None
          BY <3>2
        <5>4. QED  BY <2>2, <4>1, <5>1, <5>2, <5>3
      <4>2. CASE t # u
        BY <2>1, <3>3, <4>2 DEF TombsRight
      <4>3. QED  BY <4>1, <4>2
    <3>5. TombsRight(rows', tb, now)
      BY <3>4, Zenon DEF TombsRight
    <3>6. QED  BY <1>2, <1>9, <3>2, <3>5 DEF TombsOK
  <2>11. QED  BY <1>2, <1>6, <2>4, <2>8, <2>9, <2>10, HostOne, FileHost
<1>10. QED
  <2>1. CASE \E t \in Task, next \in Capability \ issued :
                        /\ tombs' = tb
                        /\ Resumable(s[t], k.offered)
                        /\ Keeps(x, k, {"phase", "task", "cap", "rotation"})
                        /\ x.phase = "barrier" /\ x.task = t /\ x.cap = next
                        /\ rows' = [s EXCEPT ![t] = Resumed(@, next, now)]
                        /\ issued' = issued \cup {next}
    BY <2>1, <1>9, Zenon
  <2>2. QED  BY <1>6, <1>7, <1>8, <2>1, Zenon

-----------------------------------------------------------------------------
(* The file of the client: its own steps *)

JournalSame == UNCHANGED <<now, rows, tombs, issued>>

(* A connection as the client leaves it: it has no confirmation under way  *)
(* that it did not have, and is not closed by this.                        *)
ClientConn(x, k) ==
    /\ x.phase = "barrier" /\ x.confirm # None =>
         /\ k.phase = "barrier" /\ k.confirm # None
         /\ x.offered = k.offered /\ x.cap = k.cap
    /\ x.close = "done" => k.close = "done" /\ x.task = k.task

LEMMA ClientSame ==
    ASSUME FileInv, JournalSame, store' = store,
           \A d \in Conn : ClientConn(conn'[d], conn[d])
    PROVE  /\ Prepared' /\ DoneIsClosed' /\ FileOfOneTask' /\ TombsOK' /\ FileIsCurrent'
           /\ Kept
<1>1. Stored' = Stored /\ UNCHANGED <<now, rows, tombs, issued>>
  BY DEF Stored, JournalSame
<1>2. Prepared'
  BY <1>1 DEF FileInv, Prepared, ClientConn
<1>3. DoneIsClosed'
  BY <1>1 DEF FileInv, DoneIsClosed, ClientConn
<1>4. FileOfOneTask'
  BY <1>1 DEF FileInv, FileOfOneTask, Reaches
<1>5. TombsOK'
  BY <1>1 DEF FileInv, TombsOK
<1>6. FileIsCurrent'
  BY <1>1 DEF FileInv, FileIsCurrent
<1>7. Kept
  BY <1>1 DEF Kept
<1>8. QED  BY <1>2, <1>3, <1>4, <1>5, <1>6, <1>7

LEMMA ClientJournal ==
    ASSUME FileInv, JournalSame, \A d \in Conn : ClientConn(conn'[d], conn[d])
           \/ (conn'[d].close = conn[d].close /\ conn'[d].task = conn[d].task)
    PROVE  DoneIsClosed' /\ TombsOK'
<1>1. UNCHANGED <<now, rows, tombs, issued>>
  BY DEF JournalSame
<1>2. DoneIsClosed'
  BY <1>1 DEF FileInv, DoneIsClosed, ClientConn
<1>3. TombsOK'
  BY <1>1 DEF FileInv, TombsOK
<1>4. QED  BY <1>2, <1>3

(* FileOK, one conjunct at a time. *)
LEMMA FileFacts ==
    ASSUME FileInv, client.phase # "idle", NEW c, c = client.conn
    PROVE  /\ c \in Conn /\ conn[c].phase # "free"
           /\ client.phase = "waiting" =>
                /\ conn[c].confirm = None
                /\ IF conn[c].offered = None THEN Stored = {} /\ client.rest = None
                   ELSE conn[c].phase # "open" /\ conn[c].offered \in Stored
                /\ client.rest = None \/ client.rest \in Stored
                /\ conn[c].reason = "task_closed" => \A t \in Task : ~Reaches(t)
           /\ client.phase = "rotating" =>
                /\ conn[c].offered # None /\ conn[c].cap # None
                /\ store = [active |-> conn[c].offered, pending |-> conn[c].cap]
           /\ client.phase \in {"ready", "closing"} => Stored \subseteq {conn[c].cap}
           /\ conn[c].cap # None => \A d \in Conn : conn[d].offered # conn[c].cap
           /\ conn[c].phase = "open" /\ conn[c].cap # None =>
                rows[conn[c].task].resume = conn[c].cap
BY Zenon DEF FileInv, FileOK

LEMMA FileConnects ==
    ASSUME TypeOK, CapInv, FileInv, NEW c \in Conn, ClientConnects(c)
    PROVE  FileInv' /\ Kept
<1>1. JournalSame /\ store' = store
  BY Zenon DEF ClientConnects, JournalSame
<1>2. PICK x \in Connection :
             /\ Becomes(c, x) /\ Fresh(x) /\ x.phase = "sent" /\ x.reason = "none"
             /\ x.offered = IF store.pending # None THEN store.pending ELSE store.active
  BY EffectConnects
<1>3. \A d \in Conn : ClientConn(conn'[d], conn[d])
  BY <1>2 DEF Becomes, ClientConn, Fresh
<1>4. Stored' = Stored
  BY <1>1 DEF Stored
<1>5. /\ client'.phase = "waiting" /\ client'.conn = c
      /\ client'.rest = IF store.active = x.offered THEN None ELSE store.active
  BY <1>2 DEF ClientConnects
<1>6. /\ x.offered = None => Stored = {} /\ client'.rest = None
      /\ x.offered # None => x.offered \in Stored
      /\ client'.rest = None \/ client'.rest \in Stored
  BY <1>2, <1>5 DEF Stored
<1>7. conn'[c] = x
  BY <1>2 DEF Becomes
<1>8. FileOK'
  BY <1>2, <1>4, <1>5, <1>6, <1>7 DEF FileOK, Fresh
<1>9. QED  BY <1>1, <1>3, <1>8, ClientSame DEF FileInv

LEMMA FileStarts ==
    ASSUME TypeOK, CapInv, FileInv, NEW c \in Conn,
           ClientStarts(c) \/ ClientAsksClose(c) \/ ClientLeaves(c)
    PROVE  FileInv' /\ Kept
<1>1. JournalSame /\ store' = store
  BY Zenon DEF ClientStarts, ClientAsksClose, ClientLeaves, JournalSame
<1>2. Stored' = Stored
  BY <1>1 DEF Stored
<1>3. client.phase # "idle" /\ client.conn = c
  BY DEF ClientStarts, ClientAsksClose, ClientLeaves
<1>4. CASE ClientStarts(c)
  <2>1. conn' = conn /\ conn[c].phase = "open" /\ client.phase = "waiting"
    BY <1>4, Zenon DEF ClientStarts
  <2>2. client'.phase = "ready" /\ client'.conn = c
    BY <1>3, <1>4 DEF ClientStarts, TypeOK, Client
  <2>3. Stored = {}
    BY <1>3, <2>1, FileFacts
  <2>4. FileOK'
    BY <1>1, <1>2, <1>3, <2>1, <2>2, <2>3, FileFacts DEF FileOK, JournalSame
  <2>5. \A d \in Conn : ClientConn(conn'[d], conn[d])
    BY <2>1 DEF ClientConn
  <2>6. QED  BY <1>1, <2>4, <2>5, ClientSame DEF FileInv
<1>5. CASE ClientAsksClose(c)
  <2>1. PICK x \in Connection : /\ Becomes(c, x) /\ Keeps(x, conn[c], {"close"})
                                /\ x.close = "asked"
    BY <1>5, EffectAsksClose
  <2>2. client.phase = "ready"
    BY <1>5 DEF ClientAsksClose
  <2>3. client'.phase = "closing" /\ client'.conn = c
    BY <1>3, <1>5 DEF ClientAsksClose, TypeOK, Client
  <2>4. /\ conn'[c].phase = conn[c].phase /\ conn'[c].task = conn[c].task
        /\ \A d \in Conn : conn'[d].offered = conn[d].offered /\ conn'[d].cap = conn[d].cap
    BY <2>1 DEF Becomes, Keeps
  <2>5. FileOK'
    BY <1>1, <1>2, <1>3, <2>2, <2>3, <2>4, FileFacts DEF FileOK, JournalSame
  <2>6. \A d \in Conn : ClientConn(conn'[d], conn[d])
    BY <2>1 DEF ClientConn, Becomes, Keeps
  <2>7. QED  BY <1>1, <2>5, <2>6, ClientSame DEF FileInv
<1>6. CASE ClientLeaves(c)
  <2>1. PICK x \in Connection : Becomes(c, x) /\ Keeps(x, conn[c], {"peer"})
    BY <1>6, EffectLeaves
  <2>2. client'.phase = "idle"
    BY <1>6 DEF ClientLeaves, IdleClient
  <2>3. FileOK'
    BY <2>2 DEF FileOK
  <2>4. \A d \in Conn : ClientConn(conn'[d], conn[d])
    BY <2>1 DEF ClientConn, Becomes, Keeps
  <2>5. QED  BY <1>1, <2>3, <2>4, ClientSame DEF FileInv
<1>7. QED  BY <1>4, <1>5, <1>6

(* The file given up: no task can be reached with what was in it. *)
LEMMA FileGivenUp ==
    ASSUME FileInv, JournalSame, store' = EmptyStore, client' = IdleClient,
           \A t \in Task : ~(Active(rows[t]) /\ rows[t].resume \in Stored),
           \A d \in Conn : ClientConn(conn'[d], conn[d])
    PROVE  FileInv' /\ Kept
<1>1. Stored' = {}
  BY DEF Stored, EmptyStore
<1>2. FileOK' /\ Prepared' /\ FileOfOneTask' /\ FileIsCurrent'
  BY <1>1 DEF FileOK, IdleClient, Prepared, FileOfOneTask, FileIsCurrent
<1>3. Kept
  BY DEF Kept
<1>4. QED  BY <1>2, <1>3, ClientJournal DEF FileInv

LEMMA FileClears ==
    ASSUME TypeOK, CapInv, FileInv, NEW c \in Conn, ClientClears(c)
    PROVE  FileInv' /\ Kept
<1>1. /\ JournalSame /\ store' = EmptyStore /\ client' = IdleClient
      /\ client.phase = "closing" /\ client.conn = c /\ conn[c].close = "done"
  BY Zenon DEF ClientClears, JournalSame
<1>2. PICK x \in Connection : Becomes(c, x) /\ Keeps(x, conn[c], {"peer"})
  BY EffectLeaves
<1>3. \A d \in Conn : ClientConn(conn'[d], conn[d])
  BY <1>2 DEF ClientConn, Becomes, Keeps
<1>4. ASSUME NEW t \in Task, Active(rows[t]), rows[t].resume \in Stored
      PROVE  FALSE
  <2>1. rows[t].resume = conn[c].cap /\ rows[t].resume # None
    BY <1>1, <1>4, FileFacts DEF Stored
  <2>2. t = conn[c].task
    BY <2>1 DEF CapInv, CapsOwned, Holds
  <2>3. QED  BY <1>1, <1>4, <2>2 DEF FileInv, DoneIsClosed
<1>5. QED  BY <1>1, <1>3, <1>4, FileGivenUp

LEMMA FileRejected ==
    ASSUME TypeOK, CapInv, FileInv, NEW c \in Conn, ClientRejected(c)
    PROVE  FileInv' /\ Kept
<1>1. JournalSame /\ client.phase = "waiting" /\ client.conn = c
  BY Zenon DEF ClientRejected, JournalSame
<1>2. PICK x \in Connection :
             /\ Keeps(x, conn[c], {"peer"})
             /\ \/ /\ Becomes(c, x) /\ client' = IdleClient
                   /\ \/ store' = EmptyStore /\ conn[c].reason = "task_closed"
                      \/ store' = store
                \/ /\ store' = store /\ client.rest # None
                   /\ \E d \in Conn, y \in Connection :
                        /\ d # c
                        /\ client' = [phase |-> "waiting", conn |-> d, rest |-> None]
                        /\ conn'[c] = x /\ conn'[d] = y
                        /\ \A e \in Conn : e # c /\ e # d => conn'[e] = conn[e]
                        /\ Fresh(y) /\ y.phase = "sent" /\ y.reason = "none"
                        /\ y.offered = client.rest
  BY EffectRejected
<1>3. ClientConn(x, conn[c])
  BY <1>2 DEF Keeps, ClientConn
<1>4. CASE Becomes(c, x) /\ client' = IdleClient
  <2>1. \A d \in Conn : ClientConn(conn'[d], conn[d])
    BY <1>3, <1>4 DEF Becomes, ClientConn
  <2>2. CASE store' = store
    <3>1. FileOK'
      BY <1>4 DEF FileOK, IdleClient
    <3>2. QED  BY <1>1, <2>1, <2>2, <3>1, ClientSame DEF FileInv
  <2>3. CASE store' = EmptyStore /\ conn[c].reason = "task_closed"
    <3>1. \A t \in Task : ~Reaches(t)
      BY <1>1, <2>3, FileFacts
    <3>2. \A t \in Task : ~(Active(rows[t]) /\ rows[t].resume \in Stored)
      BY <3>1 DEF Reaches, Stored, Holds
    <3>3. QED  BY <1>1, <1>4, <2>1, <2>3, <3>2, FileGivenUp
  <2>4. CASE ~(store' = store) /\ ~(store' = EmptyStore /\ conn[c].reason = "task_closed")
    BY <1>2, <1>4, <2>4
  <2>5. QED  BY <2>2, <2>3, <2>4
<1>5. ASSUME store' = store, client.rest # None, NEW d \in Conn, NEW y \in Connection, d # c,
             client' = [phase |-> "waiting", conn |-> d, rest |-> None],
             conn'[c] = x, conn'[d] = y,
             \A e \in Conn : e # c /\ e # d => conn'[e] = conn[e],
             Fresh(y), y.phase = "sent", y.reason = "none", y.offered = client.rest
      PROVE  FileInv' /\ Kept
  <2>1. \A e \in Conn : ClientConn(conn'[e], conn[e])
    BY <1>3, <1>5 DEF ClientConn, Fresh
  <2>2. client.rest \in Stored
    BY <1>1, <1>5, FileFacts
  <2>3. Stored' = Stored
    BY <1>5 DEF Stored
  <2>4. client'.phase = "waiting" /\ client'.conn = d /\ client'.rest = None
    BY <1>5
  <2>5. FileOK'
    BY <1>5, <2>2, <2>3, <2>4 DEF FileOK, Fresh
  <2>6. QED  BY <1>1, <1>5, <2>1, <2>5, ClientSame DEF FileInv
<1>6. QED
  <2>1. CASE \E d \in Conn, y \in Connection :
                        /\ store' = store /\ client.rest # None
                        /\ d # c
                        /\ client' = [phase |-> "waiting", conn |-> d, rest |-> None]
                        /\ conn'[c] = x /\ conn'[d] = y
                        /\ \A e \in Conn : e # c /\ e # d => conn'[e] = conn[e]
                        /\ Fresh(y) /\ y.phase = "sent" /\ y.reason = "none"
                        /\ y.offered = client.rest
    BY <2>1, <1>5, Zenon
  <2>2. QED  BY <1>2, <1>4, <2>1, Zenon

LEMMA FilePrepares ==
    ASSUME TypeOK, CapInv, FileInv, NEW c \in Conn, ClientPrepares(c)
    PROVE  FileInv' /\ Kept
<1> DEFINE k == conn[c]
<1>1. /\ JournalSame /\ client.phase = "waiting" /\ client.conn = c
      /\ k.phase = "barrier" /\ k.offered \in Stored
      /\ store' = [active |-> k.offered, pending |-> k.cap]
      /\ client' = [client EXCEPT !.phase = "rotating"]
  BY Zenon DEF ClientPrepares, JournalSame
<1>2. UNCHANGED <<now, rows, tombs, issued>>
  BY <1>1 DEF JournalSame
<1>3. client'.phase = "rotating" /\ client'.conn = c
  BY <1>1 DEF TypeOK, Client
<1>4. PICK x \in Connection : Becomes(c, x) /\ Keeps(x, k, {"confirm"})
  BY EffectConfirming
<1>5. k \in Connection /\ KnowsOK(k)
  BY ConnFacts
<1>6. PICK u \in Task, p, q \in Capability : u = k.task /\ p = k.offered /\ q = k.cap
  BY <1>1, <1>5 DEF KnowsOK, Connection
<1>7. rows[u].resume = p /\ rows[u].pending = q /\ p # None /\ q # None
  BY <1>1, <1>6, RowsAssumption DEF CapInv, AtBarrier
<1>8. Holds(rows[u], p) /\ Holds(rows[u], q)
  BY <1>7 DEF Holds
<1>9. Stored' = {p, q}
  BY <1>1, <1>6, <1>7 DEF Stored
<1>10. \A t \in Task : Holds(rows[t], p) \/ Holds(rows[t], q) => t = u
  BY <1>8, Zenon DEF CapInv, HeldOnce
<1>11. \A d \in Conn : conn[d].offered # q
  BY <1>1, <1>6, <1>7, FileFacts
<1>12. /\ conn'[c] = x /\ \A d \in Conn : d # c => conn'[d] = conn[d]
       /\ \A d \in Conn : conn'[d].offered = conn[d].offered
       /\ \A d \in Conn : conn'[d].close = conn[d].close /\ conn'[d].task = conn[d].task
       /\ x.offered = p /\ x.cap = q /\ x.phase = "barrier"
  BY <1>1, <1>4, <1>6 DEF Becomes, Keeps
<1>13. FileOK'
  BY <1>1, <1>3, <1>6, <1>7, <1>11, <1>12 DEF FileOK
<1>14. Prepared'
  <2>1. ASSUME NEW d \in Conn, d # c, conn[d].phase = "barrier", conn[d].offered \in {p, q}
        PROVE  FALSE
    <3>1. conn[d].offered = p
      BY <2>1, <1>11
    <3>2. conn[d].task \in Task /\ rows[conn[d].task].resume = p
      BY <2>1, <3>1, ConnFacts DEF KnowsOK, Connection, CapInv, AtBarrier
    <3>3. conn[d].task = u
      BY <1>7, <1>10, <3>2 DEF Holds
    <3>4. conn[d].cap = q
      BY <1>7, <2>1, <3>3 DEF CapInv, AtBarrier
    <3>5. QED  BY <1>6, <1>7, <2>1, <3>4 DEF CapInv, CapsOwned
  <2>2. QED  BY <1>9, <1>12, <2>1 DEF Prepared
<1>15. DoneIsClosed' /\ TombsOK'
  BY <1>1, <1>12, ClientJournal
<1>16. FileOfOneTask'
  <2>1. ASSUME NEW t \in Task, Active(rows[t]), NEW cap \in {p, q}, Holds(rows[t], cap)
        PROVE  \A e \in {p, q} : /\ tombs[e] = None
                                 /\ \A v \in Task : Holds(rows[v], e) => v = t
    <3>1. t = u
      BY <1>10, <2>1
    <3>2. tombs[p] = None /\ tombs[q] = None
      BY <1>8, <2>1, <3>1 DEF FileInv, TombsOK, TombsRight
    <3>3. QED  BY <1>10, <3>1, <3>2
  <2>2. QED  BY <1>2, <1>9, <2>1 DEF FileOfOneTask, Reaches
<1>17. FileIsCurrent'
  BY <1>2, <1>7, <1>9 DEF FileIsCurrent
<1>18. Kept
  <2>1. ASSUME NEW t \in Task, Active(rows[t]), rows[t].resume \in Stored
        PROVE  t = u
    <3>1. Reaches(t)
      BY <2>1 DEF Reaches, Stored, Holds
    <3>2. p \in Stored
      BY <1>1, <1>6
    <3>3. QED  BY <1>8, <3>1, <3>2, Zenon DEF FileInv, FileOfOneTask
  <2>2. QED  BY <1>2, <1>7, <1>9, <2>1 DEF Kept
<1>19. QED  BY <1>13, <1>14, <1>15, <1>16, <1>17, <1>18 DEF FileInv

(* The file has the confirmed capability of the client's connection alone. *)
LEMMA FileOfConnection ==
    ASSUME TypeOK, CapInv, FileInv, NEW c \in Conn, JournalSame,
           client.phase # "idle", client.conn = c,
           conn[c].phase = "open", conn[c].cap # None,
           store' = [active |-> conn[c].cap, pending |-> None],
           client'.phase = "ready", client'.conn = c,
           \A d \in Conn : Keeps(conn'[d], conn[d], {"confirm"}),
           \A t \in Task : Active(rows[t]) /\ rows[t].resume \in Stored =>
              rows[t].resume = conn[c].cap
    PROVE  FileInv' /\ Kept
<1> DEFINE k == conn[c]
<1>1. UNCHANGED <<now, rows, tombs, issued>>
  BY DEF JournalSame
<1>2. k \in Connection /\ KnowsOK(k)
  BY ConnFacts
<1>3. PICK u \in Task, q \in Capability : u = k.task /\ q = k.cap
  BY <1>2 DEF KnowsOK, Connection
<1>4. q # None /\ Stored' = {q}
  BY <1>3 DEF Stored
<1>5. rows[u].resume = q /\ \A d \in Conn : conn[d].offered # q
  BY <1>3, <1>4, FileFacts
<1>6. /\ \A d \in Conn : /\ conn'[d].offered = conn[d].offered /\ conn'[d].phase = conn[d].phase
                         /\ conn'[d].close = conn[d].close /\ conn'[d].task = conn[d].task
                         /\ conn'[d].cap = conn[d].cap
  BY DEF Keeps
<1>7. FileOK'
  BY <1>1, <1>3, <1>4, <1>5, <1>6 DEF FileOK
<1>8. Prepared'
  BY <1>4, <1>5, <1>6 DEF Prepared
<1>9. DoneIsClosed' /\ TombsOK'
  BY <1>6, ClientJournal
<1>10. FileOfOneTask'
  <2>1. ASSUME NEW t \in Task, Active(rows[t]), Holds(rows[t], q)
        PROVE  tombs[q] = None /\ \A v \in Task : Holds(rows[v], q) => v = t
    <3>1. tombs[q] = None
      BY <2>1 DEF FileInv, TombsOK, TombsRight
    <3>2. \A v \in Task : Holds(rows[v], q) => v = t
      BY <2>1, Zenon DEF CapInv, HeldOnce
    <3>3. QED  BY <3>1, <3>2
  <2>2. QED  BY <1>1, <1>4, <2>1 DEF FileOfOneTask, Reaches
<1>11. FileIsCurrent'
  BY <1>1, <1>4, <1>5 DEF FileIsCurrent
<1>12. Kept
  BY <1>1, <1>3, <1>4 DEF Kept
<1>13. QED  BY <1>7, <1>8, <1>9, <1>10, <1>11, <1>12 DEF FileInv

LEMMA FileActivates ==
    ASSUME TypeOK, CapInv, FileInv, NEW c \in Conn, ClientActivates(c)
    PROVE  FileInv' /\ Kept
<1> DEFINE k == conn[c]
<1>1. /\ JournalSame /\ client.phase = "rotating" /\ client.conn = c /\ conn' = conn
      /\ k.phase = "open" /\ store' = [active |-> k.cap, pending |-> None]
      /\ client' = [client EXCEPT !.phase = "ready"]
  BY Zenon DEF ClientActivates, JournalSame
<1>2. client'.phase = "ready" /\ client'.conn = c
  BY <1>1 DEF TypeOK, Client
<1>3. /\ k.offered # None /\ k.cap # None
      /\ store = [active |-> k.offered, pending |-> k.cap]
  BY <1>1, FileFacts
<1>4. Stored = {k.offered, k.cap}
  BY <1>3 DEF Stored
<1>5. \A t \in Task : ~Holds(rows[t], k.offered)
  BY <1>1, <1>3 DEF CapInv, Spent
<1>6. \A t \in Task : rows[t].resume \in Stored => rows[t].resume = k.cap
  BY <1>3, <1>4, <1>5 DEF Holds
<1>7. \A d \in Conn : Keeps(conn'[d], conn[d], {"confirm"})
  BY <1>1 DEF Keeps
<1>8. QED  BY <1>1, <1>2, <1>3, <1>6, <1>7, FileOfConnection

LEMMA FileSaves ==
    ASSUME TypeOK, CapInv, FileInv, NEW c \in Conn, ClientSaves(c)
    PROVE  FileInv' /\ Kept
<1> DEFINE k == conn[c]
<1>1. /\ JournalSame /\ client.phase = "ready" /\ client.conn = c /\ client' = client
      /\ k.phase = "open" /\ store' = [active |-> k.cap, pending |-> None]
      /\ k.fresh \in {"inFlight", "delivered"}
  BY Zenon DEF ClientSaves, JournalSame
<1>2. PICK x \in Connection : Becomes(c, x) /\ Keeps(x, k, {"confirm"})
  BY EffectConfirming
<1>3. k.cap # None
  BY <1>1, ConnFacts DEF KnowsOK
<1>4. Stored \subseteq {k.cap}
  BY <1>1, FileFacts
<1>5. \A d \in Conn : Keeps(conn'[d], conn[d], {"confirm"})
  BY <1>2 DEF Becomes, Keeps
<1>6. \A t \in Task : rows[t].resume \in Stored => rows[t].resume = k.cap
  BY <1>4
<1>7. QED  BY <1>1, <1>3, <1>5, <1>6, FileOfConnection

-----------------------------------------------------------------------------
(* The file of the client: theorems *)

LEMMA FileInit == Init => FileInv
<1> SUFFICES ASSUME Init PROVE FileInv
  OBVIOUS
<1>1. Stored = {} /\ client.phase = "idle"
  BY DEF Init, Stored, EmptyStore, IdleClient
<1>2. \A c \in Conn : conn[c].phase = "free" /\ conn[c].close = "none"
  BY DEF Init, FreeConnection
<1>3. \A t \in Task : rows[t].state = "absent" /\ rows[t].resume = None
  BY DEF Init, NoRow
<1>4. \A cap \in Capability : tombs[cap] = None
  BY DEF Init
<1>5. FileOK /\ Prepared /\ DoneIsClosed /\ FileOfOneTask /\ FileIsCurrent
  BY <1>1, <1>2, <1>3 DEF FileOK, Prepared, DoneIsClosed, FileOfOneTask, FileIsCurrent
<1>6. TombsRight(rows, tombs, now)
  BY <1>3, <1>4, RowsAssumption DEF TombsRight
<1>7. TombsOK
  BY <1>4, <1>6 DEF TombsOK
<1>8. QED  BY <1>5, <1>7 DEF FileInv

LEMMA FileStep == TypeOK /\ CapInv /\ FileInv /\ [Next]_vars => FileInv' /\ Kept
<1> SUFFICES ASSUME TypeOK, CapInv, FileInv, [Next]_vars PROVE FileInv' /\ Kept
  OBVIOUS
<1>1. TypeOK' /\ CapInv'
  BY TypeStep, CapStep
<1>2. CASE UNCHANGED vars
  <2>1. /\ UNCHANGED <<store, client, tombs, issued>> /\ conn' = conn
        /\ now' = now /\ rows' = rows
    BY <1>2 DEF vars
  <2>2. issued \subseteq issued' /\ now' >= now
    BY <2>1 DEF TypeOK
  <2>3. \A t \in Task : RowAges(rows'[t], rows[t])
    BY <2>1, OneRowAges
  <2>4. \A d \in Conn : HostConn(conn'[d], conn[d])
    BY <2>1 DEF HostConn
  <2>5. QED  BY <1>1, <2>1, <2>2, <2>3, <2>4, FileCalm
<1>3. ASSUME NEW c \in Conn,
             \/ ClientConnects(c) \/ ClientRejected(c) \/ ClientPrepares(c)
             \/ ClientActivates(c) \/ ClientStarts(c) \/ ClientSaves(c)
             \/ ClientAsksClose(c) \/ ClientClears(c) \/ ClientLeaves(c)
      PROVE  FileInv' /\ Kept
  BY <1>3, FileConnects, FileRejected, FilePrepares, FileActivates, FileStarts, FileSaves,
     FileClears, Zenon
<1>4. ASSUME NEW c \in Conn,
             \/ Negotiate(c) \/ Classify(c) \/ DisconnectBegins(c)
             \/ DisconnectEnds(c) \/ Confirm(c) \/ RequestChecked(c)
             \/ EnsureTask(c) \/ Respond(c) \/ Delivered(c) \/ CloseTask(c)
      PROVE  FileInv' /\ Kept
  BY <1>1, <1>4, FileNegotiates, FileServer, FileConfirms, FileEnsures, Zenon
<1>5. CASE (\E S \in SUBSET Task : Inventory(S)) \/ Crash \/ Boot \/ Tick
  BY <1>1, <1>5, FileRest, Zenon
<1>6. QED  BY <1>2, <1>3, <1>4, <1>5, Zenon DEF Next

(* docs/multi-agent.md: a task is never abandoned silently.  Whatever step *)
(* is next, a task that stays active and whose capability is in the        *)
(* client's file still has its capability there: the order in which the    *)
(* file and the row of a rotation are written leaves no moment at which a  *)
(* crash of either side loses it.                                          *)
THEOREM TasksNotAbandoned == Spec => NeverAbandoned
<1>1. Init => TypeOK /\ CapInv /\ FileInv
  BY TypeInit, CapInit, FileInit
<1>2. TypeOK /\ CapInv /\ FileInv /\ [Next]_vars => (TypeOK /\ CapInv /\ FileInv)'
  BY TypeStep, CapStep, FileStep
<1>3. TypeOK /\ CapInv /\ FileInv /\ [Next]_vars => [Kept]_vars
  BY FileStep
<1>4. Spec => [][Kept]_vars
  BY <1>1, <1>2, <1>3, PTL DEF Spec
<1>5. QED  BY <1>4, Zenon DEF Kept, NeverAbandoned

(* Whatever is in the client's file, a host that is up knows an active     *)
(* task by it or can say that the task was closed, until TombstoneRetention*)
(* has passed: no cleanup, and no crash between two of its statements,     *)
(* leaves the client with a capability the host calls unknown.             *)
THEOREM FileRecognised == Spec => []StoredIsRecognised
<1>1. Init => TypeOK /\ CapInv /\ FileInv
  BY TypeInit, CapInit, FileInit
<1>2. TypeOK /\ CapInv /\ FileInv /\ [Next]_vars => (TypeOK /\ CapInv /\ FileInv)'
  BY TypeStep, CapStep, FileStep
<1>3. ASSUME TypeOK, CapInv, FileInv, Stored # {}
      PROVE  \/ \E t \in Task : Active(rows[t]) /\ rows[t].resume \in Stored
             \/ \E cap \in Stored : ClosedKnown(rows, tombs, cap)
             \/ \E t \in Task : /\ rows[t].state = "deleted"
                                /\ rows[t].resume \in Stored
                                /\ rows[t].closedAt < now - TombstoneRetention
  <2>1. PICK t \in Task : rows[t].resume \in Stored
    BY <1>3 DEF FileInv, FileIsCurrent
  <2>2. PICK cap \in Capability : cap = rows[t].resume /\ cap \in Stored /\ cap # None
    BY <1>3, <2>1, StoredIssued
  <2>3. rows[t].state \in {"active", "closed", "deleted"}
    BY <1>3, <2>2 DEF TypeOK, Row, TaskState, CapInv, HeldOnce
  <2>4. CASE rows[t].state = "active"
    BY <2>1, <2>4 DEF Active
  <2>5. CASE rows[t].state = "closed"
    BY <2>2, <2>5 DEF ClosedKnown
  <2>6. CASE rows[t].state = "deleted"
    <3>1. tombs[cap] # None \/ rows[t].closedAt < now - TombstoneRetention
      BY <1>3, <2>2, <2>6 DEF FileInv, TombsOK, TombsRight
    <3>2. QED  BY <2>1, <2>2, <2>6, <3>1 DEF ClosedKnown
  <2>7. QED  BY <2>3, <2>4, <2>5, <2>6
<1>4. TypeOK /\ CapInv /\ FileInv => StoredIsRecognised
  BY <1>3 DEF StoredIsRecognised
<1>5. QED  BY <1>1, <1>2, <1>4, PTL DEF Spec

=============================================================================
