---- MODULE MutationRuntimeProofs ----
(***************************************************************************)
(* Proofs about MutationRuntime for any number of requests, connections,   *)
(* keys, lock scopes and restarts, and any retention and clock skew, and,  *)
(* after them, that the runtime with its journal implements OneEffect      *)
(* wherever no client clock was ahead of the host's when its key was       *)
(* dispatched.                                                             *)
(***************************************************************************)
EXTENDS MutationRefinement, TLAPS

USE DEF CommandState, Deniable

(* A key's row decides "cached" only when it holds a completed answer. *)
LEMMA CachedIsCompleted ==
    ASSUME NEW row, NEW input, Decision(row, input) = "cached"
    PROVE  row.state = "completed" /\ row.input = input
BY DEF Decision

(* What the operators on rows return is again a well formed row. *)
LEMMA RowTypes ==
    ASSUME NEW row, RowOK(row), NEW t \in Nat
    PROVE  /\ RowOK(NoRecord)
           /\ RowOK(Purged(row, t))
           /\ \A i \in Input : RowOK(StartedRecord(i, t))
           /\ \A a \in Outcome : RowOK(CompletedRecord(row, a, t))
BY DEF RowOK, Record, RecordState, Outcome, NoRecord, Purged, StartedRecord,
       CompletedRecord

(* The three ways a step rewrites an attempt. *)
LEMMA AttemptTypes ==
    ASSUME NEW a, AttemptOK(a), a.phase # "idle"
    PROVE  /\ \A p \in Phase \ {"replied", "durable", "answered"} :
                AttemptOK([a EXCEPT !.phase = p])
           /\ \A p \in Phase, o \in Outcome :
                /\ AttemptOK([a EXCEPT !.phase = p, !.answer = o])
                /\ AttemptOK([a EXCEPT !.phase = p, !.answer = o, !.cached = TRUE])
           /\ \A t \in Nat : AttemptOK([a EXCEPT !.phase = "begun", !.begunAt = t])
<1>1. ASSUME NEW p \in Phase \ {"replied", "durable", "answered"}
      PROVE  AttemptOK([a EXCEPT !.phase = p])
    BY DEF AttemptOK, Attempt
<1>2. ASSUME NEW p \in Phase, NEW o \in Outcome
      PROVE  AttemptOK([a EXCEPT !.phase = p, !.answer = o])
    BY DEF AttemptOK, Attempt
<1>3. ASSUME NEW p \in Phase, NEW o \in Outcome
      PROVE  AttemptOK([a EXCEPT !.phase = p, !.answer = o, !.cached = TRUE])
    BY DEF AttemptOK, Attempt
<1>4. ASSUME NEW t \in Nat
      PROVE  AttemptOK([a EXCEPT !.phase = "begun", !.begunAt = t])
    BY DEF AttemptOK, Attempt, Phase
<1> QED
    BY <1>1, <1>2, <1>3, <1>4

(* Replacing one attempt by a well formed one keeps them all well formed. *)
LEMMA OneAttempt ==
    ASSUME req \in [Request -> Attempt], \A q \in Request : AttemptOK(req[q]),
           NEW r \in Request, NEW a, AttemptOK(a), req' = [req EXCEPT ![r] = a]
    PROVE  /\ req' \in [Request -> Attempt]
           /\ \A q \in Request : AttemptOK(req'[q])
BY DEF AttemptOK

LEMMA TypeInit == Init => TypeOK
<1> SUFFICES ASSUME Init PROVE TypeOK
    OBVIOUS
<1> USE RecordsAssumption, RuntimeAssumption
<1>1. RowOK(NoRecord) /\ NoRecord \in Record
    BY DEF NoRecord, RowOK, Record, RecordState, Outcome
<1>2. AttemptOK(IdleAttempt) /\ IdleAttempt \in Attempt
    BY DEF IdleAttempt, AttemptOK, Attempt, Phase, Outcome
<1> QED
    BY <1>1, <1>2 DEF Init, TypeOK, RuntimeState

LEMMA TypeLookup ==
    ASSUME TypeOK, NEW r \in Request, Lookup(r)
    PROVE  TypeOK'
<1> USE RecordsAssumption, RuntimeAssumption
<1>1. AttemptOK(req[r]) /\ req[r].phase = "received" /\ KeyOf(r) \in Key
    BY DEF Lookup, TypeOK, AttemptOK, KeyOf
<1>2. \E a : AttemptOK(a) /\ req' = [req EXCEPT ![r] = a]
  <2>1. CASE AnswerWith(r, "not_started") \/ AnswerWith(r, "unknown")
      BY <1>1, <2>1, AttemptTypes DEF AnswerWith, Outcome, Phase
  <2>2. CASE Decision(record[KeyOf(r)], InputOf(r)) = "cached" /\ AnswerCached(r)
    <3>1. record[KeyOf(r)].answer \in Outcome
        BY <1>1, <2>2, CachedIsCompleted DEF TypeOK, RowOK
    <3> QED
        BY <1>1, <2>2, <3>1, AttemptTypes DEF AnswerCached, Outcome, Phase
  <2>3. CASE MoveTo(r, "queued")
      BY <1>1, <2>3, AttemptTypes DEF MoveTo, Phase
  <2> QED
      BY <2>1, <2>2, <2>3 DEF Lookup
<1> QED
    BY <1>2, OneAttempt DEF Lookup, TypeOK, hostVars

LEMMA TypeBegin ==
    ASSUME TypeOK, NEW r \in Request, Begin(r)
    PROVE  TypeOK'
<1> USE RecordsAssumption, RuntimeAssumption
<1> DEFINE purged == [k \in Key |-> Purged(record[k], now)]
<1>1. /\ AttemptOK(req[r]) /\ req[r].phase = "admitted"
      /\ KeyOf(r) \in Key /\ InputOf(r) \in Input
      /\ now \in Nat
    BY DEF Begin, TypeOK, AttemptOK, KeyOf, InputOf
<1>2. \A k \in Key : RowOK(purged[k])
    BY RowTypes DEF TypeOK
<1>3. ASSUME NEW row, RowOK(row) PROVE row \in Record
    BY <1>3 DEF RowOK
<1>4. record' \in [Key -> Record] /\ \A k \in Key : RowOK(record'[k])
  <2>1. CASE UNCHANGED record
      BY <2>1 DEF TypeOK
  <2>2. CASE record' = [purged EXCEPT ![KeyOf(r)] = StartedRecord(InputOf(r), now)]
    <3>1. RowOK(StartedRecord(InputOf(r), now))
        BY <1>1, RowTypes DEF TypeOK
    <3> HIDE DEF purged
    <3>2. purged \in [Key -> Record]
        BY <1>2, <1>3 DEF purged
    <3> QED
        BY <1>1, <1>2, <1>3, <2>2, <3>1, <3>2
  <2> QED
      BY <2>1, <2>2 DEF Begin
<1>5. \E a : AttemptOK(a) /\ req' = [req EXCEPT ![r] = a]
  <2>1. CASE AnswerWith(r, "not_started") \/ AnswerWith(r, "unknown")
      BY <1>1, <2>1, AttemptTypes DEF AnswerWith, Outcome, Phase
  <2>2. CASE Decision(purged[KeyOf(r)], InputOf(r)) = "cached" /\ AnswerCached(r)
    <3>1. purged[KeyOf(r)].state = "completed"
        BY <2>2, CachedIsCompleted
    <3>2. record[KeyOf(r)].answer \in Outcome
        BY <1>1, <3>1 DEF Purged, NoRecord, TypeOK, RowOK
    <3> QED
        BY <1>1, <2>2, <3>2, AttemptTypes DEF AnswerCached, Outcome, Phase
  <2>3. CASE req' = [req EXCEPT ![r] = [@ EXCEPT !.phase = "begun", !.begunAt = now]]
      BY <1>1, <2>3, AttemptTypes
  <2> QED
      BY <2>1, <2>2, <2>3 DEF Begin
<1>6. lock' \in [Scope -> Request \cup {None}]
    BY DEF Begin, Release, TypeOK
<1> QED
    BY <1>4, <1>5, <1>6, OneAttempt DEF Begin, TypeOK, hostVars

LEMMA TypeSettle ==
    ASSUME TypeOK, NEW r \in Request, Settle(r)
    PROVE  TypeOK'
<1> USE RecordsAssumption, RuntimeAssumption
<1>1. /\ AttemptOK(req[r]) /\ req[r].phase = "replied" /\ req[r].answer \in Outcome
      /\ KeyOf(r) \in Key /\ RowOK(record[KeyOf(r)])
      /\ now \in Nat
    BY DEF Settle, TypeOK, AttemptOK, KeyOf
<1>2. PICK answer \in Outcome :
        \/ /\ record' = [record EXCEPT ![KeyOf(r)] =
                            CompletedRecord(record[KeyOf(r)], answer, now)]
           /\ req' = [req EXCEPT ![r] = [@ EXCEPT !.phase = "durable", !.answer = answer]]
        \/ /\ UNCHANGED record
           /\ req' = [req EXCEPT ![r] = [@ EXCEPT !.phase = "durable", !.answer = "unknown"]]
    BY <1>1 DEF Settle, Outcome
<1>3. RowOK(CompletedRecord(record[KeyOf(r)], answer, now))
    BY <1>1, RowTypes
<1>4. record' \in [Key -> Record] /\ \A k \in Key : RowOK(record'[k])
    BY <1>1, <1>2, <1>3 DEF TypeOK, RowOK
<1>5. \E a : AttemptOK(a) /\ req' = [req EXCEPT ![r] = a]
    BY <1>1, <1>2, AttemptTypes DEF Outcome, Phase
<1> QED
    BY <1>4, <1>5, OneAttempt DEF Settle, TypeOK, hostVars

(* The other actions of a request thread leave the rows alone. *)
LEMMA TypeServe ==
    ASSUME TypeOK, NEW r \in Request,
           \/ Acquire(r) \/ Admit(r) \/ Dispatch(r) \/ NativeReply(r)
           \/ NativeTimeout(r) \/ Return(r)
    PROVE  TypeOK'
<1> USE RecordsAssumption, RuntimeAssumption
<1> DEFINE Here == AttemptOK(req[r]) /\ req[r].phase # "idle"
           Step == \E a : AttemptOK(a) /\ req' = [req EXCEPT ![r] = a]
<1>1. AttemptOK(req[r])
    BY DEF TypeOK
<1>2. CASE Acquire(r)
  <2>1. Step
      BY <1>1, <1>2, AttemptTypes DEF Acquire, MoveTo, AnswerWith, Outcome, Phase
  <2>2. lock' \in [Scope -> Request \cup {None}]
      BY <1>2 DEF Acquire, TypeOK
  <2> QED
      BY <1>2, <2>1, <2>2, OneAttempt DEF Acquire, TypeOK, hostVars
<1>3. CASE Admit(r)
  <2>1. Step
      BY <1>1, <1>3, AttemptTypes DEF Admit, MoveTo, AnswerWith, Outcome, Phase
  <2>2. lock' \in [Scope -> Request \cup {None}]
      BY <1>3 DEF Admit, Release, TypeOK
  <2> QED
      BY <1>3, <2>1, <2>2, OneAttempt DEF Admit, TypeOK, hostVars
<1>4. CASE Dispatch(r)
  <2>1. Step
      BY <1>1, <1>4, AttemptTypes DEF Dispatch, MoveTo, Outcome, Phase
  <2>2. command' \in [Request -> CommandState]
      BY <1>4 DEF Dispatch, TypeOK
  <2> QED
      BY <1>4, <2>1, <2>2, OneAttempt DEF Dispatch, TypeOK, hostVars
<1>5. CASE NativeReply(r)
  <2>1. Step
      BY <1>1, <1>5, AttemptTypes DEF NativeReply, Phase
  <2> QED
      BY <1>5, <2>1, OneAttempt DEF NativeReply, TypeOK, hostVars
<1>6. CASE NativeTimeout(r)
  <2>1. Step
      BY <1>1, <1>6, AttemptTypes DEF NativeTimeout, Outcome, Phase
  <2> QED
      BY <1>6, <2>1, OneAttempt DEF NativeTimeout, TypeOK, hostVars
<1>7. CASE Return(r)
  <2>1. req[r].answer \in Outcome /\ req[r].phase = "durable"
      BY <1>1, <1>7 DEF Return, AttemptOK
  <2>2. AttemptOK([req[r] EXCEPT !.phase = "answered"])
      BY <1>1, <2>1 DEF AttemptOK, Attempt, Phase
  <2>3. Step
      BY <1>7, <2>2 DEF Return, MoveTo
  <2>4. lock' \in [Scope -> Request \cup {None}]
      BY <1>7 DEF Return, Release, TypeOK
  <2> QED
      BY <1>7, <2>3, <2>4, OneAttempt DEF Return, TypeOK, hostVars
<1> QED
    BY <1>2, <1>3, <1>4, <1>5, <1>6, <1>7

(* fail_all and cancel_connection, and the loss of threads at a restart. *)
LEMMA TypeFailing ==
    ASSUME TypeOK, NEW S
    PROVE  Failing(S) \in [Request -> Attempt] /\ \A r \in Request : AttemptOK(Failing(S)[r])
<1> SUFFICES ASSUME NEW r \in Request
             PROVE  AttemptOK(IF r \in S /\ req[r].phase = "sent"
                              THEN [req[r] EXCEPT !.phase = "replied", !.answer = "unknown"]
                              ELSE req[r])
    BY DEF Failing, AttemptOK
<1>1. AttemptOK(req[r])
    BY DEF TypeOK
<1> QED
    BY <1>1, AttemptTypes DEF Outcome, Phase

LEMMA TypeRestart ==
    ASSUME TypeOK, Restart
    PROVE  TypeOK'
<1> USE RecordsAssumption, RuntimeAssumption
<1> DEFINE Lost(a) ==
             IF a.phase \in {"idle", "answered", "lost"} THEN a
             ELSE [a EXCEPT !.phase = "lost",
                            !.answer = IF a.phase = "durable" THEN a.answer ELSE None]
<1>1. ASSUME NEW a, AttemptOK(a) PROVE AttemptOK(Lost(a)) /\ Lost(a) \in Attempt
    BY <1>1 DEF AttemptOK, Attempt, Phase
<1>2. \A r \in Request : AttemptOK(req[r])
    BY DEF TypeOK
<1>3. req' = [r \in Request |-> Lost(req[r])]
    BY DEF Restart
<1> HIDE DEF Lost
<1>4. req' \in [Request -> Attempt] /\ \A r \in Request : AttemptOK(req'[r])
    BY <1>1, <1>2, <1>3
<1>5. lock' \in [Scope -> Request \cup {None}]
    BY DEF Restart
<1>6. /\ UNCHANGED <<now, stamp, record, taskRow, command>>
      /\ lifecycle' \in RuntimeState /\ reader' = "idle" /\ disconnected' = TRUE
      /\ cancelled' = {} /\ restarts' = restarts + 1
    BY DEF Restart, RuntimeState
<1> QED
    BY <1>4, <1>5, <1>6 DEF TypeOK

LEMMA TypeStep == TypeOK /\ [Next]_vars => TypeOK'
<1> SUFFICES ASSUME TypeOK, [Next]_vars PROVE TypeOK'
    OBVIOUS
<1> USE RecordsAssumption, RuntimeAssumption
<1>1. ASSUME NEW r \in Request, NEW c \in Conn, NEW k \in Key, NEW i \in Input,
             Submit(r, c, k, i)
      PROVE  TypeOK'
  <2> DEFINE a == [req[r] EXCEPT !.phase = "received", !.conn = c, !.key = k, !.input = i]
  <2>1. AttemptOK(req[r])
      BY DEF TypeOK
  <2>2. AttemptOK(a)
      BY <2>1 DEF AttemptOK, Attempt, Phase
  <2>3. req' = [req EXCEPT ![r] = a]
      BY <1>1 DEF Submit
  <2> HIDE DEF a
  <2> QED
      BY <1>1, <2>2, <2>3, OneAttempt DEF Submit, TypeOK, hostVars
<1>2. ASSUME NEW r \in Request, Serve(r) PROVE TypeOK'
    BY <1>2, TypeLookup, TypeBegin, TypeSettle, TypeServe DEF Serve
<1>3. ASSUME NEW r \in Request, ExtensionExecutes(r) \/ ExtensionRefuses(r)
      PROVE  TypeOK'
    BY <1>3 DEF ExtensionExecutes, ExtensionRefuses, TypeOK, hostVars
<1>4. ASSUME NEW c \in Conn, Disconnect(c) \/ CloseTask(c) PROVE TypeOK'
    BY <1>4, TypeFailing DEF Disconnect, CloseTask, TypeOK, hostVars
<1>5. CASE DeleteTask
  <2>1. RowOK(NoRecord) /\ NoRecord \in Record
      BY DEF NoRecord, RowOK, Record, RecordState, Outcome
  <2> QED
      BY <1>5, <2>1 DEF DeleteTask, TypeOK, hostVars
<1>6. CASE HelloBegins \/ HelloEnds \/ SetPaused
    BY <1>6 DEF HelloBegins, HelloEnds, SetPaused, Shifted, TypeOK, RuntimeState
<1>7. CASE ExtensionDisconnected \/ StreamEnds
  <2>1. req' \in [Request -> Attempt] /\ \A r \in Request : AttemptOK(req'[r])
      BY <1>7, TypeFailing DEF ExtensionDisconnected, StreamEnds
  <2>2. /\ lifecycle' \in RuntimeState /\ disconnected' \in BOOLEAN
        /\ reader' \in {"idle", "hello", "ended"}
      BY <1>7 DEF ExtensionDisconnected, StreamEnds, Shifted, TypeOK, RuntimeState
  <2>3. UNCHANGED <<now, stamp, record, taskRow, lock, command, cancelled, restarts>>
      BY <1>7 DEF ExtensionDisconnected, StreamEnds
  <2> QED
      BY <2>1, <2>2, <2>3 DEF TypeOK
<1>8. CASE Restart
    BY <1>8, TypeRestart
<1>9. CASE Tick
    BY <1>9 DEF Tick, TypeOK, hostVars
<1>10. CASE UNCHANGED vars
    BY <1>10 DEF vars, TypeOK
<1> QED
    BY <1>1, <1>2, <1>3, <1>4, <1>5, <1>6, <1>7, <1>8, <1>9, <1>10 DEF Next

(* Rows, attempts and locks of the host always have the shape the code     *)
(* gives them; in particular every acknowledged answer carries an outcome. *)
THEOREM TypeCorrect == Spec => []TypeOK
    BY TypeInit, TypeStep, PTL DEF Spec

--------------------------------
(* At most one dispatch per key.  Only Begin dispatches; every other step  *)
(* keeps which attempt was dispatched when, and only Settle, DeleteTask,   *)
(* Begin and Tick touch what keeps later attempts out.                     *)

OnceInv == TypeOK /\ DispatchedStayOut /\ AtMostOnce

(* Nothing about the dispatched attempts changes, and none moves back to a *)
(* phase before its dispatch.                                              *)
SameDispatches ==
    \A r \in Request :
        /\ req'[r].begunAt = req[r].begunAt
        /\ Dispatched(r) => req'[r].key = req[r].key
        /\ req'[r].phase \in {"idle", "received", "queued", "locked", "admitted"}
             => req[r].phase \in {"idle", "received", "queued", "locked", "admitted"}

LEMMA FrameStep ==
    ASSUME OnceInv, TypeOK', SameDispatches, UNCHANGED stamp, now' >= now,
           taskRow = "deleted" => taskRow' = "deleted",
           \/ taskRow' = "deleted"
           \/ \A k \in Key : record[k].state # "absent"
                  => /\ record'[k].state # "absent"
                     /\ record'[k].at >= record[k].at \/ record'[k].at >= now
    PROVE  DispatchedStayOut' /\ AtMostOnce'
<1> USE RecordsAssumption, RuntimeAssumption
<1>1. now \in Nat /\ now' \in Nat /\ \A k \in Key : record[k].at \in Nat /\ record'[k].at \in Nat
    BY DEF OnceInv, TypeOK, RowOK, Record
<1>2. \A r \in Request : Dispatched(r)
        => req[r].begunAt \in Nat /\ KeyOf(r) \in Key
    BY DEF OnceInv, DispatchedStayOut, TypeOK, AttemptOK, Attempt, Dispatched, KeyOf
<1>3. ASSUME NEW r \in Request
      PROVE  /\ Dispatched(r)' <=> Dispatched(r)
             /\ Dispatched(r) => KeyOf(r)' = KeyOf(r) /\ req'[r].begunAt = req[r].begunAt
             /\ Dispatched(r) => (HonestStamp(r)' <=> HonestStamp(r))
    BY DEF SameDispatches, Dispatched, KeyOf, HonestStamp
<1>4. AtMostOnce'
    BY <1>3 DEF OnceInv, AtMostOnce
<1>5. ASSUME NEW r \in Request, Dispatched(r), HonestStamp(r) PROVE KeptOut(r)'
  <2>1. KeptOut(r)
      BY <1>5 DEF OnceInv, DispatchedStayOut
  <2>2. KeyOf(r)' = KeyOf(r) /\ req'[r].begunAt = req[r].begunAt
      BY <1>3, <1>5
  <2>3. req[r].begunAt <= now
      BY <1>5 DEF OnceInv, DispatchedStayOut
  <2> QED
      BY <1>1, <1>2, <1>5, <2>1, <2>2, <2>3 DEF KeptOut
<1>6. ASSUME NEW r \in Request, Dispatched(r) PROVE req'[r].begunAt <= now'
    BY <1>1, <1>2, <1>3, <1>6 DEF OnceInv, DispatchedStayOut
<1>7. ASSUME NEW r \in Request,
             req'[r].phase \in {"idle", "received", "queued", "locked", "admitted"}
      PROVE  ~Dispatched(r)'
    BY <1>3, <1>7 DEF SameDispatches, OnceInv, DispatchedStayOut
<1> QED
    BY <1>3, <1>4, <1>5, <1>6, <1>7 DEF DispatchedStayOut

(* A step that rewrites one attempt, not back to before its dispatch. *)
LEMMA OneAttemptDispatches ==
    ASSUME TypeOK, NEW r \in Request, NEW a,
           req' = [req EXCEPT ![r] = a],
           a.begunAt = req[r].begunAt,
           Dispatched(r) => a.key = req[r].key,
           a.phase \in {"idle", "received", "queued", "locked", "admitted"}
             => req[r].phase \in {"idle", "received", "queued", "locked", "admitted"}
    PROVE  SameDispatches
<1>1. req \in [Request -> Attempt]
    BY DEF TypeOK
<1> QED
    BY <1>1 DEF SameDispatches

LEMMA AnsweringDispatches ==
    ASSUME TypeOK, NEW r \in Request, NEW o,
           AnswerWith(r, o) \/ AnswerCached(r)
    PROVE  SameDispatches
<1>1. req[r] \in Attempt
    BY DEF TypeOK
<1>2. CASE AnswerWith(r, o)
  <2>1. PICK answer : req' = [req EXCEPT ![r] = [req[r] EXCEPT !.phase = "answered",
                                                               !.answer = answer]]
      BY <1>2 DEF AnswerWith
  <2> DEFINE a == [req[r] EXCEPT !.phase = "answered", !.answer = answer]
  <2>2. a.phase = "answered" /\ a.begunAt = req[r].begunAt /\ a.key = req[r].key
      BY <1>1 DEF Attempt
  <2> HIDE DEF a
  <2> QED
      BY <2>1, <2>2, OneAttemptDispatches DEF a
<1>3. CASE AnswerCached(r)
  <2>1. PICK answer : req' = [req EXCEPT ![r] = [req[r] EXCEPT !.phase = "answered",
                                                               !.answer = answer,
                                                               !.cached = TRUE]]
      BY <1>3 DEF AnswerCached
  <2> DEFINE a == [req[r] EXCEPT !.phase = "answered", !.answer = answer, !.cached = TRUE]
  <2>2. a.phase = "answered" /\ a.begunAt = req[r].begunAt /\ a.key = req[r].key
      BY <1>1 DEF Attempt
  <2> HIDE DEF a
  <2> QED
      BY <2>1, <2>2, OneAttemptDispatches DEF a
<1> QED
    BY <1>2, <1>3

(* The dispatch itself: whatever was dispatched for the key before would   *)
(* have kept this attempt out.                                             *)
LEMMA BeginStep ==
    ASSUME OnceInv, TypeOK', NEW r \in Request, Begin(r)
    PROVE  DispatchedStayOut' /\ AtMostOnce'
<1> USE RecordsAssumption, RuntimeAssumption
<1> DEFINE purged == [k \in Key |-> Purged(record[k], now)]
           a == [req[r] EXCEPT !.phase = "begun", !.begunAt = now]
<1>1. /\ KeyOf(r) \in Key /\ req \in [Request -> Attempt] /\ record \in [Key -> Record]
      /\ now \in Nat /\ stamp \in [Key -> Nat] /\ ~Dispatched(r)
      /\ AttemptOK(req[r]) /\ req[r].phase = "admitted"
    BY DEF Begin, OnceInv, DispatchedStayOut, TypeOK, AttemptOK, KeyOf
<1>2. UNCHANGED <<stamp, now, taskRow>>
    BY DEF Begin
<1>3. CASE UNCHANGED record /\ (AnswerWith(r, "not_started") \/ AnswerWith(r, "unknown")
                                 \/ AnswerCached(r))
  <2>1. SameDispatches
      BY <1>3, AnsweringDispatches DEF OnceInv
  <2> QED
      BY <1>1, <1>2, <1>3, <2>1, FrameStep DEF Record
<1>4. CASE /\ KeyAccepted(stamp[KeyOf(r)], now)
           /\ Decision(purged[KeyOf(r)], InputOf(r)) = "dispatch"
           /\ taskRow # "deleted"
           /\ record' = [purged EXCEPT ![KeyOf(r)] = StartedRecord(InputOf(r), now)]
           /\ req' = [req EXCEPT ![r] = a]
  <2>1. purged[KeyOf(r)].state = "absent"
      BY <1>4, <1>1 DEF Decision
  <2>2. /\ req'[r] = a /\ a.begunAt = now /\ a.key = req[r].key /\ a.phase = "begun"
        /\ \A q \in Request : q # r => req'[q] = req[q]
      BY <1>1, <1>4 DEF Attempt
  <2>3. /\ record'[KeyOf(r)].state = "started" /\ record'[KeyOf(r)].at = now
        /\ \A k \in Key : k # KeyOf(r) => record'[k] = Purged(record[k], now)
      BY <1>1, <1>4 DEF StartedRecord
  <2>4. ASSUME NEW q \in Request, Dispatched(q), HonestStamp(q)
        PROVE  /\ KeyOf(q) # KeyOf(r)
               /\ q # r
               /\ KeptOut(q)'
    <3>1. /\ KeptOut(q) /\ req[q].begunAt \in Nat /\ KeyOf(q) \in Key
          /\ stamp[KeyOf(q)] <= req[q].begunAt
        BY <2>4 DEF OnceInv, DispatchedStayOut, TypeOK, AttemptOK, Attempt, Dispatched,
                    KeyOf, HonestStamp
    <3>2. q # r
        BY <1>1, <2>4
    <3>3. record[KeyOf(q)].at \in Nat
        BY <1>1, <3>1 DEF Record
    <3>4. CASE req[q].begunAt < now - Retention
      <4>1. ~KeyAccepted(stamp[KeyOf(q)], now)
          BY <1>1, <3>1, <3>4 DEF KeyAccepted
      <4> QED
          BY <1>2, <1>4, <2>2, <3>2, <3>4, <4>1 DEF KeptOut, KeyOf
    <3>5. CASE ~(req[q].begunAt < now - Retention)
      <4>1. record[KeyOf(q)].state # "absent" /\ record[KeyOf(q)].at >= req[q].begunAt
          BY <1>4, <3>1, <3>5 DEF KeptOut
      <4>2. Purged(record[KeyOf(q)], now) = record[KeyOf(q)]
          BY <1>1, <3>1, <3>3, <3>5, <4>1 DEF Purged
      <4>3. KeyOf(q) # KeyOf(r)
          BY <2>1, <3>1, <4>1, <4>2
      <4> QED
          BY <2>2, <2>3, <3>1, <3>2, <4>1, <4>2, <4>3 DEF KeptOut, KeyOf
    <3> QED
        BY <3>4, <3>5
  <2>5. KeptOut(r)' /\ Dispatched(r)' /\ KeyOf(r)' = KeyOf(r) /\ req'[r].begunAt <= now'
    <3>1. req'[r].begunAt = now /\ KeyOf(r)' = KeyOf(r) /\ now # None
        BY <1>1, <2>2 DEF KeyOf
    <3>2. record'[KeyOf(r)'].state # "absent" /\ record'[KeyOf(r)'].at >= req'[r].begunAt
        BY <1>1, <2>3, <3>1
    <3> QED
        BY <1>1, <1>2, <3>1, <3>2 DEF KeptOut, Dispatched
  <2>6. ASSUME NEW q \in Request, q # r
        PROVE  /\ Dispatched(q)' <=> Dispatched(q)
               /\ KeyOf(q)' = KeyOf(q) /\ req'[q] = req[q]
               /\ HonestStamp(q)' <=> HonestStamp(q)
      BY <1>2, <2>2, <2>6 DEF Dispatched, KeyOf, HonestStamp
  <2>7. AtMostOnce'
    <3> SUFFICES ASSUME NEW q1 \in Request, NEW q2 \in Request,
                        Dispatched(q1)', Dispatched(q2)', KeyOf(q1)' = KeyOf(q2)',
                        HonestStamp(q1)', HonestStamp(q2)'
                 PROVE  q1 = q2
        BY DEF AtMostOnce
    <3> QED
        BY <2>4, <2>5, <2>6 DEF OnceInv, AtMostOnce
  <2>8. DispatchedStayOut'
    <3> SUFFICES ASSUME NEW q \in Request
                 PROVE  /\ Dispatched(q)' => /\ req'[q].begunAt <= now'
                                             /\ HonestStamp(q)' => KeptOut(q)'
                        /\ req'[q].phase \in {"idle", "received", "queued", "locked",
                                              "admitted"} => ~Dispatched(q)'
        BY DEF DispatchedStayOut
    <3>1. CASE q = r
        BY <2>2, <2>5, <3>1
    <3>2. CASE q # r
        BY <1>2, <2>4, <2>6, <3>2 DEF OnceInv, DispatchedStayOut
    <3> QED
        BY <3>1, <3>2
  <2> QED
      BY <2>7, <2>8
<1> QED
    BY <1>3, <1>4 DEF Begin

(* A thread that moves on without dispatching. *)
LEMMA ServeDispatches ==
    ASSUME TypeOK, NEW r \in Request,
           \/ Lookup(r) \/ Acquire(r) \/ Admit(r) \/ Dispatch(r) \/ NativeReply(r)
           \/ NativeTimeout(r) \/ Settle(r) \/ Return(r)
    PROVE  SameDispatches
<1> DEFINE Moves(p)       == req' = [req EXCEPT ![r] = [req[r] EXCEPT !.phase = p]]
           Answers(p, o)  == req' = [req EXCEPT ![r] = [req[r] EXCEPT !.phase = p, !.answer = o]]
           Early == {"idle", "received", "queued", "locked", "admitted"}
<1>1. req[r] \in Attempt
    BY DEF TypeOK
<1>2. ASSUME NEW p, Moves(p), p \in Early => req[r].phase \in Early
      PROVE  SameDispatches
  <2> DEFINE a == [req[r] EXCEPT !.phase = p]
  <2>1. a.phase = p /\ a.begunAt = req[r].begunAt /\ a.key = req[r].key
      BY <1>1 DEF Attempt
  <2> HIDE DEF a
  <2> QED
      BY <1>2, <2>1, OneAttemptDispatches DEF a
<1>3. ASSUME NEW p \in {"replied", "durable"}, NEW o, Answers(p, o)
      PROVE  SameDispatches
  <2> DEFINE a == [req[r] EXCEPT !.phase = p, !.answer = o]
  <2>1. a.phase = p /\ a.begunAt = req[r].begunAt /\ a.key = req[r].key
      BY <1>1 DEF Attempt
  <2> HIDE DEF a
  <2> QED
      BY <1>3, <2>1, OneAttemptDispatches DEF a
<1>4. CASE Lookup(r)
    BY <1>2, <1>4, AnsweringDispatches DEF Lookup, MoveTo
<1>5. CASE Acquire(r)
    BY <1>2, <1>5, AnsweringDispatches DEF Acquire, MoveTo
<1>6. CASE Admit(r)
    BY <1>2, <1>6, AnsweringDispatches DEF Admit, MoveTo
<1>7. CASE Dispatch(r)
    BY <1>2, <1>3, <1>7 DEF Dispatch, MoveTo
<1>8. CASE NativeReply(r)
    BY <1>3, <1>8 DEF NativeReply
<1>9. CASE NativeTimeout(r)
    BY <1>3, <1>9 DEF NativeTimeout
<1>10. CASE Settle(r)
    BY <1>3, <1>10 DEF Settle
<1>11. CASE Return(r)
    BY <1>2, <1>11 DEF Return, MoveTo
<1> QED
    BY <1>4, <1>5, <1>6, <1>7, <1>8, <1>9, <1>10, <1>11

LEMMA OnceInit == Init => OnceInv
<1> SUFFICES ASSUME Init PROVE OnceInv
    OBVIOUS
<1>1. \A r \in Request : ~Dispatched(r)
    BY DEF Init, IdleAttempt, Dispatched
<1> QED
    BY <1>1, TypeInit DEF OnceInv, DispatchedStayOut, AtMostOnce

LEMMA OnceStep == OnceInv /\ [Next]_vars => OnceInv'
<1> SUFFICES ASSUME OnceInv, [Next]_vars PROVE OnceInv'
    OBVIOUS
<1> USE RecordsAssumption, RuntimeAssumption
<1>1. TypeOK /\ TypeOK'
    BY TypeStep DEF OnceInv
<1>2. /\ now \in Nat /\ \A k \in Key : record[k].at \in Nat
      /\ record \in [Key -> Record] /\ req \in [Request -> Attempt]
    BY <1>1 DEF TypeOK, RowOK, Record
<1> DEFINE Goal == DispatchedStayOut' /\ AtMostOnce'
<1>3. ASSUME SameDispatches, UNCHANGED <<stamp, now, record>>,
             taskRow = "deleted" => taskRow' = "deleted"
      PROVE  Goal
    BY <1>1, <1>2, <1>3, FrameStep
<1> HIDE DEF Goal
<1>4. ASSUME NEW r \in Request, NEW c \in Conn, NEW k \in Key, NEW i \in Input,
             Submit(r, c, k, i)
      PROVE  Goal
  <2> DEFINE a == [req[r] EXCEPT !.phase = "received", !.conn = c, !.key = k, !.input = i]
  <2>1. req' = [req EXCEPT ![r] = a] /\ req[r].phase = "idle" /\ req[r] \in Attempt
      BY <1>2, <1>4 DEF Submit
  <2>2. ~Dispatched(r)
      BY <2>1 DEF OnceInv, DispatchedStayOut
  <2>3. a.begunAt = req[r].begunAt /\ a.phase = "received"
      BY <2>1 DEF Attempt
  <2> HIDE DEF a
  <2>4. SameDispatches
      BY <1>1, <2>1, <2>2, <2>3, OneAttemptDispatches
  <2> QED
      BY <1>3, <1>4, <2>4 DEF Submit
<1>5. ASSUME NEW r \in Request, Serve(r) PROVE Goal
  <2>1. CASE Begin(r)
      BY <1>1, <2>1, BeginStep DEF Goal
  <2>2. CASE Settle(r)
    <3>1. /\ UNCHANGED <<stamp, now, taskRow>>
          /\ \/ UNCHANGED record
             \/ \E answer : record' = [record EXCEPT ![KeyOf(r)] =
                               CompletedRecord(record[KeyOf(r)], answer, now)]
        BY <2>2 DEF Settle
    <3>2. \A k \in Key : \A answer :
             /\ CompletedRecord(record[k], answer, now).state = "completed"
             /\ CompletedRecord(record[k], answer, now).at = now
        BY <1>2 DEF CompletedRecord, Record
    <3>3. \A k \in Key : record[k].state # "absent"
             => /\ record'[k].state # "absent"
                /\ record'[k].at >= record[k].at \/ record'[k].at >= now
      <4>1. ASSUME NEW k \in Key PROVE record'[k] = record[k] \/
               (record'[k].state = "completed" /\ record'[k].at = now)
          BY <1>2, <3>1, <3>2
      <4> QED
          BY <1>2, <4>1
    <3> QED
        BY <1>1, <1>2, <2>2, <3>1, <3>3, ServeDispatches, FrameStep DEF Goal
  <2>3. CASE Lookup(r) \/ Acquire(r) \/ Admit(r) \/ Dispatch(r) \/ NativeReply(r)
             \/ NativeTimeout(r) \/ Return(r)
      BY <1>1, <1>3, <2>3, ServeDispatches
         DEF Lookup, Acquire, Admit, Dispatch, NativeReply, NativeTimeout, Return
  <2> QED
      BY <1>5, <2>1, <2>2, <2>3 DEF Serve
<1>6. ASSUME UNCHANGED req PROVE SameDispatches
    BY <1>6 DEF SameDispatches
<1>7. ASSUME NEW S, req' = Failing(S) PROVE SameDispatches
  <2> SUFFICES ASSUME NEW r \in Request
               PROVE  /\ req'[r].begunAt = req[r].begunAt /\ req'[r].key = req[r].key
                      /\ req'[r].phase = req[r].phase \/ req'[r].phase = "replied"
      BY DEF SameDispatches
  <2>1. req[r] \in Attempt
      BY <1>2
  <2> QED
      BY <1>7, <2>1 DEF Failing, Attempt
<1>8. ASSUME NEW r \in Request, ExtensionExecutes(r) \/ ExtensionRefuses(r) PROVE Goal
    BY <1>3, <1>6, <1>8 DEF ExtensionExecutes, ExtensionRefuses
<1>9. ASSUME NEW c \in Conn, Disconnect(c) \/ CloseTask(c) PROVE Goal
    BY <1>3, <1>7, <1>9 DEF Disconnect, CloseTask
<1>10. ASSUME DeleteTask PROVE Goal
    BY <1>1, <1>2, <1>6, <1>10, FrameStep DEF DeleteTask, Goal
<1>11. ASSUME HelloBegins \/ HelloEnds \/ SetPaused PROVE Goal
    BY <1>3, <1>6, <1>11 DEF HelloBegins, HelloEnds, SetPaused
<1>12. ASSUME ExtensionDisconnected \/ StreamEnds PROVE Goal
    BY <1>3, <1>7, <1>12 DEF ExtensionDisconnected, StreamEnds
<1>13. ASSUME Restart PROVE Goal
  <2>1. SameDispatches
    <3> SUFFICES ASSUME NEW r \in Request
                 PROVE  /\ req'[r].begunAt = req[r].begunAt /\ req'[r].key = req[r].key
                        /\ req'[r].phase = req[r].phase \/ req'[r].phase = "lost"
        BY DEF SameDispatches
    <3>1. req[r] \in Attempt
        BY <1>2
    <3> QED
        BY <1>13, <3>1 DEF Restart, Attempt
  <2> QED
      BY <1>3, <1>13, <2>1 DEF Restart
<1>14. ASSUME Tick PROVE Goal
    BY <1>1, <1>2, <1>6, <1>14, FrameStep DEF Tick, Goal
<1>15. ASSUME UNCHANGED vars PROVE Goal
    BY <1>3, <1>6, <1>15 DEF vars
<1> QED
    BY <1>1, <1>4, <1>5, <1>8, <1>9, <1>10, <1>11, <1>12, <1>13, <1>14, <1>15
       DEF Next, OnceInv, Goal

(* A key whose timestamp was not ahead of the host's clock is dispatched   *)
(* at most once: over any number of retries and restarts, through the      *)
(* purge of its row and the deletion of its task.                          *)
THEOREM DispatchedOnce == Spec => []AtMostOnce
<1>1. Spec => []OnceInv
    BY OnceInit, OnceStep, PTL DEF Spec
<1>2. OnceInv => AtMostOnce
    BY DEF OnceInv
<1> QED
    BY <1>1, <1>2, PTL

--------------------------------
(* How a thread rewrites its attempt, field by field: the proofs below say *)
(* nothing of req but through these facts.                                 *)

Rewrites(r) ==
    /\ \A q \in Request : q # r => req'[q] = req[q]
    /\ req'[r].conn = req[r].conn /\ req'[r].key = req[r].key
    /\ req'[r].input = req[r].input

SameButPhase(r, phase) ==
    /\ Rewrites(r)
    /\ req'[r].phase = phase
    /\ req'[r].answer = req[r].answer
    /\ req'[r].begunAt = req[r].begunAt /\ req'[r].cached = req[r].cached

SameButAnswer(r, phase, answers) ==
    /\ Rewrites(r)
    /\ req'[r].phase = phase
    /\ req'[r].answer \in answers
    /\ req'[r].begunAt = req[r].begunAt /\ req'[r].cached = req[r].cached

TakesStored(r) ==
    /\ Rewrites(r)
    /\ req'[r].phase = "answered"
    /\ req'[r].answer \in {record[KeyOf(r)].answer, "unknown"}
    /\ req'[r].begunAt = req[r].begunAt /\ req'[r].cached

Inserts(r) ==
    /\ Rewrites(r)
    /\ req'[r].phase = "begun" /\ req'[r].begunAt = now
    /\ req'[r].answer = req[r].answer /\ req'[r].cached = req[r].cached

LEMMA MoveFacts ==
    ASSUME TypeOK, NEW r \in Request, NEW p, MoveTo(r, p)
    PROVE  SameButPhase(r, p)
<1>1. req \in [Request -> Attempt] /\ req[r] \in Attempt
    BY DEF TypeOK
<1> QED
    BY <1>1 DEF MoveTo, SameButPhase, Rewrites, Attempt

LEMMA AnswerFacts ==
    ASSUME TypeOK, NEW r \in Request, NEW p, NEW o,
           req' = [req EXCEPT ![r] = [@ EXCEPT !.phase = p, !.answer = o]]
    PROVE  SameButAnswer(r, p, {o})
<1>1. req \in [Request -> Attempt] /\ req[r] \in Attempt
    BY DEF TypeOK
<1> QED
    BY <1>1 DEF SameButAnswer, Rewrites, Attempt

LEMMA DispatchFacts ==
    ASSUME TypeOK, NEW r \in Request, Dispatch(r)
    PROVE  \/ SameButPhase(r, "sent") /\ ~disconnected
              /\ command' = [command EXCEPT ![r] = "queued"]
           \/ SameButAnswer(r, "replied", {"not_started", "unknown"}) /\ UNCHANGED command
<1>1. CASE MoveTo(r, "sent") /\ ~disconnected /\ command' = [command EXCEPT ![r] = "queued"]
    BY <1>1, MoveFacts
<1>2. CASE /\ \E a \in {"not_started", "unknown"} :
                req' = [req EXCEPT ![r] = [@ EXCEPT !.phase = "replied", !.answer = a]]
           /\ UNCHANGED command
  <2>1. PICK a \in {"not_started", "unknown"} :
             req' = [req EXCEPT ![r] = [@ EXCEPT !.phase = "replied", !.answer = a]]
      BY <1>2
  <2> QED
      BY <1>2, <2>1, AnswerFacts DEF SameButAnswer
<1> QED
    BY <1>1, <1>2 DEF Dispatch

LEMMA ReplyFacts ==
    ASSUME TypeOK, NEW r \in Request, NativeReply(r)
    PROVE  \/ command[r] = "executed" /\ SameButAnswer(r, "replied", {"completed", "unknown"})
           \/ /\ command[r] \in {"denied", "refused"}
              /\ SameButAnswer(r, "replied", {"not_started", "unknown"})
<1>1. PICK o \in Outcome :
         /\ \/ command[r] = "executed" /\ o \in {"completed", "unknown"}
            \/ command[r] \in {"denied", "refused"} /\ o \in {"not_started", "unknown"}
         /\ req' = [req EXCEPT ![r] = [@ EXCEPT !.phase = "replied", !.answer = o]]
    BY DEF NativeReply
<1>2. CASE command[r] = "executed"
    BY <1>1, <1>2, AnswerFacts DEF SameButAnswer
<1>3. CASE command[r] \in {"denied", "refused"}
    BY <1>1, <1>3, AnswerFacts DEF SameButAnswer
<1> QED
    BY <1>1, <1>2, <1>3

LEMMA SettleFacts ==
    ASSUME TypeOK, NEW r \in Request, Settle(r)
    PROVE  \E a \in {req[r].answer, "unknown"} :
             /\ SameButAnswer(r, "durable", {a})
             /\ \/ /\ CanComplete(record[KeyOf(r)])
                   /\ record' = [record EXCEPT ![KeyOf(r)] =
                                    CompletedRecord(record[KeyOf(r)], a, now)]
                \/ a = "unknown" /\ UNCHANGED record
<1>1. PICK a \in {req[r].answer, "unknown"} :
        /\ req' = [req EXCEPT ![r] = [@ EXCEPT !.phase = "durable", !.answer = a]]
        /\ \/ /\ CanComplete(record[KeyOf(r)])
              /\ record' = [record EXCEPT ![KeyOf(r)] =
                               CompletedRecord(record[KeyOf(r)], a, now)]
           \/ a = "unknown" /\ UNCHANGED record
    BY DEF Settle
<1> QED
    BY <1>1, AnswerFacts

LEMMA EarlyAnswerFacts ==
    ASSUME TypeOK, NEW r \in Request, NEW o, AnswerWith(r, o)
    PROVE  SameButAnswer(r, "answered", {o, "unknown"})
<1>1. PICK a \in {o, "unknown"} :
         req' = [req EXCEPT ![r] = [@ EXCEPT !.phase = "answered", !.answer = a]]
    BY DEF AnswerWith
<1> QED
    BY <1>1, AnswerFacts DEF SameButAnswer

LEMMA CachedFacts ==
    ASSUME TypeOK, NEW r \in Request, AnswerCached(r)
    PROVE  TakesStored(r)
<1>1. req \in [Request -> Attempt] /\ req[r] \in Attempt
    BY DEF TypeOK
<1>2. PICK a \in {record[KeyOf(r)].answer, "unknown"} :
         req' = [req EXCEPT ![r] = [@ EXCEPT !.phase = "answered", !.answer = a,
                                       !.cached = TRUE]]
    BY DEF AnswerCached
<1> QED
    BY <1>1, <1>2 DEF TakesStored, Rewrites, Attempt

LEMMA InsertFacts ==
    ASSUME TypeOK, NEW r \in Request,
           req' = [req EXCEPT ![r] = [@ EXCEPT !.phase = "begun", !.begunAt = now]]
    PROVE  Inserts(r)
<1>1. req \in [Request -> Attempt] /\ req[r] \in Attempt
    BY DEF TypeOK
<1> QED
    BY <1>1 DEF Inserts, Rewrites, Attempt

--------------------------------
(* One thread per lock scope.  SerializedPerScope says nothing of the lock; *)
(* what is inductive is that a thread between Acquire and Return is the     *)
(* one its scope's lock names.                                              *)

Holding == {"locked", "admitted", "begun", "sent", "replied", "durable"}

HoldersLock == \A r \in Request : req[r].phase \in Holding => lock[ScopeOfReq(r)] = r

(* A thread that rewrites its own attempt keeps the lock, takes a free one  *)
(* or gives its own back.                                                   *)
LEMMA OneThreadHolds ==
    ASSUME TypeOK, HoldersLock, NEW r \in Request, Rewrites(r), req[r].phase # "idle",
           \/ UNCHANGED lock /\ (req'[r].phase \in Holding => req[r].phase \in Holding)
           \/ /\ lock[ScopeOfReq(r)] = None
              /\ lock' = [lock EXCEPT ![ScopeOfReq(r)] = r]
           \/ req[r].phase \in Holding /\ req'[r].phase \notin Holding /\ Release(r)
    PROVE  HoldersLock'
<1> USE RecordsAssumption, RuntimeAssumption
<1>1. /\ lock \in [Scope -> Request \cup {None}] /\ r # None
      /\ \A q \in Request : req[q].phase # "idle" => ScopeOfReq(q) \in Scope
    BY DEF TypeOK, AttemptOK, ScopeOfReq
<1>2. \A q \in Request : ScopeOfReq(q)' = ScopeOfReq(q)
    BY DEF ScopeOfReq, Rewrites
<1>3. "idle" \notin Holding
    BY DEF Holding
<1>4. CASE UNCHANGED lock /\ (req'[r].phase \in Holding => req[r].phase \in Holding)
    BY <1>2, <1>4 DEF HoldersLock, Rewrites
<1>5. CASE lock[ScopeOfReq(r)] = None /\ lock' = [lock EXCEPT ![ScopeOfReq(r)] = r]
    BY <1>1, <1>2, <1>3, <1>5 DEF HoldersLock, Rewrites
<1>6. CASE req[r].phase \in Holding /\ req'[r].phase \notin Holding /\ Release(r)
    BY <1>1, <1>2, <1>3, <1>6 DEF HoldersLock, Release, Rewrites
<1> QED
    BY <1>4, <1>5, <1>6

LEMMA ServeHolds ==
    ASSUME TypeOK, HoldersLock, NEW r \in Request, Serve(r)
    PROVE  HoldersLock'
<1> USE DEF SameButPhase, SameButAnswer, TakesStored, Inserts, Holding
<1>1. CASE Lookup(r)
  <2>1. /\ UNCHANGED lock /\ req[r].phase = "received" /\ Rewrites(r)
        /\ req'[r].phase \in {"answered", "queued"}
      BY <1>1, MoveFacts, EarlyAnswerFacts, CachedFacts DEF Lookup
  <2> QED
      BY <2>1, OneThreadHolds
<1>2. CASE Acquire(r)
  <2>1. /\ req[r].phase = "queued" /\ Rewrites(r)
        /\ \/ UNCHANGED lock /\ req'[r].phase = "answered"
           \/ /\ lock[ScopeOfReq(r)] = None
              /\ lock' = [lock EXCEPT ![ScopeOfReq(r)] = r]
      BY <1>2, MoveFacts, EarlyAnswerFacts DEF Acquire
  <2> QED
      BY <2>1, OneThreadHolds
<1>3. CASE Admit(r)
  <2>1. /\ req[r].phase = "locked" /\ Rewrites(r)
        /\ \/ UNCHANGED lock
           \/ req'[r].phase = "answered" /\ Release(r)
      BY <1>3, MoveFacts, EarlyAnswerFacts DEF Admit
  <2> QED
      BY <2>1, OneThreadHolds
<1>4. CASE Begin(r)
  <2>1. /\ req[r].phase = "admitted" /\ Rewrites(r)
        /\ \/ UNCHANGED lock
           \/ req'[r].phase = "answered" /\ Release(r)
      BY <1>4, InsertFacts, EarlyAnswerFacts, CachedFacts DEF Begin
  <2> QED
      BY <2>1, OneThreadHolds
<1>5. CASE Dispatch(r)
    BY <1>5, DispatchFacts, OneThreadHolds DEF Dispatch
<1>6. CASE NativeReply(r)
    BY <1>6, ReplyFacts, OneThreadHolds DEF NativeReply
<1>7. CASE NativeTimeout(r)
    BY <1>7, AnswerFacts, OneThreadHolds DEF NativeTimeout
<1>8. CASE Settle(r)
    BY <1>8, SettleFacts, OneThreadHolds DEF Settle
<1>9. CASE Return(r)
    BY <1>9, MoveFacts, OneThreadHolds DEF Return
<1> QED
    BY <1>1, <1>2, <1>3, <1>4, <1>5, <1>6, <1>7, <1>8, <1>9 DEF Serve

LEMMA HoldersLockStep == TypeOK /\ HoldersLock /\ [Next]_vars => HoldersLock'
<1> SUFFICES ASSUME TypeOK, HoldersLock, [Next]_vars PROVE HoldersLock'
    OBVIOUS
<1>1. req \in [Request -> Attempt]
    BY DEF TypeOK
<1>2. ASSUME NEW r \in Request, NEW c \in Conn, NEW k \in Key, NEW i \in Input,
             Submit(r, c, k, i)
      PROVE  HoldersLock'
  <2>1. UNCHANGED lock
      BY <1>2 DEF Submit
  <2>2. \A q \in Request : req'[q].phase \in Holding => req'[q] = req[q]
      BY <1>1, <1>2 DEF Submit, Holding, Attempt
  <2> QED
      BY <2>1, <2>2 DEF HoldersLock, ScopeOfReq
<1>3. ASSUME NEW r \in Request, Serve(r) PROVE HoldersLock'
    BY <1>3, ServeHolds
<1>4. ASSUME UNCHANGED lock,
             \A q \in Request : /\ req'[q].phase \in Holding => req[q].phase \in Holding
                                /\ req'[q].input = req[q].input
      PROVE  HoldersLock'
    BY <1>4 DEF HoldersLock, ScopeOfReq
<1>5. ASSUME NEW S, req' = Failing(S), UNCHANGED lock PROVE HoldersLock'
  <2>1. \A q \in Request : /\ req'[q].phase \in Holding => req[q].phase \in Holding
                           /\ req'[q].input = req[q].input
      BY <1>1, <1>5 DEF Failing, Attempt, Holding
  <2> QED
      BY <1>4, <1>5, <2>1
<1>6. ASSUME NEW c \in Conn, Disconnect(c) \/ CloseTask(c) PROVE HoldersLock'
    BY <1>5, <1>6 DEF Disconnect, CloseTask
<1>7. CASE ExtensionDisconnected \/ StreamEnds
    BY <1>5, <1>7 DEF ExtensionDisconnected, StreamEnds
<1>8. CASE Restart
  <2>1. \A q \in Request : req'[q].phase \notin Holding
      BY <1>1, <1>8 DEF Restart, Attempt, Holding
  <2> QED
      BY <2>1 DEF HoldersLock
<1>9. ASSUME NEW r \in Request, ExtensionExecutes(r) \/ ExtensionRefuses(r) PROVE HoldersLock'
    BY <1>4, <1>9 DEF ExtensionExecutes, ExtensionRefuses
<1>10. CASE DeleteTask \/ HelloBegins \/ HelloEnds \/ SetPaused \/ Tick \/ UNCHANGED vars
    BY <1>4, <1>10 DEF DeleteTask, HelloBegins, HelloEnds, SetPaused, Tick, vars
<1> QED
    BY <1>2, <1>3, <1>6, <1>7, <1>8, <1>9, <1>10 DEF Next

(* Between admission and acknowledgement a thread is alone in its lock      *)
(* scope, for any scopes and however connections, the extension and the     *)
(* host come and go (request_lock_scope, request_lock_key).                 *)
THEOREM OneThreadPerScope == Spec => []SerializedPerScope
<1>1. Init => HoldersLock
    BY DEF Init, IdleAttempt, HoldersLock, Holding
<1>2. HoldersLock => SerializedPerScope
    BY DEF HoldersLock, SerializedPerScope, Holding
<1> QED
    BY <1>1, <1>2, HoldersLockStep, TypeCorrect, PTL DEF Spec
--------------------------------
(* A not_started is the extension's word, or true.  The invariant follows   *)
(* it from the command through the answer of the dispatched attempt into    *)
(* the row it stores, and from the row into the answers replayed from it.   *)

Ended == {"durable", "answered", "lost"}

CommandsFollowDispatch ==
    \A r \in Request :
        /\ ~Dispatched(r) \/ req[r].phase = "begun" => command[r] = "none"
        /\ req[r].phase \in {"begun", "sent", "replied", "durable"} => Dispatched(r)
        /\ req[r].cached => req[r].phase = "answered" /\ ~Dispatched(r)

AnswersMatchCommand ==
    \A r \in Request :
        Dispatched(r) /\ req[r].phase \in Ended \cup {"replied"}
          => /\ req[r].answer = "not_started" => command[r] \in Deniable
             /\ req[r].answer = "completed" => command[r] = "executed"

(* Attempt r was dispatched for k, has ended, and never ran. *)
Excuses(r, k) ==
    /\ Dispatched(r) /\ KeyOf(r) = k
    /\ req[r].phase \in Ended
    /\ command[r] \in Deniable

StoredAreExcused ==
    \A k \in Key :
        record[k].state = "completed" /\ record[k].answer = "not_started"
          => \E r \in Request : Excuses(r, k)

ReplayedAreExcused ==
    \A r \in Request :
        req[r].phase = "answered" /\ req[r].cached /\ req[r].answer = "not_started"
          => \E q \in Request : Excuses(q, KeyOf(r))

TruthInv ==
    /\ CommandsFollowDispatch /\ AnswersMatchCommand
    /\ StoredAreExcused /\ ReplayedAreExcused

(* Steps that touch no command and store nothing, and after which a         *)
(* dispatched attempt has no definite answer that it did not have before.   *)
Quiet ==
    /\ UNCHANGED command
    /\ \A k \in Key : record'[k] = record[k] \/ record'[k].state # "completed"
    /\ \A r \in Request :
         /\ req'[r].begunAt = req[r].begunAt /\ req'[r].cached = req[r].cached
         /\ req[r].phase # "idle" => req'[r].key = req[r].key
         /\ req[r].phase \in Ended => req'[r].phase \in Ended
         /\ req[r].cached => req'[r] = req[r]
         /\ req'[r].phase = "begun" => req[r].phase = "begun"
         /\ req'[r].phase \in {"sent", "replied", "durable"}
              => req[r].phase \in {"begun", "sent", "replied", "durable"}
         /\ \/ ~Dispatched(r)
            \/ req'[r].answer \in {None, "unknown"}
            \/ req'[r].phase \notin Ended \cup {"replied"}
            \/ /\ req[r].phase \in Ended \cup {"replied"}
               /\ req'[r].answer = req[r].answer

LEMMA QuietTruth ==
    ASSUME OnceInv, TruthInv, TypeOK', Quiet
    PROVE  TruthInv'
<1> USE RecordsAssumption, RuntimeAssumption
<1>1. \A r \in Request : /\ Dispatched(r)' <=> Dispatched(r)
                         /\ req[r].phase # "idle" => KeyOf(r)' = KeyOf(r)
    BY DEF Quiet, Dispatched, KeyOf
<1>2. \A r \in Request : Dispatched(r) => req[r].phase # "idle"
    BY DEF OnceInv, DispatchedStayOut
<1>3. ASSUME NEW r \in Request, NEW k, Excuses(r, k) PROVE Excuses(r, k)'
    BY <1>1, <1>2, <1>3 DEF Quiet, Excuses
<1>4. CommandsFollowDispatch'
  <2> SUFFICES ASSUME NEW r \in Request
               PROVE  /\ ~Dispatched(r)' \/ req'[r].phase = "begun" => command'[r] = "none"
                      /\ req'[r].phase \in {"begun", "sent", "replied", "durable"}
                           => Dispatched(r)'
                      /\ req'[r].cached => req'[r].phase = "answered" /\ ~Dispatched(r)'
      BY DEF CommandsFollowDispatch
  <2> QED
      BY <1>1 DEF Quiet, TruthInv, CommandsFollowDispatch
<1>5. AnswersMatchCommand'
    BY <1>1 DEF Quiet, TruthInv, AnswersMatchCommand, Outcome
<1>6. StoredAreExcused'
  <2> SUFFICES ASSUME NEW k \in Key, record'[k].state = "completed",
                      record'[k].answer = "not_started"
               PROVE  \E r \in Request : Excuses(r, k)'
      BY DEF StoredAreExcused
  <2>1. record[k] = record'[k]
      BY DEF Quiet
  <2> QED
      BY <1>3, <2>1 DEF TruthInv, StoredAreExcused
<1>7. ReplayedAreExcused'
  <2> SUFFICES ASSUME NEW r \in Request, req'[r].phase = "answered", req'[r].cached,
                      req'[r].answer = "not_started"
               PROVE  \E q \in Request : Excuses(q, KeyOf(r))'
      BY DEF ReplayedAreExcused
  <2>1. req'[r] = req[r]
      BY DEF Quiet
  <2>2. PICK q \in Request : Excuses(q, KeyOf(r))
      BY <2>1 DEF TruthInv, ReplayedAreExcused
  <2>3. Excuses(q, KeyOf(r))'
      BY <1>3, <2>1, <2>2 DEF Excuses, KeyOf
  <2> QED
      BY <2>3
<1> QED
    BY <1>4, <1>5, <1>6, <1>7 DEF TruthInv

(* A thread that answers or moves on before anything was dispatched.       *)
LEMMA EarlyQuiet ==
    ASSUME OnceInv, TruthInv, NEW r \in Request, Rewrites(r), UNCHANGED <<command, record>>,
           req[r].phase \in {"received", "queued", "locked", "admitted"},
           req'[r].phase \in {"queued", "locked", "admitted", "answered"},
           req'[r].begunAt = req[r].begunAt, req'[r].cached = req[r].cached
    PROVE  Quiet
<1>1. ~Dispatched(r) /\ ~req[r].cached
    BY DEF OnceInv, DispatchedStayOut, TruthInv, CommandsFollowDispatch
<1>2. req[r].cached \in BOOLEAN
    BY DEF OnceInv, TypeOK, Attempt
<1> QED
    BY <1>1, <1>2 DEF Quiet, Rewrites, Ended

(* A thread that leaves its command's outcome open, or that had it already. *)
LEMMA LateQuiet ==
    ASSUME OnceInv, TruthInv, NEW r \in Request, Rewrites(r), UNCHANGED <<command, record>>,
           req[r].phase \in {"begun", "sent", "replied", "durable"},
           \/ req'[r].phase \in {"replied", "durable"} /\ req'[r].answer = "unknown"
           \/ /\ req[r].phase = "durable" /\ req'[r].phase = "answered"
              /\ req'[r].answer = req[r].answer,
           req[r].phase = "durable" => req'[r].phase = "answered",
           req'[r].begunAt = req[r].begunAt, req'[r].cached = req[r].cached
    PROVE  Quiet
<1>1. ~req[r].cached
    BY DEF TruthInv, CommandsFollowDispatch
<1> QED
    BY <1>1 DEF Quiet, Rewrites, Ended

(* An answer replayed from a row the attempt that stored it excuses.        *)
LEMMA ReplayTruth ==
    ASSUME OnceInv, TruthInv, TypeOK', NEW r \in Request, TakesStored(r),
           UNCHANGED <<command, record>>, KeyOf(r) \in Key,
           record[KeyOf(r)].state = "completed",
           req[r].phase \in {"received", "admitted"}
    PROVE  TruthInv'
<1>1. ~Dispatched(r) /\ ~Dispatched(r)'
    BY DEF OnceInv, DispatchedStayOut, TakesStored, Dispatched
<1>2. ASSUME NEW q \in Request, NEW k, Excuses(q, k) PROVE Excuses(q, k)' /\ q # r
    BY <1>1, <1>2 DEF TakesStored, Rewrites, Excuses, Dispatched, KeyOf
<1>3. CommandsFollowDispatch' /\ AnswersMatchCommand'
    BY <1>1 DEF TakesStored, Rewrites, TruthInv, CommandsFollowDispatch,
                AnswersMatchCommand, Dispatched
<1>4. StoredAreExcused'
    BY <1>2 DEF TruthInv, StoredAreExcused
<1>5. ReplayedAreExcused'
  <2> SUFFICES ASSUME NEW q \in Request, req'[q].phase = "answered", req'[q].cached,
                      req'[q].answer = "not_started"
               PROVE  \E p \in Request : Excuses(p, KeyOf(q))'
      BY DEF ReplayedAreExcused
  <2>1. KeyOf(q)' = KeyOf(q)
      BY DEF TakesStored, Rewrites, KeyOf
  <2>2. PICK p \in Request : Excuses(p, KeyOf(q))
      BY DEF TakesStored, Rewrites, TruthInv, ReplayedAreExcused, StoredAreExcused
  <2>3. Excuses(p, KeyOf(q))'
      BY <1>2, <2>1, <2>2 DEF Excuses
  <2> QED
      BY <2>3
<1> QED
    BY <1>3, <1>4, <1>5 DEF TruthInv

(* A thread that inserts its started row, after the purge.                  *)
LEMMA InsertTruth ==
    ASSUME OnceInv, TruthInv, TypeOK', NEW r \in Request, Inserts(r), UNCHANGED command,
           req[r].phase = "admitted",
           \A k \in Key : record'[k] = record[k] \/ record'[k].state # "completed"
    PROVE  TruthInv'
<1> USE RuntimeAssumption
<1>1. ~Dispatched(r) /\ Dispatched(r)' /\ ~req[r].cached /\ ~req'[r].cached
    BY DEF OnceInv, TypeOK, DispatchedStayOut, Inserts, Dispatched, TruthInv,
           CommandsFollowDispatch
<1>2. ASSUME NEW q \in Request, NEW k, Excuses(q, k) PROVE Excuses(q, k)'
    BY <1>1, <1>2 DEF Inserts, Rewrites, Excuses, Dispatched, KeyOf
<1>3. CommandsFollowDispatch' /\ AnswersMatchCommand'
    BY <1>1 DEF Inserts, Rewrites, TruthInv, CommandsFollowDispatch,
                AnswersMatchCommand, Dispatched, Ended
<1>4. StoredAreExcused'
    BY <1>2 DEF TruthInv, StoredAreExcused
<1>5. ReplayedAreExcused'
  <2> SUFFICES ASSUME NEW q \in Request, req'[q].phase = "answered", req'[q].cached,
                      req'[q].answer = "not_started"
               PROVE  \E p \in Request : Excuses(p, KeyOf(q))'
      BY DEF ReplayedAreExcused
  <2>1. q # r /\ req'[q] = req[q]
      BY <1>1 DEF Inserts, Rewrites
  <2>2. PICK p \in Request : Excuses(p, KeyOf(q))
      BY <2>1 DEF TruthInv, ReplayedAreExcused
  <2>3. Excuses(p, KeyOf(q))'
      BY <1>2, <2>1, <2>2 DEF Excuses, KeyOf
  <2> QED
      BY <2>3
<1> QED
    BY <1>3, <1>4, <1>5 DEF TruthInv

(* A step of a dispatched thread that has not ended, or of the extension on *)
(* its command: nothing that excuses anybody changes.                       *)
LEMMA RunningTruth ==
    ASSUME OnceInv, TruthInv, TypeOK', NEW r \in Request, Rewrites(r), UNCHANGED record,
           \A q \in Request : q # r => command'[q] = command[q],
           Dispatched(r), req'[r].begunAt = req[r].begunAt,
           ~req[r].cached, ~req'[r].cached,
           ~Excuses(r, KeyOf(r)),
           req'[r].phase = "begun" => command'[r] = "none",
           req'[r].phase \in Ended \cup {"replied"}
             => /\ req'[r].answer = "not_started" => command'[r] \in Deniable
                /\ req'[r].answer = "completed" => command'[r] = "executed"
    PROVE  TruthInv'
<1>1. \A q \in Request : /\ Dispatched(q)' <=> Dispatched(q)
                         /\ KeyOf(q)' = KeyOf(q)
    BY DEF Rewrites, Dispatched, KeyOf
<1>2. ASSUME NEW q \in Request, NEW k, Excuses(q, k) PROVE Excuses(q, k)'
    BY <1>1, <1>2 DEF Rewrites, Excuses
<1>3. CommandsFollowDispatch' /\ AnswersMatchCommand'
    BY <1>1 DEF Rewrites, TruthInv, CommandsFollowDispatch, AnswersMatchCommand
<1>4. StoredAreExcused'
    BY <1>2 DEF TruthInv, StoredAreExcused
<1>5. ReplayedAreExcused'
  <2> SUFFICES ASSUME NEW q \in Request, req'[q].phase = "answered", req'[q].cached,
                      req'[q].answer = "not_started"
               PROVE  \E p \in Request : Excuses(p, KeyOf(q))'
      BY DEF ReplayedAreExcused
  <2>1. q # r /\ req'[q] = req[q]
      BY DEF Rewrites
  <2>2. PICK p \in Request : Excuses(p, KeyOf(q))
      BY <2>1 DEF TruthInv, ReplayedAreExcused
  <2>3. Excuses(p, KeyOf(q))'
      BY <1>2, <2>1, <2>2 DEF Excuses, KeyOf
  <2> QED
      BY <2>3
<1> QED
    BY <1>3, <1>4, <1>5 DEF TruthInv

(* The answer of a dispatched attempt becomes its row's.                    *)
LEMMA StoreTruth ==
    ASSUME OnceInv, TruthInv, TypeOK', NEW r \in Request, UNCHANGED command,
           req[r].phase = "replied",
           NEW a \in {req[r].answer, "unknown"}, SameButAnswer(r, "durable", {a}),
           record' = [record EXCEPT ![KeyOf(r)] = CompletedRecord(record[KeyOf(r)], a, now)]
    PROVE  TruthInv'
<1>1. /\ Dispatched(r) /\ Dispatched(r)' /\ ~req[r].cached /\ ~req'[r].cached
      /\ a = "not_started" => command[r] \in Deniable
      /\ a = "completed" => command[r] = "executed"
      /\ req'[r].answer = a /\ KeyOf(r)' = KeyOf(r)
    BY DEF TruthInv, CommandsFollowDispatch, AnswersMatchCommand, SameButAnswer,
           Rewrites, Dispatched, KeyOf
<1>2. ASSUME NEW q \in Request, NEW k, Excuses(q, k) PROVE Excuses(q, k)'
    BY <1>1, <1>2 DEF SameButAnswer, Rewrites, Excuses, Dispatched, KeyOf, Ended
<1>3. a = "not_started" => Excuses(r, KeyOf(r))'
    BY <1>1 DEF Excuses, SameButAnswer, Ended
<1>4. CommandsFollowDispatch' /\ AnswersMatchCommand'
    BY <1>1 DEF SameButAnswer, Rewrites, TruthInv, CommandsFollowDispatch,
                AnswersMatchCommand, Dispatched
<1>5. StoredAreExcused'
  <2> SUFFICES ASSUME NEW k \in Key, record'[k].state = "completed",
                      record'[k].answer = "not_started"
               PROVE  \E q \in Request : Excuses(q, k)'
      BY DEF StoredAreExcused
  <2>1. record \in [Key -> Record]
      BY DEF OnceInv, TypeOK
  <2>2. CASE k = KeyOf(r)
    <3>1. record'[k].answer = a
        BY <2>1, <2>2 DEF CompletedRecord, Record
    <3> QED
        BY <1>1, <1>3, <2>2, <3>1 DEF Excuses
  <2>3. CASE k # KeyOf(r)
      BY <1>2, <2>1, <2>3 DEF TruthInv, StoredAreExcused
  <2> QED
      BY <2>2, <2>3
<1>6. ReplayedAreExcused'
  <2> SUFFICES ASSUME NEW q \in Request, req'[q].phase = "answered", req'[q].cached,
                      req'[q].answer = "not_started"
               PROVE  \E p \in Request : Excuses(p, KeyOf(q))'
      BY DEF ReplayedAreExcused
  <2>1. q # r /\ req'[q] = req[q]
      BY <1>1 DEF SameButAnswer, Rewrites
  <2>2. PICK p \in Request : Excuses(p, KeyOf(q))
      BY <2>1 DEF TruthInv, ReplayedAreExcused
  <2>3. Excuses(p, KeyOf(q))'
      BY <1>2, <2>1, <2>2 DEF Excuses, KeyOf
  <2> QED
      BY <2>3
<1> QED
    BY <1>4, <1>5, <1>6 DEF TruthInv

LEMMA ServeTruth ==
    ASSUME OnceInv, TruthInv, TypeOK', NEW r \in Request, Serve(r)
    PROVE  TruthInv'
<1> USE RecordsAssumption, RuntimeAssumption
<1>1. /\ TypeOK /\ record \in [Key -> Record]
      /\ req[r].phase # "idle" => KeyOf(r) \in Key
      /\ req[r].phase \in {"begun", "sent", "replied", "durable"}
           => Dispatched(r) /\ ~req[r].cached
    BY DEF OnceInv, TypeOK, AttemptOK, KeyOf, TruthInv, CommandsFollowDispatch
<1>2. CASE Lookup(r)
  <2>1. /\ UNCHANGED <<record, command>> /\ req[r].phase = "received"
        /\ \/ SameButPhase(r, "queued")
           \/ \E o : SameButAnswer(r, "answered", {o, "unknown"})
           \/ Decision(record[KeyOf(r)], InputOf(r)) = "cached" /\ TakesStored(r)
      BY <1>1, <1>2, MoveFacts, EarlyAnswerFacts, CachedFacts DEF Lookup
  <2>2. CASE Decision(record[KeyOf(r)], InputOf(r)) = "cached" /\ TakesStored(r)
      BY <1>1, <2>1, <2>2, CachedIsCompleted, ReplayTruth
  <2>3. CASE SameButPhase(r, "queued") \/ \E o : SameButAnswer(r, "answered", {o, "unknown"})
      BY <2>1, <2>3, EarlyQuiet, QuietTruth DEF SameButPhase, SameButAnswer
  <2> QED
      BY <2>1, <2>2, <2>3
<1>3. CASE Acquire(r)
  <2>1. /\ UNCHANGED <<record, command>> /\ req[r].phase = "queued"
        /\ SameButPhase(r, "locked") \/ SameButAnswer(r, "answered", {"not_started", "unknown"})
      BY <1>1, <1>3, MoveFacts, EarlyAnswerFacts DEF Acquire
  <2> QED
      BY <2>1, EarlyQuiet, QuietTruth DEF SameButPhase, SameButAnswer
<1>4. CASE Admit(r)
  <2>1. /\ UNCHANGED <<record, command>> /\ req[r].phase = "locked"
        /\ SameButPhase(r, "admitted") \/ SameButAnswer(r, "answered", {"not_started", "unknown"})
      BY <1>1, <1>4, MoveFacts, EarlyAnswerFacts DEF Admit
  <2> QED
      BY <2>1, EarlyQuiet, QuietTruth DEF SameButPhase, SameButAnswer
<1>5. CASE Begin(r)
  <2> DEFINE purged == [k \in Key |-> Purged(record[k], now)]
  <2>1. /\ UNCHANGED command /\ req[r].phase = "admitted"
        /\ \/ /\ Inserts(r)
              /\ record' = [purged EXCEPT ![KeyOf(r)] = StartedRecord(InputOf(r), now)]
           \/ UNCHANGED record /\ \E o : SameButAnswer(r, "answered", {o, "unknown"})
           \/ /\ UNCHANGED record /\ TakesStored(r)
              /\ Decision(purged[KeyOf(r)], InputOf(r)) = "cached"
      BY <1>1, <1>5, InsertFacts, EarlyAnswerFacts, CachedFacts DEF Begin
  <2>2. CASE /\ Inserts(r)
             /\ record' = [purged EXCEPT ![KeyOf(r)] = StartedRecord(InputOf(r), now)]
    <3>1. ASSUME NEW k \in Key PROVE record'[k] = record[k] \/ record'[k].state # "completed"
        BY <2>2 DEF Purged, NoRecord, StartedRecord
    <3> QED
        BY <2>1, <2>2, <3>1, InsertTruth
  <2>3. CASE UNCHANGED record /\ \E o : SameButAnswer(r, "answered", {o, "unknown"})
      BY <2>1, <2>3, EarlyQuiet, QuietTruth DEF SameButAnswer
  <2>4. CASE /\ UNCHANGED record /\ TakesStored(r)
             /\ Decision(purged[KeyOf(r)], InputOf(r)) = "cached"
    <3>1. record[KeyOf(r)].state = "completed"
        BY <1>1, <2>1, <2>4, CachedIsCompleted DEF Purged, NoRecord
    <3> QED
        BY <1>1, <2>1, <2>4, <3>1, ReplayTruth
  <2> QED
      BY <2>1, <2>2, <2>3, <2>4
<1>6. CASE Dispatch(r)
  <2>1. /\ req[r].phase = "begun" /\ UNCHANGED record /\ command[r] = "none"
        /\ command \in [Request -> CommandState]
      BY <1>6 DEF Dispatch, OnceInv, TypeOK, TruthInv, CommandsFollowDispatch
  <2> QED
      BY <1>1, <1>6, <2>1, DispatchFacts, RunningTruth
         DEF SameButPhase, SameButAnswer, Excuses, Ended
<1>7. CASE NativeReply(r)
  <2>1. req[r].phase = "sent" /\ UNCHANGED <<record, command>>
      BY <1>7 DEF NativeReply
  <2> QED
      BY <1>1, <1>7, <2>1, ReplyFacts, RunningTruth DEF SameButAnswer, Excuses, Ended
<1>8. CASE NativeTimeout(r)
  <2>1. /\ req[r].phase = "sent" /\ UNCHANGED <<record, command>>
        /\ SameButAnswer(r, "replied", {"unknown"})
      BY <1>1, <1>8, AnswerFacts DEF NativeTimeout
  <2> QED
      BY <1>1, <2>1, LateQuiet, QuietTruth DEF SameButAnswer
<1>9. CASE Settle(r)
  <2>1. req[r].phase = "replied" /\ UNCHANGED command
      BY <1>9 DEF Settle
  <2>2. PICK a \in {req[r].answer, "unknown"} :
          /\ SameButAnswer(r, "durable", {a})
          /\ \/ record' = [record EXCEPT ![KeyOf(r)] =
                              CompletedRecord(record[KeyOf(r)], a, now)]
             \/ a = "unknown" /\ UNCHANGED record
      BY <1>1, <1>9, SettleFacts
  <2>3. CASE record' = [record EXCEPT ![KeyOf(r)] = CompletedRecord(record[KeyOf(r)], a, now)]
      BY <2>1, <2>2, <2>3, StoreTruth
  <2>4. CASE a = "unknown" /\ UNCHANGED record
      BY <2>1, <2>2, <2>4, LateQuiet, QuietTruth DEF SameButAnswer
  <2> QED
      BY <2>2, <2>3, <2>4
<1>10. CASE Return(r)
  <2>1. /\ req[r].phase = "durable" /\ UNCHANGED <<record, command>>
        /\ SameButPhase(r, "answered")
      BY <1>1, <1>10, MoveFacts DEF Return
  <2> QED
      BY <2>1, LateQuiet, QuietTruth DEF SameButPhase
<1> QED
    BY <1>2, <1>3, <1>4, <1>5, <1>6, <1>7, <1>8, <1>9, <1>10 DEF Serve

LEMMA TruthInit == Init => TruthInv
BY DEF Init, IdleAttempt, NoRecord, TruthInv, CommandsFollowDispatch, AnswersMatchCommand,
       StoredAreExcused, ReplayedAreExcused, Dispatched, Ended

LEMMA TruthStep == OnceInv /\ TruthInv /\ [Next]_vars => TruthInv'
<1> SUFFICES ASSUME OnceInv, TruthInv, [Next]_vars PROVE TruthInv'
    OBVIOUS
<1>1. /\ TypeOK' /\ req \in [Request -> Attempt]
      /\ command \in [Request -> CommandState]
    BY TypeStep DEF OnceInv, TypeOK
<1>2. \A r \in Request : req[r].cached => req[r].phase = "answered"
    BY DEF TruthInv, CommandsFollowDispatch
<1>3. ASSUME NEW r \in Request, NEW c \in Conn, NEW k \in Key, NEW i \in Input,
             Submit(r, c, k, i)
      PROVE  TruthInv'
  <2>1. /\ UNCHANGED <<record, command>> /\ req[r].phase = "idle" /\ ~req[r].cached
        /\ \A q \in Request : q # r => req'[q] = req[q]
        /\ req'[r].phase = "received" /\ req'[r].begunAt = req[r].begunAt
        /\ req'[r].cached = req[r].cached
      BY <1>1, <1>2, <1>3 DEF Submit, Attempt
  <2>2. Quiet
      BY <2>1 DEF Quiet, Ended
  <2> QED
      BY <1>1, <2>2, QuietTruth
<1>4. ASSUME NEW r \in Request, Serve(r) PROVE TruthInv'
    BY <1>1, <1>4, ServeTruth
<1>5. ASSUME NEW r \in Request, ExtensionExecutes(r) \/ ExtensionRefuses(r) PROVE TruthInv'
  <2>1. /\ UNCHANGED <<record, req>> /\ command[r] = "queued"
        /\ \A q \in Request : q # r => command'[q] = command[q]
      BY <1>1, <1>5 DEF ExtensionExecutes, ExtensionRefuses
  <2>2. /\ Dispatched(r) /\ req[r].phase # "begun" /\ ~req[r].cached
        /\ ~Excuses(r, KeyOf(r))
        /\ req[r].phase \in Ended \cup {"replied"}
             => req[r].answer \notin {"not_started", "completed"}
      BY <2>1 DEF TruthInv, CommandsFollowDispatch, AnswersMatchCommand, Excuses
  <2> QED
      BY <1>1, <2>1, <2>2, RunningTruth DEF Rewrites
<1>6. ASSUME UNCHANGED <<req, command>>,
             \A k \in Key : record'[k] = record[k] \/ record'[k].state # "completed"
      PROVE  TruthInv'
  <2>1. Quiet
      BY <1>6 DEF Quiet
  <2> QED
      BY <1>1, <2>1, QuietTruth
<1>7. ASSUME NEW S, req' = Failing(S), UNCHANGED <<record, command>> PROVE TruthInv'
  <2>1. ASSUME NEW r \in Request
        PROVE  \/ req'[r] = req[r]
               \/ /\ req[r].phase = "sent" /\ req'[r].phase = "replied"
                  /\ req'[r].answer = "unknown"
                  /\ req'[r].key = req[r].key /\ req'[r].begunAt = req[r].begunAt
                  /\ req'[r].cached = req[r].cached
      BY <1>1, <1>7 DEF Failing, Attempt
  <2>2. Quiet
      BY <1>2, <1>7, <2>1 DEF Quiet, Ended
  <2> QED
      BY <1>1, <2>2, QuietTruth
<1>8. ASSUME NEW c \in Conn, Disconnect(c) \/ CloseTask(c) PROVE TruthInv'
    BY <1>7, <1>8 DEF Disconnect, CloseTask
<1>9. CASE ExtensionDisconnected \/ StreamEnds
    BY <1>7, <1>9 DEF ExtensionDisconnected, StreamEnds
<1>10. CASE Restart
  <2>1. ASSUME NEW r \in Request
        PROVE  \/ req'[r] = req[r] /\ req[r].phase \in {"idle", "answered", "lost"}
               \/ /\ req[r].phase \notin {"idle", "answered", "lost"}
                  /\ req'[r].phase = "lost"
                  /\ \/ req'[r].answer = None
                     \/ req[r].phase = "durable" /\ req'[r].answer = req[r].answer
                  /\ req'[r].key = req[r].key /\ req'[r].begunAt = req[r].begunAt
                  /\ req'[r].cached = req[r].cached
      BY <1>1, <1>10 DEF Restart, Attempt
  <2>2. UNCHANGED <<record, command>>
      BY <1>10 DEF Restart
  <2>3. Quiet
      BY <1>2, <2>1, <2>2 DEF Quiet, Ended
  <2> QED
      BY <1>1, <2>3, QuietTruth
<1>11. CASE DeleteTask
    BY <1>6, <1>11 DEF DeleteTask, NoRecord
<1>12. CASE HelloBegins \/ HelloEnds \/ SetPaused \/ Tick \/ UNCHANGED vars
    BY <1>6, <1>12 DEF HelloBegins, HelloEnds, SetPaused, Tick, vars
<1> QED
    BY <1>3, <1>4, <1>5, <1>8, <1>9, <1>10, <1>11, <1>12 DEF Next

(* An answer not_started is true: the command of the attempt never ran, and *)
(* neither did that of the attempt whose stored answer it replays.          *)
THEOREM NoDenialInvented == Spec => []HostInventsNoDenial
<1>1. Spec => [](OnceInv /\ TruthInv)
    BY OnceInit, OnceStep, TruthInit, TruthStep, PTL DEF Spec
<1>2. OnceInv /\ TruthInv => HostInventsNoDenial
  <2> SUFFICES ASSUME OnceInv, TruthInv, NEW r \in Request, NEW q \in Request,
                      req[r].phase = "answered", req[r].answer = "not_started",
                      q = r \/ (req[r].cached /\ KeyOf(q) = KeyOf(r)
                                   /\ Dispatched(q) /\ HonestKey(KeyOf(r)))
               PROVE  command[q] \in Deniable
      BY DEF HostInventsNoDenial
  <2>1. CASE q = r
      BY <2>1 DEF TruthInv, CommandsFollowDispatch, AnswersMatchCommand, Ended
  <2>2. CASE /\ req[r].cached /\ KeyOf(q) = KeyOf(r)
             /\ Dispatched(q) /\ HonestKey(KeyOf(r))
    <3>1. PICK p \in Request : Excuses(p, KeyOf(r))
        BY <2>2 DEF TruthInv, ReplayedAreExcused
    <3>2. p = q
        BY <2>2, <3>1 DEF Excuses, HonestKey, OnceInv, AtMostOnce
    <3> QED
        BY <3>1, <3>2 DEF Excuses
  <2> QED
      BY <2>1, <2>2
<1> QED
    BY <1>1, <1>2, PTL

--------------------------------
(* What is acknowledged is on disk.  Until the task's rows are deleted, a   *)
(* dispatched attempt that has not settled owns its key's started row, and  *)
(* one that settled with a definite answer has it in the row for as long    *)
(* as retention lasts.  Nothing here needs an honest clock.                 *)

Running == {"begun", "sent", "replied"}

RunningOwnsRow ==
    taskRow # "deleted" =>
        \A r \in Request :
            req[r].phase \in Running =>
                /\ record[KeyOf(r)].state = "started"
                /\ record[KeyOf(r)].input = InputOf(r)
                /\ \A q \in Request :
                     req[q].phase \in Running /\ KeyOf(q) = KeyOf(r) => q = r

(* r has settled with a definite answer whose row cannot be purged yet.     *)
Binding(r) ==
    /\ Dispatched(r) /\ req[r].phase \in {"durable", "answered"}
    /\ req[r].answer \in {"completed", "not_started"}
    /\ taskRow # "deleted"
    /\ now <= req[r].begunAt + Retention

OnDisk(r) ==
    LET row == record[KeyOf(r)] IN
    /\ row.state = "completed" /\ row.answer = req[r].answer
    /\ row.input = InputOf(r) /\ row.at >= req[r].begunAt

DurableInv == RunningOwnsRow /\ \A r \in Request : Binding(r) => OnDisk(r)

LEMMA DispatchedTypes ==
    ASSUME OnceInv, NEW r \in Request, Dispatched(r)
    PROVE  /\ req[r].begunAt \in Nat /\ req[r].begunAt <= now
           /\ req[r].phase # "idle" /\ KeyOf(r) \in Key
BY DEF OnceInv, DispatchedStayOut, TypeOK, AttemptOK, Attempt, Dispatched, KeyOf

(* Steps that store nothing and settle nothing with a definite answer.      *)
Unsettling ==
    /\ UNCHANGED record
    /\ now' >= now
    /\ taskRow = "deleted" => taskRow' = "deleted"
    /\ \A r \in Request :
         /\ req'[r].begunAt = req[r].begunAt
         /\ req[r].phase # "idle" => /\ req'[r].key = req[r].key
                                     /\ req'[r].input = req[r].input
         /\ req'[r].phase \in Running => req[r].phase \in Running
         /\ Dispatched(r) /\ req'[r].phase \in {"durable", "answered"}
              => \/ req'[r].answer = "unknown"
                 \/ /\ req[r].phase \in {"durable", "answered"}
                    /\ req'[r].answer = req[r].answer

LEMMA UnsettlingDurable ==
    ASSUME OnceInv, DurableInv, TypeOK', Unsettling
    PROVE  DurableInv'
<1> USE RecordsAssumption, RuntimeAssumption
<1>1. now \in Nat /\ now' \in Nat
    BY DEF OnceInv, TypeOK
<1>2. RunningOwnsRow'
    BY DEF Unsettling, DurableInv, RunningOwnsRow, Running, KeyOf, InputOf
<1>3. ASSUME NEW r \in Request, Binding(r)' PROVE OnDisk(r)'
  <2>1. Dispatched(r) /\ req'[r].begunAt = req[r].begunAt
      BY <1>3 DEF Binding, Dispatched, Unsettling
  <2>2. req[r].begunAt \in Nat /\ req[r].phase # "idle"
      BY <2>1, DispatchedTypes
  <2>3. Binding(r)
      BY <1>1, <1>3, <2>1, <2>2 DEF Binding, Unsettling
  <2> QED
      BY <1>3, <2>1, <2>2, <2>3 DEF DurableInv, OnDisk, Binding, Unsettling, KeyOf, InputOf
<1> QED
    BY <1>2, <1>3 DEF DurableInv

(* The dispatch finds no row for its key, so it takes no binding one away.  *)
LEMMA InsertDurable ==
    ASSUME OnceInv, DurableInv, TypeOK', NEW r \in Request, Inserts(r),
           UNCHANGED <<now, taskRow>>, req[r].phase = "admitted",
           LET purged == [k \in Key |-> Purged(record[k], now)] IN
             /\ Decision(purged[KeyOf(r)], InputOf(r)) = "dispatch"
             /\ record' = [purged EXCEPT ![KeyOf(r)] = StartedRecord(InputOf(r), now)]
    PROVE  DurableInv'
<1> USE RecordsAssumption, RuntimeAssumption
<1>1. /\ now \in Nat /\ record \in [Key -> Record] /\ KeyOf(r) \in Key
      /\ \A q \in Request : req[q].phase # "idle" => KeyOf(q) \in Key
    BY DEF OnceInv, TypeOK, AttemptOK, KeyOf
<1>2. /\ Purged(record[KeyOf(r)], now).state = "absent"
      /\ record'[KeyOf(r)] = StartedRecord(InputOf(r), now)
      /\ \A k \in Key : k # KeyOf(r) => record'[k] = Purged(record[k], now)
    BY <1>1 DEF Decision
<1>3. /\ KeyOf(r)' = KeyOf(r) /\ InputOf(r)' = InputOf(r) /\ req'[r].phase = "begun"
      /\ \A q \in Request : q # r => /\ req'[q] = req[q] /\ KeyOf(q)' = KeyOf(q)
                                     /\ InputOf(q)' = InputOf(q)
    BY DEF Inserts, Rewrites, KeyOf, InputOf
<1>4. RunningOwnsRow'
  <2> SUFFICES ASSUME taskRow # "deleted", NEW q \in Request, req'[q].phase \in Running
               PROVE  /\ record'[KeyOf(q)'].state = "started"
                      /\ record'[KeyOf(q)'].input = InputOf(q)'
                      /\ \A p \in Request :
                           req'[p].phase \in Running /\ KeyOf(p)' = KeyOf(q)' => p = q
      BY DEF RunningOwnsRow
  <2>1. ASSUME NEW p \in Request, p # r, req[p].phase \in Running
        PROVE  /\ KeyOf(p) # KeyOf(r) /\ KeyOf(p) \in Key
               /\ record'[KeyOf(p)] = record[KeyOf(p)]
               /\ record[KeyOf(p)].state = "started" /\ record[KeyOf(p)].input = InputOf(p)
    <3>1. record[KeyOf(p)].state = "started" /\ record[KeyOf(p)].input = InputOf(p)
        BY <2>1 DEF DurableInv, RunningOwnsRow
    <3>2. KeyOf(p) \in Key /\ KeyOf(p) # KeyOf(r)
        BY <1>1, <1>2, <2>1, <3>1 DEF Purged, Running
    <3> QED
        BY <1>2, <3>1, <3>2 DEF Purged
  <2>2. CASE q = r
      BY <1>2, <1>3, <2>1, <2>2 DEF StartedRecord
  <2>3. CASE q # r
      BY <1>3, <2>1, <2>3 DEF DurableInv, RunningOwnsRow
  <2> QED
      BY <2>2, <2>3
<1>5. ASSUME NEW q \in Request, Binding(q)' PROVE OnDisk(q)'
  <2>1. q # r /\ req'[q] = req[q] /\ Binding(q)
      BY <1>3, <1>5 DEF Binding, Dispatched
  <2>2. /\ OnDisk(q) /\ KeyOf(q) \in Key /\ req[q].begunAt \in Nat
        /\ now <= req[q].begunAt + Retention
      BY <2>1, DispatchedTypes DEF DurableInv, Binding
  <2>3. record[KeyOf(q)].at \in Nat
      BY <1>1, <2>2 DEF Record
  <2>4. Purged(record[KeyOf(q)], now) = record[KeyOf(q)]
      BY <1>1, <2>2, <2>3 DEF OnDisk, Purged
  <2>5. KeyOf(q) # KeyOf(r)
      BY <1>2, <2>2, <2>4 DEF OnDisk
  <2> QED
      BY <1>2, <1>3, <2>1, <2>2, <2>4, <2>5 DEF OnDisk
<1> QED
    BY <1>4, <1>5 DEF DurableInv

(* The settling attempt owns the row that its answer completes.             *)
LEMMA StoreDurable ==
    ASSUME OnceInv, TruthInv, DurableInv, TypeOK', NEW r \in Request,
           UNCHANGED <<now, taskRow>>, req[r].phase = "replied",
           NEW a, SameButAnswer(r, "durable", {a}),
           CanComplete(record[KeyOf(r)]),
           record' = [record EXCEPT ![KeyOf(r)] = CompletedRecord(record[KeyOf(r)], a, now)]
    PROVE  DurableInv'
<1> USE RecordsAssumption, RuntimeAssumption
<1>1. /\ now \in Nat /\ record \in [Key -> Record] /\ KeyOf(r) \in Key
      /\ Dispatched(r) /\ req[r].begunAt \in Nat /\ req[r].begunAt <= now
    BY DispatchedTypes DEF OnceInv, TypeOK, TruthInv, CommandsFollowDispatch
<1>2. /\ record'[KeyOf(r)].state = "completed" /\ record'[KeyOf(r)].answer = a
      /\ record'[KeyOf(r)].at = now /\ record'[KeyOf(r)].input = record[KeyOf(r)].input
      /\ \A k \in Key : k # KeyOf(r) => record'[k] = record[k]
    BY <1>1 DEF CompletedRecord, Record
<1>3. /\ KeyOf(r)' = KeyOf(r) /\ InputOf(r)' = InputOf(r) /\ req'[r].phase = "durable"
      /\ req'[r].answer = a /\ req'[r].begunAt = req[r].begunAt
      /\ \A q \in Request : q # r => /\ req'[q] = req[q] /\ KeyOf(q)' = KeyOf(q)
                                     /\ InputOf(q)' = InputOf(q)
    BY DEF SameButAnswer, Rewrites, KeyOf, InputOf
<1>4. RunningOwnsRow'
  <2> SUFFICES ASSUME taskRow # "deleted", NEW q \in Request, req'[q].phase \in Running
               PROVE  /\ record'[KeyOf(q)'].state = "started"
                      /\ record'[KeyOf(q)'].input = InputOf(q)'
                      /\ \A p \in Request :
                           req'[p].phase \in Running /\ KeyOf(p)' = KeyOf(q)' => p = q
      BY DEF RunningOwnsRow
  <2>1. q # r /\ req[q].phase \in Running
      BY <1>3 DEF Running
  <2>2. KeyOf(q) # KeyOf(r) /\ KeyOf(q) \in Key
      BY <2>1 DEF DurableInv, RunningOwnsRow, Running, OnceInv, TypeOK, AttemptOK, KeyOf
  <2> QED
      BY <1>2, <1>3, <2>1, <2>2 DEF DurableInv, RunningOwnsRow, Running
<1>5. ASSUME NEW q \in Request, Binding(q)' PROVE OnDisk(q)'
  <2>1. CASE q = r
    <3>1. record[KeyOf(r)].input = InputOf(r)
        BY <1>5, <2>1 DEF Binding, DurableInv, RunningOwnsRow, Running
    <3> QED
        BY <1>1, <1>2, <1>3, <2>1, <3>1 DEF OnDisk
  <2>2. CASE q # r
    <3>1. req'[q] = req[q] /\ Binding(q)
        BY <1>3, <1>5, <2>2 DEF Binding, Dispatched
    <3>2. OnDisk(q) /\ KeyOf(q) \in Key
        BY <3>1, DispatchedTypes DEF DurableInv, Binding
    <3>3. KeyOf(q) # KeyOf(r)
        BY <3>2 DEF OnDisk, CanComplete
    <3> QED
        BY <1>2, <1>3, <2>2, <3>1, <3>2, <3>3 DEF OnDisk
  <2> QED
      BY <2>1, <2>2
<1> QED
    BY <1>4, <1>5 DEF DurableInv

(* A thread that answers or moves on without touching its row.              *)
LEMMA ThreadUnsettling ==
    ASSUME OnceInv, TruthInv, NEW r \in Request, Rewrites(r),
           UNCHANGED <<record, now, taskRow>>, req'[r].begunAt = req[r].begunAt,
           req'[r].phase \in Running => req[r].phase \in Running,
           \/ ~Dispatched(r) \/ req'[r].answer = "unknown"
           \/ req'[r].phase \notin {"durable", "answered"}
           \/ req[r].phase = "durable" /\ req'[r].answer = req[r].answer
    PROVE  Unsettling
<1>1. now \in Nat
    BY DEF OnceInv, TypeOK
<1> QED
    BY <1>1 DEF Unsettling, Rewrites

LEMMA ServeDurable ==
    ASSUME OnceInv, TruthInv, DurableInv, TypeOK', NEW r \in Request, Serve(r)
    PROVE  DurableInv'
<1> USE RecordsAssumption, RuntimeAssumption
<1>1. /\ TypeOK
      /\ req[r].phase \in {"received", "queued", "locked", "admitted"} => ~Dispatched(r)
    BY DEF OnceInv, DispatchedStayOut
<1>2. CASE Lookup(r) \/ Acquire(r) \/ Admit(r)
  <2>1. /\ UNCHANGED <<record, now, taskRow>>
        /\ req[r].phase \in {"received", "queued", "locked"}
      BY <1>2 DEF Lookup, Acquire, Admit
  <2>2. \/ SameButPhase(r, "queued") \/ SameButPhase(r, "locked")
        \/ SameButPhase(r, "admitted") \/ TakesStored(r)
        \/ \E o : SameButAnswer(r, "answered", {o, "unknown"})
    <3>1. CASE Lookup(r)
        BY <1>1, <3>1, MoveFacts, EarlyAnswerFacts, CachedFacts DEF Lookup
    <3>2. CASE Acquire(r)
        BY <1>1, <3>2, MoveFacts, EarlyAnswerFacts DEF Acquire
    <3>3. CASE Admit(r)
        BY <1>1, <3>3, MoveFacts, EarlyAnswerFacts DEF Admit
    <3> QED
        BY <1>2, <3>1, <3>2, <3>3
  <2>3. Unsettling
      BY <1>1, <2>1, <2>2, ThreadUnsettling
         DEF SameButPhase, SameButAnswer, TakesStored, Running
  <2> QED
      BY <2>3, UnsettlingDurable
<1>3. CASE Begin(r)
  <2>1. CASE /\ Inserts(r)
             /\ LET purged == [k \in Key |-> Purged(record[k], now)] IN
                  /\ Decision(purged[KeyOf(r)], InputOf(r)) = "dispatch"
                  /\ record' = [purged EXCEPT ![KeyOf(r)] =
                                                StartedRecord(InputOf(r), now)]
      BY <1>3, <2>1, InsertDurable DEF Begin
  <2>2. CASE /\ UNCHANGED record
             /\ \/ \E o : SameButAnswer(r, "answered", {o, "unknown"})
                \/ TakesStored(r)
    <3>1. UNCHANGED <<record, now, taskRow>> /\ req[r].phase = "admitted"
        BY <1>3, <2>2 DEF Begin
    <3>2. Unsettling
        BY <1>1, <2>2, <3>1, ThreadUnsettling DEF SameButAnswer, TakesStored, Running
    <3> QED
        BY <3>2, UnsettlingDurable
  <2> QED
      BY <1>1, <1>3, <2>1, <2>2, InsertFacts, EarlyAnswerFacts, CachedFacts DEF Begin
<1>4. CASE Dispatch(r)
  <2>1. UNCHANGED <<record, now, taskRow>> /\ req[r].phase = "begun"
      BY <1>4 DEF Dispatch
  <2>2. SameButPhase(r, "sent") \/ SameButAnswer(r, "replied", {"not_started", "unknown"})
      BY <1>1, <1>4, DispatchFacts
  <2>3. Unsettling
      BY <2>1, <2>2, ThreadUnsettling DEF SameButPhase, SameButAnswer, Running
  <2> QED
      BY <2>3, UnsettlingDurable
<1>5. CASE NativeReply(r) \/ NativeTimeout(r)
  <2>1. UNCHANGED <<record, now, taskRow>> /\ req[r].phase = "sent"
      BY <1>5 DEF NativeReply, NativeTimeout
  <2>2. Rewrites(r) /\ req'[r].phase = "replied" /\ req'[r].begunAt = req[r].begunAt
    <3>1. CASE NativeReply(r)
        BY <1>1, <3>1, ReplyFacts DEF SameButAnswer
    <3>2. CASE NativeTimeout(r)
        BY <1>1, <3>2, AnswerFacts DEF NativeTimeout, SameButAnswer
    <3> QED
        BY <1>5, <3>1, <3>2
  <2>3. Unsettling
      BY <2>1, <2>2, ThreadUnsettling DEF Running
  <2> QED
      BY <2>3, UnsettlingDurable
<1>6. CASE Settle(r)
  <2>1. UNCHANGED <<now, taskRow>> /\ req[r].phase = "replied"
      BY <1>6 DEF Settle
  <2>2. PICK a : /\ SameButAnswer(r, "durable", {a})
                 /\ \/ /\ CanComplete(record[KeyOf(r)])
                       /\ record' = [record EXCEPT ![KeyOf(r)] =
                                       CompletedRecord(record[KeyOf(r)], a, now)]
                    \/ a = "unknown" /\ UNCHANGED record
      BY <1>1, <1>6, SettleFacts
  <2>3. CASE a = "unknown" /\ UNCHANGED record
    <3>1. Unsettling
        BY <2>1, <2>2, <2>3, ThreadUnsettling DEF SameButAnswer, Running
    <3> QED
        BY <3>1, UnsettlingDurable
  <2> QED
      BY <2>1, <2>2, <2>3, StoreDurable
<1>7. CASE Return(r)
  <2>1. UNCHANGED <<record, now, taskRow>> /\ req[r].phase = "durable"
      BY <1>7 DEF Return
  <2>2. SameButPhase(r, "answered")
      BY <1>1, <1>7, MoveFacts DEF Return
  <2>3. Unsettling
      BY <2>1, <2>2, ThreadUnsettling DEF SameButPhase, Running
  <2> QED
      BY <2>3, UnsettlingDurable
<1> QED
    BY <1>2, <1>3, <1>4, <1>5, <1>6, <1>7 DEF Serve

LEMMA DurableStep == OnceInv /\ TruthInv /\ DurableInv /\ [Next]_vars => DurableInv'
<1> SUFFICES ASSUME OnceInv, TruthInv, DurableInv, [Next]_vars PROVE DurableInv'
    OBVIOUS
<1> USE RecordsAssumption, RuntimeAssumption
<1>1. TypeOK' /\ req \in [Request -> Attempt] /\ now \in Nat
    BY TypeStep DEF OnceInv, TypeOK
<1>2. \A r \in Request : req[r].phase = "idle" => ~Dispatched(r)
    BY DEF OnceInv, DispatchedStayOut
<1>3. ASSUME NEW r \in Request, NEW c \in Conn, NEW k \in Key, NEW i \in Input,
             Submit(r, c, k, i)
      PROVE  DurableInv'
  <2>1. /\ UNCHANGED <<record, now, taskRow>> /\ req[r].phase = "idle"
        /\ \A q \in Request : q # r => req'[q] = req[q]
        /\ req'[r].phase = "received" /\ req'[r].begunAt = req[r].begunAt
      BY <1>1, <1>3 DEF Submit, Attempt
  <2>2. Unsettling
      BY <1>1, <1>2, <2>1 DEF Unsettling, Running
  <2> QED
      BY <1>1, <2>2, UnsettlingDurable
<1>4. ASSUME NEW r \in Request, Serve(r) PROVE DurableInv'
    BY <1>1, <1>4, ServeDurable
<1>5. ASSUME UNCHANGED <<req, record>>, now' >= now,
             taskRow = "deleted" => taskRow' = "deleted"
      PROVE  DurableInv'
  <2>1. Unsettling
      BY <1>5 DEF Unsettling
  <2> QED
      BY <1>1, <2>1, UnsettlingDurable
<1>6. ASSUME NEW S, req' = Failing(S), UNCHANGED <<record, now>>,
             taskRow = "deleted" => taskRow' = "deleted"
      PROVE  DurableInv'
  <2>1. ASSUME NEW r \in Request
        PROVE  \/ req'[r] = req[r]
               \/ /\ req[r].phase = "sent" /\ req'[r].phase = "replied"
                  /\ req'[r].key = req[r].key /\ req'[r].input = req[r].input
                  /\ req'[r].begunAt = req[r].begunAt
      BY <1>1, <1>6 DEF Failing, Attempt
  <2>2. Unsettling
      BY <1>1, <1>6, <2>1 DEF Unsettling, Running
  <2> QED
      BY <1>1, <2>2, UnsettlingDurable
<1>7. ASSUME NEW c \in Conn, Disconnect(c) \/ CloseTask(c) PROVE DurableInv'
    BY <1>6, <1>7 DEF Disconnect, CloseTask
<1>8. CASE ExtensionDisconnected \/ StreamEnds
    BY <1>6, <1>8 DEF ExtensionDisconnected, StreamEnds
<1>9. CASE Restart
  <2>1. ASSUME NEW r \in Request
        PROVE  \/ req'[r] = req[r] /\ req[r].phase \in {"idle", "answered", "lost"}
               \/ /\ req'[r].phase = "lost"
                  /\ req'[r].key = req[r].key /\ req'[r].input = req[r].input
                  /\ req'[r].begunAt = req[r].begunAt
      BY <1>1, <1>9 DEF Restart, Attempt
  <2>2. UNCHANGED <<record, now, taskRow>>
      BY <1>9 DEF Restart
  <2>3. Unsettling
      BY <1>1, <2>1, <2>2 DEF Unsettling, Running
  <2> QED
      BY <1>1, <2>3, UnsettlingDurable
<1>10. CASE DeleteTask
    BY <1>10 DEF DeleteTask, DurableInv, RunningOwnsRow, Binding
<1>11. ASSUME NEW r \in Request, ExtensionExecutes(r) \/ ExtensionRefuses(r)
       PROVE  DurableInv'
    BY <1>1, <1>5, <1>11 DEF ExtensionExecutes, ExtensionRefuses
<1>12. CASE HelloBegins \/ HelloEnds \/ SetPaused \/ Tick \/ UNCHANGED vars
    BY <1>1, <1>5, <1>12 DEF HelloBegins, HelloEnds, SetPaused, Tick, vars
<1> QED
    BY <1>3, <1>4, <1>7, <1>8, <1>9, <1>10, <1>11, <1>12 DEF Next

(* A definite answer that was acknowledged is in its key's row, with the    *)
(* request it answers, for as long as retention lasts and the task's rows   *)
(* are kept, across restarts and whatever else is sent with that key.       *)
THEOREM AcknowledgedOnDisk == Spec => []DurableBeforeAcknowledged
<1>1. Init => DurableInv
    BY DEF Init, IdleAttempt, DurableInv, RunningOwnsRow, Binding, Running
<1>2. Spec => [](OnceInv /\ TruthInv /\ DurableInv)
    BY <1>1, OnceInit, OnceStep, TruthInit, TruthStep, DurableStep, PTL DEF Spec
<1>3. DurableInv => DurableBeforeAcknowledged
    BY DEF DurableInv, Binding, OnDisk, DurableBeforeAcknowledged
<1> QED
    BY <1>2, <1>3, PTL

--------------------------------
(* The refinement of OneEffect *)

HonestClocks == \A r \in Request : Dispatched(r) => HonestStamp(r)

(* The attempt changed the browser; the attempt holds its key's verdict.   *)
Took(r) == Dispatched(r) /\ command[r] = "executed"
Denied(r) == Dispatched(r) /\ command[r] = "denied"
Told(r) == Dispatched(r) /\ Stored(r)

LEMMA OneDispatch ==
    ASSUME OnceInv, HonestClocks
    PROVE  \A r, q \in Request : Dispatched(r) /\ Dispatched(q) /\ KeyOf(r) = KeyOf(q) => r = q
BY DEF OnceInv, AtMostOnce, HonestClocks

(* The refinement mapping without DispatchedFor and CHOOSE.                *)
LEMMA EffectIs ==
    ASSUME NEW k \in Key
    PROVE  KeyEffect[k] = IF \E r \in Request : KeyOf(r) = k /\ Took(r) THEN "done"
                          ELSE IF \E r \in Request : KeyOf(r) = k /\ Denied(r)
                          THEN "disowned" ELSE "none"
BY DEF KeyEffect, DispatchedFor, Took, Denied

VerdictFacts ==
    \A k \in Key :
        /\ \A r \in Request : KeyOf(r) = k /\ Told(r) => KeyVerdict[k] = req[r].answer
        /\ (\A r \in Request : KeyOf(r) = k => ~Told(r)) => KeyVerdict[k] = "open"

LEMMA VerdictIs == OnceInv /\ HonestClocks => VerdictFacts
<1> SUFFICES ASSUME OnceInv, HonestClocks, NEW k \in Key
             PROVE  /\ \A r \in Request : KeyOf(r) = k /\ Told(r) => KeyVerdict[k] = req[r].answer
                    /\ (\A r \in Request : KeyOf(r) = k => ~Told(r)) => KeyVerdict[k] = "open"
    BY DEF VerdictFacts
<1>1. ASSUME NEW r \in Request, KeyOf(r) = k, Told(r) PROVE KeyVerdict[k] = req[r].answer
  <2>1. r \in DispatchedFor(k) /\ Stored(r)
      BY <1>1 DEF DispatchedFor, Told
  <2>2. \A q \in DispatchedFor(k) : q = r
      BY <1>1, OneDispatch DEF DispatchedFor, Told
  <2>3. (CHOOSE q \in DispatchedFor(k) : Stored(q)) = r
      BY <2>1, <2>2
  <2> QED
      BY <2>1, <2>3 DEF KeyVerdict
<1>2. ASSUME \A r \in Request : KeyOf(r) = k => ~Told(r) PROVE KeyVerdict[k] = "open"
  <2>1. ~\E r \in DispatchedFor(k) : Stored(r)
      BY <1>2 DEF DispatchedFor, Told
  <2> QED
      BY <2>1 DEF KeyVerdict
<1> QED
    BY <1>1, <1>2

(* Steps that the promise does not see.                                    *)
Silent ==
    \A r \in Request :
        /\ Took(r)' <=> Took(r)
        /\ Denied(r)' <=> Denied(r)
        /\ Told(r)' <=> Told(r)
        /\ Took(r) \/ Denied(r) \/ Told(r) => KeyOf(r)' = KeyOf(r)
        /\ Told(r) => req'[r].answer = req[r].answer

LEMMA SilentEffect ==
    ASSUME \A r \in Request : /\ Took(r)' <=> Took(r)
                              /\ Denied(r)' <=> Denied(r)
                              /\ Took(r) \/ Denied(r) => KeyOf(r)' = KeyOf(r)
    PROVE  UNCHANGED KeyEffect
<1>1. ASSUME NEW k \in Key
      PROVE  /\ (\E r \in Request : KeyOf(r) = k /\ Took(r))
                   <=> (\E r \in Request : KeyOf(r)' = k /\ Took(r)')
             /\ (\E r \in Request : KeyOf(r) = k /\ Denied(r))
                   <=> (\E r \in Request : KeyOf(r)' = k /\ Denied(r)')
    OBVIOUS
<1>2. ASSUME NEW k \in Key PROVE KeyEffect'[k] = KeyEffect[k]
  <2>1. (KeyEffect[k] = IF \E r \in Request : KeyOf(r) = k /\ Took(r) THEN "done"
                        ELSE IF \E r \in Request : KeyOf(r) = k /\ Denied(r)
                        THEN "disowned" ELSE "none")'
      BY DEF KeyEffect, DispatchedFor, Took, Denied
  <2> QED
      BY <1>1, <2>1, EffectIs
<1> QED
    BY <1>2 DEF KeyEffect

LEMMA SilentVerdict ==
    ASSUME OnceInv, OnceInv', HonestClocks, HonestClocks',
           \A r \in Request : /\ Told(r)' <=> Told(r)
                              /\ Told(r) => /\ KeyOf(r)' = KeyOf(r)
                                            /\ req'[r].answer = req[r].answer
    PROVE  UNCHANGED KeyVerdict
<1>1. VerdictFacts
    BY VerdictIs
<1>2. (OnceInv /\ HonestClocks => VerdictFacts)'
    BY VerdictIs, PTL
<1>3. ASSUME NEW k \in Key PROVE KeyVerdict'[k] = KeyVerdict[k]
    BY <1>1, <1>2 DEF VerdictFacts
<1> QED
    BY <1>3 DEF KeyVerdict

(* The step that executes the command of a dispatched attempt.             *)
LEMMA HappenStep ==
    ASSUME OnceInv, OnceInv', HonestClocks, HonestClocks', TruthInv,
           NEW r \in Request, ExtensionExecutes(r)
    PROVE  Promise!Happen(KeyOf(r))
<1>1. /\ command[r] = "queued" /\ UNCHANGED req
      /\ command'[r] \in {"executed", "denied"}
      /\ \A q \in Request : q # r => command'[q] = command[q]
      /\ Dispatched(r)
    BY DEF ExtensionExecutes, OnceInv, TypeOK, TruthInv, CommandsFollowDispatch
<1>2. KeyOf(r) \in Key
    BY <1>1, DispatchedTypes
<1>3. \A q \in Request : Dispatched(q) /\ KeyOf(q) = KeyOf(r) => q = r
    BY <1>1, OneDispatch
<1>4. ~Told(r)
    BY <1>1 DEF Told, Stored, TruthInv, AnswersMatchCommand, Ended
<1>5. KeyVerdict[KeyOf(r)] = "open"
    BY <1>2, <1>3, <1>4, VerdictIs DEF VerdictFacts, Told
<1>6. UNCHANGED KeyVerdict
    BY <1>1, SilentVerdict DEF Told, Stored, Dispatched, KeyOf
<1>7. \A q \in Request : (Dispatched(q)' <=> Dispatched(q)) /\ KeyOf(q)' = KeyOf(q)
    BY <1>1 DEF Dispatched, KeyOf
<1>8. KeyEffect[KeyOf(r)] = "none"
    BY <1>1, <1>2, <1>3, EffectIs DEF Took, Denied
<1> DEFINE how == IF command'[r] = "executed" THEN "done" ELSE "disowned"
<1>9. ASSUME NEW k \in Key
      PROVE  KeyEffect'[k] = IF k = KeyOf(r) THEN how ELSE KeyEffect[k]
  <2>1. (KeyEffect[k] = IF \E q \in Request : KeyOf(q) = k /\ Took(q) THEN "done"
                        ELSE IF \E q \in Request : KeyOf(q) = k /\ Denied(q)
                        THEN "disowned" ELSE "none")'
      BY DEF KeyEffect, DispatchedFor, Took, Denied
  <2>2. CASE k = KeyOf(r)
    <3>1. \A q \in Request : KeyOf(q)' = k /\ Dispatched(q)' => q = r
        BY <1>3, <1>7, <2>2
    <3> QED
        BY <1>1, <1>7, <2>1, <2>2, <3>1 DEF Took, Denied
  <2>3. CASE k # KeyOf(r)
    <3>1. /\ (\E q \in Request : KeyOf(q) = k /\ Took(q))
               <=> (\E q \in Request : KeyOf(q)' = k /\ Took(q)')
          /\ (\E q \in Request : KeyOf(q) = k /\ Denied(q))
               <=> (\E q \in Request : KeyOf(q)' = k /\ Denied(q)')
        BY <1>1, <1>7, <2>3 DEF Took, Denied
    <3> QED
        BY <2>1, <2>3, <3>1, EffectIs
  <2> QED
      BY <2>2, <2>3
<1>10. KeyEffect' = [KeyEffect EXCEPT ![KeyOf(r)] = how]
    BY <1>9 DEF KeyEffect
<1> QED
    BY <1>5, <1>6, <1>8, <1>10 DEF Promise!Happen

(* The step that stores a definite answer.                                 *)
LEMMA VerdictStep ==
    ASSUME OnceInv, OnceInv', HonestClocks, HonestClocks', TruthInv,
           NEW r \in Request, req[r].phase = "replied", UNCHANGED command,
           NEW a \in {"completed", "not_started"}, a = req[r].answer,
           SameButAnswer(r, "durable", {a})
    PROVE  Promise!Decline(KeyOf(r)) \/ Promise!Confirm(KeyOf(r))
<1>1. /\ Dispatched(r) /\ Dispatched(r)' /\ KeyOf(r)' = KeyOf(r)
      /\ req'[r].answer = a /\ req'[r].phase = "durable"
      /\ \A q \in Request : q # r => req'[q] = req[q]
    BY DEF TruthInv, CommandsFollowDispatch, SameButAnswer, Rewrites, Dispatched, KeyOf
<1>2. KeyOf(r) \in Key
    BY <1>1, DispatchedTypes
<1>3. /\ \A q \in Request : Dispatched(q) /\ KeyOf(q) = KeyOf(r) => q = r
      /\ \A q \in Request : /\ Dispatched(q)' <=> Dispatched(q)
                            /\ KeyOf(q)' = KeyOf(q)
                            /\ q # r => (Told(q)' <=> Told(q))
    BY <1>1, OneDispatch DEF Dispatched, KeyOf, Told, Stored
<1>4. ~Told(r) /\ Told(r)'
    BY <1>1 DEF Told, Stored
<1>5. KeyVerdict[KeyOf(r)] = "open" /\ VerdictFacts
    BY <1>2, <1>3, <1>4, VerdictIs DEF VerdictFacts, Told
<1>6. VerdictFacts'
  <2>1. (OnceInv /\ HonestClocks => VerdictFacts)'
      BY VerdictIs, PTL
  <2> QED
      BY <2>1
<1>7. \A k \in Key : KeyVerdict'[k] = IF k = KeyOf(r) THEN a ELSE KeyVerdict[k]
    BY <1>1, <1>3, <1>4, <1>5, <1>6 DEF VerdictFacts
<1>8. KeyVerdict' = [KeyVerdict EXCEPT ![KeyOf(r)] = a]
    BY <1>7 DEF KeyVerdict
<1>9. UNCHANGED KeyEffect
    BY <1>1, <1>3, SilentEffect DEF Took, Denied
<1>10. KeyEffect[KeyOf(r)] = "done" <=> command[r] = "executed"
    BY <1>1, <1>2, <1>3, EffectIs DEF Took, Denied
<1>11. IF a = "completed" THEN command[r] = "executed" ELSE command[r] # "executed"
    BY <1>1 DEF TruthInv, AnswersMatchCommand, Ended
<1> QED
    BY <1>5, <1>8, <1>9, <1>10, <1>11 DEF Promise!Decline, Promise!Confirm

LEMMA SilentStep ==
    ASSUME OnceInv, OnceInv', HonestClocks, HonestClocks', Silent
    PROVE  UNCHANGED Promise!vars
BY SilentEffect, SilentVerdict DEF Silent, Promise!vars

(* A thread's step is silent unless it tells a definite answer.            *)
LEMMA ThreadSilent ==
    ASSUME TruthInv, TypeOK, NEW r \in Request, Rewrites(r), UNCHANGED command,
           \/ ~Dispatched(r) /\ ~Dispatched(r)'
           \/ /\ Dispatched(r) /\ req'[r].begunAt = req[r].begunAt
              /\ \/ /\ req[r].phase \notin Ended
                    /\ \/ req'[r].phase \notin Ended
                       \/ req'[r].answer = "unknown"
                 \/ /\ req[r].phase \in Ended /\ req'[r].phase \in Ended
                    /\ req'[r].answer = req[r].answer
    PROVE  Silent
BY DEF Silent, Took, Denied, Told, Stored, Dispatched, KeyOf, Rewrites, Ended

LEMMA ServePromise ==
    ASSUME OnceInv, OnceInv', HonestClocks, HonestClocks', TruthInv,
           NEW r \in Request, Serve(r)
    PROVE  [Promise!Next]_(Promise!vars)
<1> USE RuntimeAssumption
<1>1. /\ TypeOK /\ (req[r].phase # "idle" => KeyOf(r) \in Key)
      /\ req[r].phase \in {"received", "queued", "locked", "admitted"} => ~Dispatched(r)
      /\ req[r].phase \in {"begun", "sent", "replied", "durable"} => Dispatched(r)
    BY DEF OnceInv, TypeOK, AttemptOK, KeyOf, DispatchedStayOut, TruthInv,
           CommandsFollowDispatch
<1>2. CASE Lookup(r) \/ Acquire(r) \/ Admit(r)
  <2>1. UNCHANGED command /\ req[r].phase \in {"received", "queued", "locked"}
      BY <1>2 DEF Lookup, Acquire, Admit
  <2>2. Rewrites(r) /\ req'[r].begunAt = req[r].begunAt
    <3>1. CASE Lookup(r)
        BY <1>1, <3>1, MoveFacts, EarlyAnswerFacts, CachedFacts
           DEF Lookup, SameButPhase, SameButAnswer, TakesStored
    <3>2. CASE Acquire(r)
        BY <1>1, <3>2, MoveFacts, EarlyAnswerFacts DEF Acquire, SameButPhase, SameButAnswer
    <3>3. CASE Admit(r)
        BY <1>1, <3>3, MoveFacts, EarlyAnswerFacts DEF Admit, SameButPhase, SameButAnswer
    <3> QED
        BY <1>2, <3>1, <3>2, <3>3
  <2>3. Silent
      BY <1>1, <2>1, <2>2, ThreadSilent DEF Dispatched
  <2> QED
      BY <2>3, SilentStep
<1>3. CASE Begin(r)
  <2>1. UNCHANGED command /\ req[r].phase = "admitted"
      BY <1>3 DEF Begin
  <2>2. \/ Inserts(r)
        \/ Rewrites(r) /\ req'[r].begunAt = req[r].begunAt
      BY <1>1, <1>3, InsertFacts, EarlyAnswerFacts, CachedFacts
         DEF Begin, SameButAnswer, TakesStored
  <2>3. CASE Inserts(r)
    <3>1. ~Dispatched(r) /\ command[r] = "none"
        BY <1>1, <2>1 DEF TruthInv, CommandsFollowDispatch
    <3>2. Silent
        BY <2>1, <2>3, <3>1
           DEF Silent, Inserts, Rewrites, Took, Denied, Told, Stored, Dispatched, KeyOf
    <3> QED
        BY <3>2, SilentStep
  <2>4. CASE Rewrites(r) /\ req'[r].begunAt = req[r].begunAt
    <3>1. Silent
        BY <1>1, <2>1, <2>4, ThreadSilent DEF Dispatched
    <3> QED
        BY <3>1, SilentStep
  <2> QED
      BY <2>2, <2>3, <2>4
<1>4. CASE Dispatch(r)
  <2>1. req[r].phase = "begun" /\ command[r] = "none"
      BY <1>4 DEF Dispatch, TruthInv, CommandsFollowDispatch
  <2>2. /\ Rewrites(r) /\ req'[r].begunAt = req[r].begunAt
        /\ req'[r].phase \in {"sent", "replied"}
        /\ \A q \in Request : q # r => command'[q] = command[q]
        /\ command'[r] \notin {"executed", "denied"}
      BY <1>1, <1>4, <2>1, DispatchFacts DEF SameButPhase, SameButAnswer, TypeOK
  <2>3. Silent
      BY <2>1, <2>2 DEF Silent, Rewrites, Took, Denied, Told, Stored, Dispatched, KeyOf
  <2> QED
      BY <2>3, SilentStep
<1>5. CASE NativeReply(r) \/ NativeTimeout(r)
  <2>1. UNCHANGED command /\ req[r].phase = "sent"
      BY <1>5 DEF NativeReply, NativeTimeout
  <2>2. Rewrites(r) /\ req'[r].phase = "replied" /\ req'[r].begunAt = req[r].begunAt
    <3>1. CASE NativeReply(r)
        BY <1>1, <3>1, ReplyFacts DEF SameButAnswer
    <3>2. CASE NativeTimeout(r)
        BY <1>1, <3>2, AnswerFacts DEF NativeTimeout, SameButAnswer
    <3> QED
        BY <1>5, <3>1, <3>2
  <2>3. Silent
      BY <1>1, <2>1, <2>2, ThreadSilent DEF Ended
  <2> QED
      BY <2>3, SilentStep
<1>6. CASE Settle(r)
  <2>1. UNCHANGED command /\ req[r].phase = "replied" /\ req[r].answer \in Outcome
      BY <1>6 DEF Settle, OnceInv, TypeOK, AttemptOK
  <2>2. PICK a \in {req[r].answer, "unknown"} : SameButAnswer(r, "durable", {a})
      BY <1>1, <1>6, SettleFacts
  <2>3. CASE a = "unknown"
    <3>1. Silent
        BY <1>1, <2>1, <2>2, <2>3, ThreadSilent DEF SameButAnswer, Ended
    <3> QED
        BY <3>1, SilentStep
  <2>4. CASE a # "unknown"
    <3>1. Promise!Decline(KeyOf(r)) \/ Promise!Confirm(KeyOf(r))
        BY <2>1, <2>2, <2>4, VerdictStep DEF Outcome
    <3> QED
        BY <1>1, <2>1, <3>1 DEF Promise!Next
  <2> QED
      BY <2>3, <2>4
<1>7. CASE Return(r)
  <2>1. UNCHANGED command /\ req[r].phase = "durable"
      BY <1>7 DEF Return
  <2>2. SameButPhase(r, "answered")
      BY <1>1, <1>7, MoveFacts DEF Return
  <2>3. Silent
      BY <1>1, <2>1, <2>2, ThreadSilent DEF SameButPhase, Ended
  <2> QED
      BY <2>3, SilentStep
<1> QED
    BY <1>2, <1>3, <1>4, <1>5, <1>6, <1>7 DEF Serve

LEMMA PromiseStep ==
    /\ OnceInv /\ TruthInv /\ HonestClocks /\ [Next]_vars /\ OnceInv' /\ HonestClocks'
    => [Promise!Next]_(Promise!vars)
<1> SUFFICES ASSUME OnceInv, TruthInv, HonestClocks, [Next]_vars, OnceInv', HonestClocks'
             PROVE  [Promise!Next]_(Promise!vars)
    OBVIOUS
<1>1. /\ req \in [Request -> Attempt]
      /\ \A r \in Request : req[r].phase = "idle" => ~Dispatched(r)
      /\ \A r \in Request : Dispatched(r) => KeyOf(r) \in Key
      /\ command \in [Request -> CommandState]
    BY DispatchedTypes DEF OnceInv, TypeOK, DispatchedStayOut
<1>2. ASSUME NEW r \in Request, NEW c \in Conn, NEW k \in Key, NEW i \in Input,
             Submit(r, c, k, i)
      PROVE  [Promise!Next]_(Promise!vars)
  <2>1. /\ UNCHANGED command /\ ~Dispatched(r) /\ ~Dispatched(r)'
        /\ \A q \in Request : q # r => req'[q] = req[q]
      BY <1>1, <1>2 DEF Submit, Attempt, Dispatched
  <2>2. Silent
      BY <2>1 DEF Silent, Took, Denied, Told, Stored, Dispatched, KeyOf
  <2> QED
      BY <2>2, SilentStep
<1>3. ASSUME NEW r \in Request, Serve(r) PROVE [Promise!Next]_(Promise!vars)
    BY <1>3, ServePromise
<1>4. ASSUME NEW r \in Request, ExtensionExecutes(r) PROVE [Promise!Next]_(Promise!vars)
  <2>1. Dispatched(r)
      BY <1>4 DEF ExtensionExecutes, TruthInv, CommandsFollowDispatch
  <2> QED
      BY <1>1, <1>4, <2>1, HappenStep DEF Promise!Next
<1>5. ASSUME UNCHANGED req, \A r \in Request :
             /\ (command'[r] = "executed") <=> (command[r] = "executed")
             /\ (command'[r] = "denied") <=> (command[r] = "denied")
      PROVE  [Promise!Next]_(Promise!vars)
  <2>1. Silent
      BY <1>5 DEF Silent, Took, Denied, Told, Stored, Dispatched, KeyOf
  <2> QED
      BY <2>1, SilentStep
<1>6. ASSUME UNCHANGED command,
             \A r \in Request :
                 \/ req'[r] = req[r]
                 \/ /\ req'[r].key = req[r].key /\ req'[r].begunAt = req[r].begunAt
                    /\ \/ req[r].phase \notin Ended /\ req'[r].phase \notin Ended
                       \/ /\ req[r].phase \notin Ended
                          /\ req'[r].answer \notin {"completed", "not_started"}
                       \/ /\ req[r].phase \in Ended /\ req'[r].phase \in Ended
                          /\ req'[r].answer = req[r].answer
      PROVE  [Promise!Next]_(Promise!vars)
  <2>1. Silent
      BY <1>6 DEF Silent, Took, Denied, Told, Stored, Dispatched, KeyOf, Ended
  <2> QED
      BY <2>1, SilentStep
<1>7. ASSUME NEW S, req' = Failing(S), UNCHANGED command PROVE [Promise!Next]_(Promise!vars)
  <2>1. ASSUME NEW r \in Request
        PROVE  \/ req'[r] = req[r]
               \/ /\ req'[r].key = req[r].key /\ req'[r].begunAt = req[r].begunAt
                  /\ req[r].phase \notin Ended /\ req'[r].phase \notin Ended
      BY <1>1, <1>7 DEF Failing, Attempt, Ended
  <2> QED
      BY <1>6, <1>7, <2>1
<1>8. ASSUME NEW c \in Conn, Disconnect(c) \/ CloseTask(c) PROVE [Promise!Next]_(Promise!vars)
    BY <1>7, <1>8 DEF Disconnect, CloseTask
<1>9. CASE ExtensionDisconnected \/ StreamEnds
    BY <1>7, <1>9 DEF ExtensionDisconnected, StreamEnds
<1>10. CASE Restart
  <2> USE RuntimeAssumption
  <2>1. ASSUME NEW r \in Request
        PROVE  \/ req'[r] = req[r]
               \/ /\ req'[r].key = req[r].key /\ req'[r].begunAt = req[r].begunAt
                  /\ \/ /\ req[r].phase \notin Ended
                        /\ req'[r].answer \notin {"completed", "not_started"}
                     \/ /\ req[r].phase \in Ended /\ req'[r].phase \in Ended
                        /\ req'[r].answer = req[r].answer
    <3> DEFINE a == req[r]
    <3>1. req'[r] = IF a.phase \in {"idle", "answered", "lost"} THEN a
                    ELSE [a EXCEPT !.phase = "lost",
                                   !.answer = IF a.phase = "durable" THEN a.answer ELSE None]
        BY <1>10 DEF Restart
    <3>2. a \in Attempt
        BY <1>1
    <3> HIDE DEF a
    <3>3. CASE a.phase \in {"idle", "answered", "lost"}
        BY <3>1, <3>3 DEF a
    <3>4. CASE a.phase \notin {"idle", "answered", "lost"}
      <4>1. /\ req'[r].key = a.key /\ req'[r].begunAt = a.begunAt
            /\ req'[r].phase = "lost"
            /\ req'[r].answer = IF a.phase = "durable" THEN a.answer ELSE None
          BY <3>1, <3>2, <3>4 DEF Attempt
      <4> QED
          BY <3>4, <4>1 DEF a, Ended, Outcome
    <3> QED
        BY <3>3, <3>4
  <2> QED
      BY <1>6, <1>10, <2>1 DEF Restart
<1>11. ASSUME NEW r \in Request, ExtensionRefuses(r) PROVE [Promise!Next]_(Promise!vars)
    BY <1>1, <1>5, <1>11 DEF ExtensionRefuses
<1>12. CASE DeleteTask \/ HelloBegins \/ HelloEnds \/ SetPaused \/ Tick \/ UNCHANGED vars
    BY <1>5, <1>12 DEF DeleteTask, HelloBegins, HelloEnds, SetPaused, Tick, vars
<1> QED
    BY <1>2, <1>3, <1>4, <1>8, <1>9, <1>10, <1>11, <1>12 DEF Next

LEMMA PromiseInit == Init => Promise!Init
<1> SUFFICES ASSUME Init PROVE Promise!Init
    OBVIOUS
<1>1. \A r \in Request : ~Dispatched(r)
    BY DEF Init, IdleAttempt, Dispatched
<1>2. \A k \in Key : KeyEffect[k] = "none" /\ KeyVerdict[k] = "open"
    BY <1>1 DEF KeyEffect, KeyVerdict, DispatchedFor
<1>3. /\ KeyEffect = [k \in Key |-> "none"]
      /\ KeyVerdict = [k \in Key |-> "open"]
    BY <1>2 DEF KeyEffect, KeyVerdict
<1> QED
    BY <1>3 DEF Promise!Init

(* The runtime implements OneEffect as long as no key is dispatched with a  *)
(* timestamp ahead of the host's clock: a key takes effect at most once,    *)
(* and its definite verdict is true and final.                              *)
THEOREM PromiseKeptWhenHonest == Spec /\ []HonestClocks => PromiseKept
<1>1. Spec => [](OnceInv /\ TruthInv)
    BY OnceInit, OnceStep, TruthInit, TruthStep, PTL DEF Spec
<1> QED
    BY <1>1, PromiseInit, PromiseStep, PTL DEF Spec, PromiseKept, Promise!Spec

(* With no skew tolerance only honest keys pass begin_mutation.             *)
LEMMA HonestStep ==
    ASSUME FutureSkew = 0, OnceInv, HonestClocks, [Next]_vars
    PROVE  HonestClocks'
<1> USE RecordsAssumption, RuntimeAssumption
<1>1. /\ TypeOK /\ req \in [Request -> Attempt] /\ now \in Nat /\ stamp \in [Key -> Nat]
      /\ \A r \in Request : req[r].phase = "idle" => ~Dispatched(r)
    BY DEF OnceInv, TypeOK, DispatchedStayOut
<1>2. ASSUME UNCHANGED stamp,
             \A r \in Request : /\ req'[r].begunAt = req[r].begunAt
                                /\ Dispatched(r) => req'[r].key = req[r].key
      PROVE  HonestClocks'
    BY <1>2 DEF HonestClocks, HonestStamp, Dispatched, KeyOf
<1>3. UNCHANGED stamp
  <2>1. ASSUME NEW r \in Request, Serve(r) PROVE UNCHANGED stamp
    <3>1. CASE Lookup(r) \/ Acquire(r) \/ Admit(r)
        BY <3>1, Zenon DEF Lookup, Acquire, Admit
    <3>2. CASE Begin(r) \/ Dispatch(r)
        BY <3>2, Zenon DEF Begin, Dispatch
    <3>3. CASE NativeReply(r) \/ NativeTimeout(r)
        BY <3>3, Zenon DEF NativeReply, NativeTimeout
    <3>4. CASE Settle(r) \/ Return(r)
        BY <3>4, Zenon DEF Settle, Return
    <3> QED
        BY <2>1, <3>1, <3>2, <3>3, <3>4 DEF Serve
  <2>2. ASSUME NEW r \in Request, ExtensionExecutes(r) \/ ExtensionRefuses(r)
        PROVE  UNCHANGED stamp
      BY <2>2 DEF ExtensionExecutes, ExtensionRefuses
  <2>3. ASSUME NEW c \in Conn, Disconnect(c) \/ CloseTask(c) PROVE UNCHANGED stamp
      BY <2>3 DEF Disconnect, CloseTask
  <2>4. CASE \/ DeleteTask \/ HelloBegins \/ HelloEnds \/ SetPaused
             \/ ExtensionDisconnected \/ StreamEnds \/ Restart \/ Tick \/ UNCHANGED vars
      BY <2>4 DEF DeleteTask, HelloBegins, HelloEnds, SetPaused, ExtensionDisconnected,
                  StreamEnds, Restart, Tick, vars
  <2> QED
      BY <2>1, <2>2, <2>3, <2>4 DEF Next, Submit
<1>4. ASSUME NEW r \in Request, NEW c \in Conn, NEW k \in Key, NEW i \in Input,
             Submit(r, c, k, i)
      PROVE  HonestClocks'
  <2>1. /\ ~Dispatched(r) /\ req'[r].begunAt = req[r].begunAt
        /\ \A q \in Request : q # r => req'[q] = req[q]
      BY <1>1, <1>4 DEF Submit, Attempt
  <2> QED
      BY <1>2, <1>3, <2>1
<1>5. ASSUME NEW r \in Request, Begin(r) PROVE HonestClocks'
  <2>1. \/ Rewrites(r) /\ req'[r].begunAt = req[r].begunAt
        \/ Inserts(r) /\ KeyAccepted(stamp[KeyOf(r)], now)
      BY <1>1, <1>5, InsertFacts, EarlyAnswerFacts, CachedFacts
         DEF Begin, SameButAnswer, TakesStored
  <2>2. CASE Rewrites(r) /\ req'[r].begunAt = req[r].begunAt
      BY <1>2, <1>3, <2>2 DEF Rewrites
  <2>3. CASE Inserts(r) /\ KeyAccepted(stamp[KeyOf(r)], now)
    <3>1. stamp[KeyOf(r)] <= now
      <4>1. KeyOf(r) \in Key
          BY <1>5 DEF Begin, OnceInv, TypeOK, AttemptOK, KeyOf
      <4> QED
          BY <1>1, <2>3, <4>1 DEF KeyAccepted
    <3> QED
        BY <1>3, <2>3, <3>1
           DEF Inserts, Rewrites, HonestClocks, HonestStamp, Dispatched, KeyOf
  <2> QED
      BY <2>1, <2>2, <2>3
<1>6. ASSUME NEW r \in Request, Serve(r) PROVE HonestClocks'
    BY <1>1, <1>2, <1>3, <1>5, <1>6, ServeDispatches DEF Serve, SameDispatches
<1>7. ASSUME UNCHANGED req PROVE HonestClocks'
    BY <1>2, <1>3, <1>7
<1>8. ASSUME NEW S, req' = Failing(S) PROVE HonestClocks'
  <2>1. \A r \in Request : req'[r].begunAt = req[r].begunAt /\ req'[r].key = req[r].key
      BY <1>1, <1>8 DEF Failing, Attempt
  <2> QED
      BY <1>2, <1>3, <2>1
<1>9. CASE Restart
  <2>1. \A r \in Request : req'[r].begunAt = req[r].begunAt /\ req'[r].key = req[r].key
      BY <1>1, <1>9 DEF Restart, Attempt
  <2> QED
      BY <1>2, <1>3, <2>1
<1>10. ASSUME NEW r \in Request, ExtensionExecutes(r) \/ ExtensionRefuses(r)
       PROVE  HonestClocks'
    BY <1>7, <1>10 DEF ExtensionExecutes, ExtensionRefuses
<1>11. ASSUME NEW c \in Conn, Disconnect(c) \/ CloseTask(c) PROVE HonestClocks'
    BY <1>8, <1>11 DEF Disconnect, CloseTask
<1>12. CASE ExtensionDisconnected \/ StreamEnds
    BY <1>8, <1>12 DEF ExtensionDisconnected, StreamEnds
<1>13. CASE DeleteTask \/ HelloBegins \/ HelloEnds \/ SetPaused \/ Tick \/ UNCHANGED vars
    BY <1>7, <1>13 DEF DeleteTask, HelloBegins, HelloEnds, SetPaused, Tick, vars
<1> QED
    BY <1>4, <1>6, <1>9, <1>10, <1>11, <1>12, <1>13 DEF Next

(* Without the skew tolerance nothing needs assuming: begin_mutation then   *)
(* accepts no timestamp ahead of its clock.                                 *)
THEOREM PromiseKeptWithoutSkew ==
    ASSUME FutureSkew = 0
    PROVE  Spec => PromiseKept
<1> USE RecordsAssumption, RuntimeAssumption
<1>1. Init => HonestClocks
    BY DEF Init, IdleAttempt, HonestClocks, Dispatched
<1>2. OnceInv /\ HonestClocks /\ [Next]_vars => HonestClocks'
    BY HonestStep
<1>3. Spec => []HonestClocks
    BY <1>1, <1>2, OnceInit, OnceStep, PTL DEF Spec
<1> QED
    BY <1>3, PromiseKeptWhenHonest, PTL

================================
