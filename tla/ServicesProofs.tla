---- MODULE ServicesProofs ----
(* Proofs about the services of the extension, for any number of events, ports, tabs   *)
(* and failures: operations begin in order (StartupQueue), what is decided and served   *)
(* belongs to the port that asked (NativeConnection), the debugger is only on tabs that *)
(* storage names (PermissionCleanup), and the popup gives its controls back over a fresh *)
(* state (Popup).                                                                       *)
EXTENDS StartupQueue, NativeConnection, PermissionCleanup, Popup, SequenceTheorems,
        FiniteSetTheorems, TLAPS

--------------------------------
(* StartupQueue *)

(* What the invariant needs besides itself: the drain holds an operation only when the *)
(* runtime is ready, and an operation that holds the queue is one of the drain.        *)
HoldsWhenReady ==
  /\ draining = "holding" => startupPhase = "ready"
  /\ holder # NoEvent => draining = "holding"

QueueInvariant == OperationsInOrder /\ HoldsWhenReady

(* Taking the next operation moves it from the head of the waiting ones to the end of  *)
(* the begun ones and changes nothing else.                                            *)
LEMMA TakenInOrder ==
  ASSUME NEW STATE running, running \subseteq Event, QueueInvariant, startupPhase = "ready",
         TakeNext(running),
         UNCHANGED <<startupPhase, retryAfterDrain, arrivalOrder, startFailures>>
  PROVE  QueueInvariant'
<1> USE DEF QueueInvariant, OperationsInOrder, HoldsWhenReady, StartupTypeOK, BegunOnceInOrder,
            NeverStranded
<1>1. CASE waiting = <<>>
  BY <1>1 DEF TakeNext
<1>2. CASE waiting # <<>>
  <2>1. Head(waiting) \in Event /\ Tail(waiting) \in Seq(Event) /\ waiting = <<Head(waiting)>> \o Tail(waiting)
    BY <1>2, HeadTailProperties
  <2>2. Append(begunOrder, Head(waiting)) = begunOrder \o <<Head(waiting)>>
    BY <2>1, AppendIsConcat
  <2>3. begunOrder' \in Seq(Event) /\ begunOrder' \o waiting' = begunOrder \o waiting
    <3>1. (begunOrder \o <<Head(waiting)>>) \o Tail(waiting) = begunOrder \o (<<Head(waiting)>> \o Tail(waiting))
      <4>1. <<Head(waiting)>> \in Seq(Event)
        BY <2>1
      <4> QED
        BY <2>1, <4>1, ConcatAssociative
    <3>2. begunOrder' = Append(begunOrder, Head(waiting)) /\ waiting' = Tail(waiting)
      BY <1>2 DEF TakeNext
    <3>3. begunOrder' \in Seq(Event)
      BY <2>1, <3>2
    <3> QED
      BY <2>1, <2>2, <3>1, <3>2, <3>3
  <2> QED
    BY <1>2, <2>1, <2>3, StartupAssumption DEF TakeNext
<1> QED
  BY <1>1, <1>2

(* Every start of the worker begins with an empty queue. *)
LEMMA QueueInvariantInitially == StartupInit => QueueInvariant
<1> SUFFICES ASSUME StartupInit PROVE QueueInvariant
  OBVIOUS
<1>1. <<>> \in Seq(Event)
  OBVIOUS
<1>2. <<>> \o <<>> = <<>>
  BY <1>1, ConcatEmptySeq
<1>3. startFailures \in 0..MaxStartFailures
  BY StartupAssumption DEF StartupInit
<1>4. begunOrder \o waiting = arrivalOrder
  BY <1>2 DEF StartupInit
<1> QED
  BY <1>1, <1>3, <1>4, Zenon DEF StartupInit, QueueInvariant, OperationsInOrder, HoldsWhenReady,
     StartupTypeOK, BegunOnceInOrder, NeverStranded

(* One step per action: only the actions of the drain begin an operation. *)
LEMMA QueueInvariantKept == QueueInvariant /\ [StartupNext]_startupVars => QueueInvariant'
<1> SUFFICES ASSUME QueueInvariant, [StartupNext]_startupVars PROVE QueueInvariant'
  OBVIOUS
<1> USE DEF QueueInvariant, OperationsInOrder, HoldsWhenReady, StartupTypeOK, BegunOnceInOrder,
            NeverStranded
<1>1. ASSUME NEW e \in Event, Enqueue(e) PROVE QueueInvariant'
  <2>1. waiting' \in Seq(Event) /\ arrivalOrder' \in Seq(Event) /\ waiting' # <<>>
    BY <1>1, AppendProperties DEF Enqueue
  <2>2. begunOrder' \o waiting' = arrivalOrder'
    <3>1. Append(waiting, e) = waiting \o <<e>> /\ Append(arrivalOrder, e) = arrivalOrder \o <<e>>
      BY AppendIsConcat
    <3>2. begunOrder \o (waiting \o <<e>>) = (begunOrder \o waiting) \o <<e>>
      <4>1. <<e>> \in Seq(Event) /\ begunOrder \in Seq(Event) /\ waiting \in Seq(Event)
        OBVIOUS
      <4> QED
        BY ONLY <4>1, ConcatAssociative
    <3> QED
      BY <1>1, <3>1, <3>2 DEF Enqueue
  <2> QED
    BY <1>1, <2>1, <2>2 DEF Enqueue, Request, Started
<1>2. ASSUME NEW e \in Event, OperationEnds(e) PROVE QueueInvariant'
  <2>1. CASE holder = e
    <3>1. startupPhase = "ready" /\ TakeNext(unfinished \ {e})
      BY <1>2, <2>1, StartupAssumption DEF OperationEnds
    <3> QED
      BY <1>2, <3>1, TakenInOrder DEF OperationEnds
  <2>2. CASE holder # e
    BY <1>2, <2>2 DEF OperationEnds
  <2> QED
    BY <2>1, <2>2
<1>3. CASE StartOnly
  BY <1>3 DEF StartOnly
<1>4. CASE StartSucceeds
  BY <1>4 DEF StartSucceeds, ReadyListener
<1>5. CASE StartFails
  BY <1>5, StartupAssumption DEF StartFails
<1>6. CASE DrainResumes
  BY <1>6, TakenInOrder DEF DrainResumes
<1>7. CASE HoldExpires
  BY <1>7, TakenInOrder DEF HoldExpires
<1>8. CASE DrainEnds
  BY <1>8 DEF DrainEnds, Again, Started
<1>9. CASE UNCHANGED startupVars
  BY <1>9 DEF startupVars
<1> QED
  BY <1>1, <1>2, <1>3, <1>4, <1>5, <1>6, <1>7, <1>8, <1>9 DEF StartupNext

(* Whatever fails while the worker starts, the operations that arrived begin once, in  *)
(* the order of arrival and on a ready runtime, and none that waits is left behind     *)
(* (StartupOperationQueue).                                                            *)
THEOREM BeginsInOrder == StartupSpec => []OperationsInOrder
<1>1. QueueInvariant => OperationsInOrder
  BY DEF QueueInvariant
<1> QED
  BY <1>1, QueueInvariantInitially, QueueInvariantKept, PTL DEF StartupSpec

--------------------------------
(* NativeConnection: a ready port is one whose ready has discarded the stale stages,   *)
(* and short of ready the current port has a timer of its own that will end it         *)

PortState(p) == links[p].state

ConnectionInv ==
  /\ ConnectionTypeOK /\ DecisionsOfThisPort /\ ServedOnReconciledPort
  /\ hostFaults \in Nat /\ popupEvents \in Nat
  /\ ready => port \in discarded
  /\ reconciling \in {"clearing", "resuming"} => ready
  /\ port # 0 => PortState(port) # "new"
  /\ port # 0 /\ PortState(port) = "closed" => port \in hangups
  /\ port # 0 /\ ~ready /\ ~HungUp => alarm \/ alarmDue \/ port \in hangups \/ reconciling # "none"
  /\ port = 0 => ~ready /\ reconciling = "none"
  /\ port = 0 /\ hostFaults > 0 => alarm \/ alarmDue

LEMMA ConnectionInvIsEnough == ConnectionInv => PortsTrusted
BY DEF ConnectionInv, PortsTrusted, NeverLeftAlone, Begun, UnderWay, HungUp, PortState,
       ConnectionTypeOK

Frames == Seq({"ready", "command", "ack", "malformed"})
LEMMA NoFrames == ASSUME NEW s, s = <<>> PROVE s \in Frames
BY EmptySeq DEF Frames

LEMMA ConnectionBegins == ConnectionInit => ConnectionInv
<1> SUFFICES ASSUME ConnectionInit PROVE ConnectionInv
  OBVIOUS
<1>1. inbox \in Frames
  BY NoFrames DEF ConnectionInit
<1>2. ConnectionTypeOK
  <2>1. links \in [Ports -> [state : {"new", "open", "closed", "hung_up"}, good : BOOLEAN]]
    BY DEF ConnectionInit
  <2>2. MaxPorts \in Nat
    BY ConnectionConstants
  <2>3. /\ ready \in BOOLEAN /\ greeted \in BOOLEAN /\ timer \in BOOLEAN /\ alarm \in BOOLEAN
        /\ alarmDue \in BOOLEAN
    BY DEF ConnectionInit
  <2>4. /\ port = 0 /\ reconciling = "none" /\ attempt = 0 /\ awaiting = {}
        /\ serving = {} /\ discarded = {} /\ hangups = {}
    BY DEF ConnectionInit
  <2>5. QED  BY <1>1, <2>1, <2>2, <2>3, <2>4 DEF ConnectionTypeOK, Frames
<1>3. QED  BY <1>2 DEF ConnectionInit, ConnectionInv, DecisionsOfThisPort, ServedOnReconciledPort

\* The number of the next port is one of Ports.
LEMMA PortNumbered ==
    ASSUME links \in [Ports -> [state : {"new", "open", "closed", "hung_up"}, good : BOOLEAN]],
           Unused # {}
    PROVE  MaxPorts + 1 - Cardinality(Unused) \in Ports
<1>1. MaxPorts \in Nat
  BY ConnectionConstants
<1>2. IsFiniteSet(1 .. MaxPorts) /\ Cardinality(1 .. MaxPorts) = MaxPorts
  BY <1>1, FS_Interval
<1>3. Unused \subseteq 1 .. MaxPorts
  BY DEF Unused, Ports
<1>4. /\ IsFiniteSet(Unused) /\ Cardinality(Unused) <= MaxPorts
  BY <1>2, <1>3, FS_Subset
<1>5. Cardinality(Unused) \in Nat /\ Cardinality(Unused) # 0
  BY <1>4, FS_CardinalityType, FS_EmptySet
<1>6. QED  BY <1>1, <1>4, <1>5 DEF Ports

\* A step that changes neither the port nor what is known of it.
LEMMA PortKept ==
    ASSUME ConnectionInv,
           UNCHANGED <<port, ready, reconciling, discarded>>,
           links' = links, hangups' = hangups,
           attempt' \in Nat, timer' \in BOOLEAN, greeted' \in BOOLEAN,
           alarm' \in BOOLEAN, alarmDue' \in BOOLEAN,
           alarm \/ alarmDue => alarm' \/ alarmDue',
           port = 0 /\ hostFaults' > 0 /\ hostFaults = 0 => alarm' \/ alarmDue',
           hostFaults' \in Nat, hostFaults' >= hostFaults, popupEvents' \in Nat,
           awaiting' \subseteq [event : 1 .. MaxPopupEvents, port : Ports],
           \A e \in awaiting' : e.port = port,
           inbox' \in Seq({"ready", "command", "ack", "malformed"}),
           serving' \subseteq Ports \cap discarded
    PROVE  ConnectionInv'
BY DEF ConnectionInv, ConnectionTypeOK, DecisionsOfThisPort, ServedOnReconciledPort, HungUp, PortState

LEMMA PortLost ==
    ASSUME ConnectionInv, Lost, serving' \subseteq serving, hangups' \subseteq hangups,
           UNCHANGED <<alarmDue, discarded, links, hostFaults, popupEvents>>
    PROVE  ConnectionInv'
<1>1. /\ port' = 0 /\ ready' = FALSE /\ reconciling' = "none" /\ greeted' = FALSE
      /\ awaiting' = {} /\ attempt' = attempt + 1 /\ alarm' = TRUE
      /\ timer' = (timer \/ attempt < FastAttempts)
  BY DEF Lost, ScheduleReconnect
<1>2. MaxPorts \in Nat
  BY ConnectionConstants
<1>3. timer' \in BOOLEAN /\ ready' \in BOOLEAN /\ greeted' \in BOOLEAN /\ alarm' \in BOOLEAN
  BY <1>1 DEF ConnectionInv, ConnectionTypeOK
<1>4. inbox' \in Frames
  BY NoFrames DEF Lost
<1>5. ConnectionTypeOK'
  <2>1. port' = 0 /\ reconciling' = "none" /\ awaiting' = {} /\ attempt' = attempt + 1
    BY <1>1
  <2>2. QED  BY <1>2, <1>3, <1>4, <2>1 DEF ConnectionInv, ConnectionTypeOK, Frames
<1>6. QED
  BY <1>1, <1>5 DEF ConnectionInv, DecisionsOfThisPort, ServedOnReconciledPort

\* The port is given up: it is hung up, or its host has left already.
LEMMA PortGivenUp ==
    ASSUME ConnectionInv, port # 0, HangsUp, UNCHANGED <<port, ready, greeted, awaiting, serving,
           discarded, attempt, popupEvents>>, timer' \in BOOLEAN, alarm' \in BOOLEAN,
           alarmDue' \in BOOLEAN, hostFaults' \in Nat,
           reconciling' \in {reconciling, "none"}
    PROVE  ConnectionInv'
<1>1. port \in Ports
  BY DEF ConnectionInv, ConnectionTypeOK, Ports
<1>2. links' = [links EXCEPT ![port].state = IF @ = "open" THEN "hung_up" ELSE @]
      /\ inbox' = <<>> /\ hangups' = hangups
  BY DEF HangsUp
<1>3. links' \in [Ports -> [state : {"new", "open", "closed", "hung_up"}, good : BOOLEAN]]
      /\ links'[port].state = IF links[port].state = "open" THEN "hung_up" ELSE links[port].state
  BY <1>1, <1>2 DEF ConnectionInv, ConnectionTypeOK
<1>4. links[port].state \in {"open", "closed", "hung_up"}
  BY <1>1 DEF ConnectionInv, ConnectionTypeOK, PortState
<1>5. PortState(port)' = "closed" => PortState(port) = "closed"
  BY <1>3 DEF PortState
<1>6. HungUp' \/ PortState(port)' = "closed"
  BY <1>3, <1>4 DEF HungUp, PortState
<1>7. ConnectionTypeOK'
  BY <1>2, <1>3 DEF ConnectionInv, ConnectionTypeOK
<1>8. QED
  BY <1>2, <1>3, <1>4, <1>5, <1>6, <1>7 DEF ConnectionInv, DecisionsOfThisPort, ServedOnReconciledPort,
     PortState

LEMMA Connects ==
    ASSUME ConnectionInv, Connect, alarmDue' \in BOOLEAN,
           port # 0 => alarmDue' = alarmDue,
           UNCHANGED <<awaiting, serving, discarded, hangups, popupEvents>>
    PROVE  ConnectionInv'
<1>1. CASE port # 0 /\ UNCHANGED <<port, ready, greeted, reconciling, attempt, timer, alarm, inbox,
                                   links, hostFaults>>
  BY <1>1, PortKept DEF ConnectionInv, ConnectionTypeOK, DecisionsOfThisPort, ServedOnReconciledPort
<1>2. CASE /\ port = 0 /\ hostFaults' = hostFaults + 1
           /\ attempt' = attempt + 1 /\ alarm' = TRUE /\ timer' = (attempt < FastAttempts)
           /\ UNCHANGED <<port, ready, greeted, reconciling, inbox, links>>
  <2>1. timer' \in BOOLEAN
    BY <1>2
  <2>2. QED  BY <1>2, <2>1, PortKept DEF ConnectionInv, ConnectionTypeOK, DecisionsOfThisPort,
             ServedOnReconciledPort
<1>3. ASSUME port = 0, Unused # {}, NEW good \in BOOLEAN,
             hostFaults' \in {hostFaults, hostFaults + 1},
             port' = MaxPorts + 1 - Cardinality(Unused),
             links' = [links EXCEPT ![port'] = [state |-> "open", good |-> good]],
             ready' = FALSE /\ greeted' = FALSE /\ reconciling' = "none" /\ inbox' = <<>>,
             timer' = FALSE /\ alarm' = TRUE, UNCHANGED attempt
      PROVE  ConnectionInv'
  <2>1. port' \in Ports /\ port' # 0 /\ port' \in 0 .. MaxPorts
    <3>1. port' \in Ports
      BY <1>3, PortNumbered DEF ConnectionInv, ConnectionTypeOK
    <3>2. QED  BY <3>1, ConnectionConstants DEF Ports
  <2>2. links' \in [Ports -> [state : {"new", "open", "closed", "hung_up"}, good : BOOLEAN]]
        /\ links'[port'].state = "open"
    BY <1>3, <2>1 DEF ConnectionInv, ConnectionTypeOK
  <2>3. awaiting = {}
    <3>1. \A e \in awaiting : e.port = 0 /\ e.port \in Ports
      BY <1>3 DEF ConnectionInv, ConnectionTypeOK, DecisionsOfThisPort
    <3>2. 0 \notin Ports
      BY ConnectionConstants DEF Ports
    <3>3. QED  BY <3>1, <3>2
  <2>4. ConnectionTypeOK' /\ hostFaults' \in Nat
    <3>1. inbox' \in Frames
      BY <1>3, NoFrames
    <3>2. /\ ready' \in BOOLEAN /\ greeted' \in BOOLEAN /\ timer' \in BOOLEAN /\ alarm' \in BOOLEAN
          /\ reconciling' = "none" /\ attempt' = attempt /\ hostFaults' \in {hostFaults, hostFaults + 1}
      BY <1>3
    <3>3. QED  BY <2>1, <2>2, <3>1, <3>2 DEF ConnectionInv, ConnectionTypeOK, Frames
  <2>5. QED  BY <1>3, <2>1, <2>2, <2>3, <2>4 DEF ConnectionInv, DecisionsOfThisPort,
             ServedOnReconciledPort, PortState
<1>4. QED  BY <1>1, <1>2, <1>3 DEF Connect, Faulty, Faultless

LEMMA FrameAdded ==
    ASSUME ConnectionInv, NEW frame \in {"ready", "command", "ack", "malformed"}, Receives(frame)
    PROVE  inbox' \in Frames
BY DEF ConnectionInv, ConnectionTypeOK, Receives, Frames

LEMMA FrameTaken ==
    ASSUME ConnectionInv, inbox # <<>>, inbox' = Tail(inbox)
    PROVE  inbox' \in Frames
BY DEF ConnectionInv, ConnectionTypeOK, Frames

\* What the timers and the alarm do.
LEMMA TimersRun ==
    ASSUME ConnectionInv, FirstConnect \/ TimerFires \/ AlarmFires \/ AlarmRuns
    PROVE  ConnectionInv'
<1>1. CASE FirstConnect
  BY <1>1, Connects DEF FirstConnect, ConnectionInv, ConnectionTypeOK
<1>2. CASE TimerFires
  <2>1. CASE port = 0
    BY <1>2, <2>1, Connects DEF TimerFires, ConnectionInv, ConnectionTypeOK
  <2>2. CASE port # 0
    <3>1. timer' \in BOOLEAN
      BY <1>2, <2>2 DEF TimerFires
    <3>2. UNCHANGED <<port, ready, greeted, reconciling, attempt, alarm, inbox, links, hostFaults, alarmDue,
                      awaiting, serving, discarded, hangups, popupEvents>>
      BY <1>2, <2>2 DEF TimerFires
    <3>3. QED  BY <2>2, <3>1, <3>2, PortKept DEF ConnectionInv, ConnectionTypeOK, DecisionsOfThisPort,
               ServedOnReconciledPort
  <2>3. QED  BY <2>1, <2>2
<1>3. CASE AlarmFires
  <2>1. hostFaults' \in Nat /\ (hostFaults' = hostFaults \/ (hostFaults' = hostFaults + 1 /\ port # 0))
    BY <1>3 DEF AlarmFires, Faulty, Faultless, ConnectionInv
  <2>2. alarm' = FALSE /\ alarmDue' = TRUE
        /\ UNCHANGED <<port, ready, greeted, reconciling, attempt, timer, awaiting, inbox, serving,
                       discarded, links, hangups, popupEvents>>
    BY <1>3 DEF AlarmFires
  <2>3. alarm' \in BOOLEAN /\ alarmDue' \in BOOLEAN /\ alarmDue'
    BY <2>2
  <2>4. QED  BY <2>1, <2>2, <2>3, PortKept DEF ConnectionInv, ConnectionTypeOK, DecisionsOfThisPort,
             ServedOnReconciledPort
<1>4. CASE AlarmRuns
  <2>1. alarmDue' = FALSE /\ alarmDue' \in BOOLEAN
        /\ UNCHANGED <<awaiting, serving, discarded, popupEvents>>
    BY <1>4 DEF AlarmRuns
  <2>2. CASE port = 0
    BY <1>4, <2>1, <2>2, Connects DEF AlarmRuns
  <2>3. CASE port # 0 /\ ready
    <3>1. /\ timer' = FALSE /\ UNCHANGED <<port, ready, greeted, reconciling, attempt, alarm, inbox, links,
                                           hangups, hostFaults>>
      BY <1>4, <2>3 DEF AlarmRuns
    <3>2. HungUp' = HungUp /\ PortState(port)' = PortState(port)
      BY <3>1 DEF HungUp, PortState
    <3>3. ConnectionTypeOK'
      BY <2>1, <3>1 DEF ConnectionInv, ConnectionTypeOK
    <3>4. QED  BY <2>1, <2>3, <3>1, <3>2, <3>3 DEF ConnectionInv, DecisionsOfThisPort,
               ServedOnReconciledPort
  <2>4. CASE port # 0 /\ ~ready
    <3>1. /\ timer' = FALSE /\ HangsUp
          /\ UNCHANGED <<port, ready, greeted, reconciling, attempt, alarm, hostFaults>>
      BY <1>4, <2>4 DEF AlarmRuns
    <3>2. timer' \in BOOLEAN
      BY <3>1
    <3>3. QED  BY <2>1, <2>4, <3>1, <3>2, PortGivenUp DEF ConnectionInv, ConnectionTypeOK
  <2>5. QED  BY <2>2, <2>3, <2>4
<1>5. QED  BY <1>1, <1>2, <1>3, <1>4

\* The host and its messages.
LEMMA HostSteps ==
    ASSUME ConnectionInv,
           HostReady \/ HostMisbehaves \/ HostExits \/ \E frame \in {"command", "ack"} : HostSends(frame)
    PROVE  ConnectionInv'
<1>1. /\ UNCHANGED <<port, ready, greeted, reconciling, attempt, timer, alarm, alarmDue,
                     awaiting, serving, discarded, popupEvents>>
      /\ port # 0 /\ links[port].state = "open"
      /\ hostFaults' \in {hostFaults, hostFaults + 1}
  BY DEF HostReady, HostMisbehaves, HostExits, HostSends, HostUnchanged, Faulty, Faultless
<1>2. inbox' \in Frames
  <2>1. CASE HostExits
    BY <2>1 DEF HostExits, ConnectionInv, ConnectionTypeOK, Frames
  <2>2. CASE ~HostExits
    BY <2>2, FrameAdded DEF HostReady, HostMisbehaves, HostSends
  <2>3. QED  BY <2>1, <2>2
<1>3. port \in Ports
  BY <1>1 DEF ConnectionInv, ConnectionTypeOK, Ports
<1>4. \/ UNCHANGED <<links, hangups>>
      \/ links' = [links EXCEPT ![port].good = FALSE] /\ UNCHANGED hangups
      \/ links' = [links EXCEPT ![port].state = "closed"] /\ hangups' = hangups \cup {port}
  BY DEF HostReady, HostMisbehaves, HostExits, HostSends
<1>5. links' \in [Ports -> [state : {"new", "open", "closed", "hung_up"}, good : BOOLEAN]]
      /\ hangups' \subseteq Ports /\ hangups \subseteq hangups'
      /\ links'[port].state \in {"open", "closed"} /\ (links'[port].state = "closed" => port \in hangups')
  <2>1. CASE UNCHANGED <<links, hangups>>
    BY <1>1, <2>1 DEF ConnectionInv, ConnectionTypeOK
  <2>2. CASE links' = [links EXCEPT ![port].good = FALSE] /\ UNCHANGED hangups
    BY <1>1, <1>3, <2>2 DEF ConnectionInv, ConnectionTypeOK
  <2>3. CASE links' = [links EXCEPT ![port].state = "closed"] /\ hangups' = hangups \cup {port}
    BY <1>1, <1>3, <2>3 DEF ConnectionInv, ConnectionTypeOK
  <2>4. QED  BY <1>4, <2>1, <2>2, <2>3
<1>6. ConnectionTypeOK' /\ hostFaults' \in Nat
  BY <1>1, <1>2, <1>5 DEF ConnectionInv, ConnectionTypeOK, Frames
<1>7. ~HungUp
  BY <1>1 DEF HungUp
<1>8. QED  BY <1>1, <1>5, <1>6, <1>7 DEF ConnectionInv, DecisionsOfThisPort, ServedOnReconciledPort,
           PortState

LEMMA DiscardedKept ==
    ASSUME ConnectionInv, Discarded
    PROVE  ConnectionInv'
<1>1. /\ port # 0 /\ discarded' = discarded \cup {port} /\ ready' = TRUE
      /\ attempt' = 0 /\ timer' = FALSE /\ alarm' = FALSE /\ reconciling' = "clearing"
      /\ UNCHANGED <<port, greeted, alarmDue, awaiting, inbox, serving, links, hangups, hostFaults,
                     popupEvents>>
  BY DEF Discarded
<1>2. port \in Ports
  BY <1>1 DEF ConnectionInv, ConnectionTypeOK, Ports
<1>3. ready' \in BOOLEAN /\ timer' \in BOOLEAN /\ alarm' \in BOOLEAN /\ discarded' \subseteq Ports
  BY <1>1, <1>2 DEF ConnectionInv, ConnectionTypeOK
<1>4. ConnectionTypeOK'
  <2>1. attempt' = 0 /\ reconciling' = "clearing"
        /\ UNCHANGED <<port, greeted, alarmDue, awaiting, inbox, serving, links, hangups>>
    BY <1>1
  <2>2. QED  BY <1>3, <2>1 DEF ConnectionInv, ConnectionTypeOK
<1>5. PortState(port)' = PortState(port)
  BY <1>1 DEF PortState
<1>6. QED  BY <1>1, <1>4, <1>5 DEF ConnectionInv, DecisionsOfThisPort, ServedOnReconciledPort

\* onMessage.
LEMMA MessageSteps ==
    ASSUME ConnectionInv, GivesUp \/ StartReady \/ Discarded \/ DiscardFails \/ Reconciles \/ Serve
    PROVE  ConnectionInv'
<1>1. CASE GivesUp
  BY <1>1, PortGivenUp DEF GivesUp, MessageUnchanged, ConnectionInv, ConnectionTypeOK
<1>2. CASE StartReady
  <2>1. /\ port # 0 /\ inbox # <<>> /\ inbox' = Tail(inbox) /\ reconciling' = "discarding"
        /\ reconciling = "none"
        /\ UNCHANGED <<port, ready, greeted, awaiting, serving, discarded, links, hangups, attempt,
                       timer, alarm, alarmDue, hostFaults, popupEvents>>
    BY <1>2 DEF StartReady, Handles, MessageUnchanged
  <2>2. inbox' \in Frames
    BY <2>1, FrameTaken
  <2>3. ConnectionTypeOK' /\ PortState(port)' = PortState(port)
    BY <2>1, <2>2 DEF ConnectionInv, ConnectionTypeOK, Frames, PortState
  <2>4. QED  BY <2>1, <2>3 DEF ConnectionInv, DecisionsOfThisPort, ServedOnReconciledPort
<1>3. CASE Discarded
  BY <1>3, DiscardedKept
<1>4. CASE DiscardFails
  <2>1. hostFaults' \in Nat
    BY <1>4 DEF DiscardFails, Faulty, ConnectionInv
  <2>2. QED  BY <1>4, <2>1, PortGivenUp DEF DiscardFails, ConnectionInv, ConnectionTypeOK
<1>5. CASE Reconciles
  <2>1. /\ port # 0 /\ reconciling \in {"clearing", "resuming"} /\ reconciling' \in {"resuming", "none"}
        /\ UNCHANGED <<port, ready, greeted, awaiting, inbox, serving, discarded, links, hangups, attempt,
                       timer, alarm, alarmDue, hostFaults, popupEvents>>
    BY <1>5 DEF Reconciles, MessageUnchanged
  <2>2. ready /\ ConnectionTypeOK' /\ PortState(port)' = PortState(port)
    BY <2>1 DEF ConnectionInv, ConnectionTypeOK, PortState
  <2>3. QED  BY <2>1, <2>2 DEF ConnectionInv, DecisionsOfThisPort, ServedOnReconciledPort
<1>6. CASE Serve
  <2>1. /\ port # 0 /\ inbox # <<>> /\ inbox' = Tail(inbox) /\ ready
        /\ serving' = serving \cup {port}
        /\ UNCHANGED <<port, ready, greeted, reconciling, awaiting, discarded, links, hangups, attempt,
                       timer, alarm, alarmDue, hostFaults, popupEvents>>
    BY <1>6 DEF Serve, Handles, MessageUnchanged
  <2>2. inbox' \in Frames /\ port \in Ports /\ port \in discarded
    BY <2>1, FrameTaken DEF ConnectionInv, ConnectionTypeOK, Ports
  <2>3. QED  BY <2>1, <2>2, PortKept DEF ConnectionInv, ConnectionTypeOK, DecisionsOfThisPort,
             ServedOnReconciledPort, Frames
<1>7. QED  BY <1>1, <1>2, <1>3, <1>4, <1>5, <1>6

\* What the extension posts, and what the port's closing does.
LEMMA PortSteps ==
    ASSUME ConnectionInv,
           Hello \/ OnDisconnect \/ EventFindsPortClosed \/ \E p \in Ports : Respond(p)
    PROVE  ConnectionInv'
<1>1. CASE Hello
  <2>1. CASE links[port].state = "open"
    <3>1. greeted' \in BOOLEAN
      BY <1>1, <2>1 DEF Hello
    <3>2. QED  BY <1>1, <2>1, <3>1, PortKept DEF Hello, ConnectionInv, ConnectionTypeOK, DecisionsOfThisPort,
               ServedOnReconciledPort
  <2>2. CASE links[port].state # "open"
    BY <1>1, <2>2, PortLost DEF Hello
  <2>3. QED  BY <2>1, <2>2
<1>2. CASE OnDisconnect
  <2>1. PICK p \in hangups :
          /\ hangups' = hangups \ {p}
          /\ IF p = port THEN Lost
             ELSE UNCHANGED <<port, ready, greeted, reconciling, attempt, timer, alarm, inbox, awaiting>>
          /\ UNCHANGED <<alarmDue, serving, discarded, links, hostFaults, popupEvents>>
    BY <1>2 DEF OnDisconnect
  <2>2. CASE p = port
    BY <2>1, <2>2, PortLost
  <2>3. CASE p # port
    <3>1. UNCHANGED <<port, ready, greeted, reconciling, attempt, timer, alarm, inbox, awaiting>>
      BY <2>1, <2>3
    <3>2. (port \in hangups' <=> port \in hangups) /\ hangups' \subseteq Ports
      BY <2>1, <2>3 DEF ConnectionInv, ConnectionTypeOK
    <3>3. ConnectionTypeOK' /\ PortState(port)' = PortState(port) /\ HungUp' = HungUp
      BY <2>1, <3>1, <3>2 DEF ConnectionInv, ConnectionTypeOK, PortState, HungUp
    <3>4. QED  BY <2>1, <3>1, <3>2, <3>3 DEF ConnectionInv, DecisionsOfThisPort, ServedOnReconciledPort
  <2>4. QED  BY <2>2, <2>3
<1>3. CASE EventFindsPortClosed
  BY <1>3, PortLost DEF EventFindsPortClosed
<1>4. ASSUME NEW p \in Ports, Respond(p)
      PROVE  ConnectionInv'
  <2>1. CASE p = port /\ links[p].state # "open"
    BY <1>4, <2>1, PortLost DEF Respond
  <2>2. CASE ~(p = port /\ links[p].state # "open")
    BY <1>4, <2>2, PortKept DEF Respond, ConnectionInv, ConnectionTypeOK, DecisionsOfThisPort,
       ServedOnReconciledPort
  <2>3. QED  BY <2>1, <2>2
<1>5. QED  BY <1>1, <1>2, <1>3, <1>4

\* The popup's decisions.
LEMMA DecisionSteps ==
    ASSUME ConnectionInv, PopupDecides \/ Acknowledged \/ AcknowledgedLate \/ AckTimesOut
    PROVE  ConnectionInv'
<1>1. UNCHANGED <<port, ready, greeted, reconciling, attempt, timer, alarm, alarmDue, serving,
                  discarded, links, hangups, hostFaults>>
  BY DEF PopupDecides, Acknowledged, AcknowledgedLate, AckTimesOut, MessageUnchanged
<1>2. inbox' \in Frames
  <2>1. CASE Acknowledged \/ AcknowledgedLate
    BY <2>1, FrameTaken DEF Acknowledged, AcknowledgedLate, Handles
  <2>2. CASE PopupDecides \/ AckTimesOut
    BY <2>2 DEF PopupDecides, AckTimesOut, ConnectionInv, ConnectionTypeOK, Frames
  <2>3. QED  BY <2>1, <2>2
<1>3. /\ popupEvents' \in Nat /\ awaiting' \subseteq [event : 1 .. MaxPopupEvents, port : Ports]
      /\ \A e \in awaiting' : e.port = port
  <2>1. CASE PopupDecides
    <3>1. /\ port \in Ports /\ popupEvents + 1 \in 1 .. MaxPopupEvents /\ popupEvents' = popupEvents + 1
          /\ awaiting' = awaiting \cup {[event |-> popupEvents + 1, port |-> port]}
      BY <2>1, ConnectionConstants DEF PopupDecides, ConnectionInv, ConnectionTypeOK, Ports
    <3>2. QED  BY <3>1 DEF ConnectionInv, ConnectionTypeOK, DecisionsOfThisPort
  <2>2. CASE Acknowledged \/ AckTimesOut
    <3>1. awaiting' \subseteq awaiting /\ popupEvents' = popupEvents
      BY <2>2 DEF Acknowledged, AckTimesOut, MessageUnchanged
    <3>2. QED  BY <3>1 DEF ConnectionInv, ConnectionTypeOK, DecisionsOfThisPort
  <2>3. CASE AcknowledgedLate
    BY <2>3 DEF AcknowledgedLate, MessageUnchanged, ConnectionInv, ConnectionTypeOK, DecisionsOfThisPort
  <2>4. QED  BY <2>1, <2>2, <2>3
<1>4. QED  BY <1>1, <1>2, <1>3, PortKept DEF ConnectionInv, ConnectionTypeOK, ServedOnReconciledPort, Frames

LEMMA ConnectionStep == ConnectionInv /\ [ConnectionNext]_connectionVars => ConnectionInv'
<1>1. ConnectionInv /\ ConnectionNext => ConnectionInv'
  BY TimersRun, HostSteps, MessageSteps, PortSteps, DecisionSteps DEF ConnectionNext
<1>2. ConnectionInv /\ UNCHANGED connectionVars => ConnectionInv'
  BY DEF connectionVars, ConnectionInv, ConnectionTypeOK, DecisionsOfThisPort, ServedOnReconciledPort,
         HungUp, PortState
<1>3. QED  BY <1>1, <1>2

(* Whatever its hosts do, a popup decision waits only on the port it was sent on, no    *)
(* command is served before the ready of its port has discarded the stale stages, and a *)
(* bridge without a ready port waits for something (NativeBridge).                      *)
THEOREM PortsAreTrusted == ConnectionSpec => []PortsTrusted
BY ConnectionBegins, ConnectionStep, ConnectionInvIsEnough, PTL DEF ConnectionSpec

--------------------------------
(* PermissionCleanup: the writes of the worker are done in order, so a tab is in       *)
(* storage from before its attach until after its detach, and a cleanup that closes its *)
(* request has scrubbed what was attached when it marked                               *)

CleanupType == [at : {"idle", "queued", "draining", "marking", "scrubbing", "writing", "closing"},
                epoch : Nat, left : SUBSET Page, failed : BOOLEAN]

\* The last event that is still to come says how the grant stands.
EventsTellTheGrant ==
  permissionEvents # <<>> =>
    permissionEvents[Len(permissionEvents)] = IF scripting THEN "added" ELSE "removed"

\* A worker that is down holds nothing.
NothingWhenDown ==
  worker = "down" =>
    /\ \A t \in Page : use[t] = "none"
    /\ writes = <<>> /\ cleanup.at = "idle" /\ \A a \in Askers : asked[a] = "none"
    /\ sessions = {}

\* No command gets past its authorization during a cleanup, and none is left once it marks.
CleanupHoldsUses ==
  /\ cleanup.at \in {"draining", "marking", "scrubbing", "writing"} => cleanupPending
  /\ cleanup.at \in {"marking", "scrubbing", "writing"} => \A t \in Page : use[t] = "none"

\* What is attached is still to be scrubbed, unless a detach has failed.
CleanupScrubsAll ==
  /\ cleanup.at = "scrubbing" /\ ~cleanup.failed => attached \subseteq cleanup.left
  /\ cleanup.at = "writing" => attached = {}

\* A tab is forgotten while it is detached; who records it again does so after that.
ForgetsTheDetached ==
  \A i \in DOMAIN writes : writes[i].kind = "forget" =>
    /\ writes[i].tab \notin attached /\ use[writes[i].tab] \notin {"attaching", "using"}
    /\ use[writes[i].tab] = "recording" =>
         \E j \in DOMAIN writes : j > i /\ writes[j].kind = "record" /\ writes[j].tab = writes[i].tab

\* Each write has one who waits for it, and who waits has asked once.
WritesAwaited ==
  /\ \A i \in DOMAIN writes :
       /\ writes[i].kind = "mark" => cleanup.at = "marking"
       /\ writes[i].kind = "close" => cleanup.at = "writing"
       /\ writes[i].kind = "record" => use[writes[i].tab] = "recording"
  /\ \A i, j \in DOMAIN writes : i # j /\ writes[i].kind = writes[j].kind =>
       /\ writes[i].kind \notin {"mark", "close"}
       /\ writes[i].kind = "record" => writes[i].tab # writes[j].tab

\* A tab is recorded before the attach.
RecordedFirst ==
  /\ attached \subseteq saved.tabIds /\ sessions \subseteq attached
  /\ \A t \in Page : use[t] = "attaching" => t \in saved.tabIds

NoneUnlessGranted ==
  Off /\ worker # "down" /\ ~cleanupPending =>
    attached = {} /\ \A t \in Page : use[t] \notin {"recording", "attaching"}

PermissionInv ==
  /\ PermissionTypeOK /\ cleanup \in CleanupType
  /\ EventsTellTheGrant /\ NothingWhenDown /\ CleanupHoldsUses /\ CleanupScrubsAll
  /\ ForgetsTheDetached /\ WritesAwaited /\ RecordedFirst /\ NoneUnlessGranted

LEMMA PermissionInvIsEnough == PermissionInv => AttachmentsAccounted
<1> SUFFICES ASSUME PermissionInv PROVE AttachmentsAccounted
  OBVIOUS
<1>1. CleanedMeansDetached
  BY DEF PermissionInv, NoneUnlessGranted, CleanedMeansDetached
<1>2. QED  BY <1>1 DEF PermissionInv, AttachmentsAccounted, RecordedFirst, AttachedIsRecorded

--------------------------------
(* The queue of writes *)

LEMMA WriteKinds ==
    ASSUME NEW w \in Writes
    PROVE  /\ w.kind \in {"request", "mark", "close", "record", "forget"}
           /\ w.kind = "request" => w.epoch \in Nat
           /\ w.kind \in {"record", "forget"} => w.tab \in Page
BY DEF Writes

LEMMA WriteAdded ==
    ASSUME NEW q, q \in Seq(Writes), NEW w \in Writes, NEW r, r = Append(q, w)
    PROVE  /\ r \in Seq(Writes) /\ Len(q) \in Nat
           /\ \A i \in DOMAIN q : i \in DOMAIN r /\ r[i] = q[i] /\ i < Len(q) + 1 /\ i \in Nat
           /\ Len(q) + 1 \in DOMAIN r /\ r[Len(q) + 1] = w
           /\ \A i \in DOMAIN r : i \in DOMAIN q \/ i = Len(q) + 1
<1>1. r \in Seq(Writes) /\ Len(r) = Len(q) + 1 /\ Len(q) \in Nat /\ r[Len(q) + 1] = w
      /\ \A i \in 1 .. Len(q) : r[i] = q[i]
  BY AppendProperties
<1>2. DOMAIN r = 1 .. Len(q) + 1 /\ DOMAIN q = 1 .. Len(q)
  BY <1>1
<1>3. QED  BY <1>1, <1>2

LEMMA WriteTaken ==
    ASSUME NEW q, q \in Seq(Writes), q # <<>>, NEW r, r = Tail(q)
    PROVE  /\ r \in Seq(Writes) /\ Head(q) = q[1] /\ 1 \in DOMAIN q /\ q[1] \in Writes
           /\ \A i \in DOMAIN r : i + 1 \in DOMAIN q /\ r[i] = q[i + 1] /\ i \in Nat /\ i + 1 # 1
           /\ \A i \in DOMAIN q : i # 1 => i - 1 \in DOMAIN r /\ r[i - 1] = q[i] /\ i \in Nat
<1>1. /\ r \in Seq(Writes) /\ Len(r) = Len(q) - 1 /\ Len(q) \in Nat /\ Len(q) > 0
      /\ \A i \in 1 .. Len(r) : r[i] = q[i + 1] /\ Head(q) = q[1]
  BY HeadTailProperties, EmptySeq
<1>2. DOMAIN r = 1 .. Len(q) - 1 /\ DOMAIN q = 1 .. Len(q)
  BY <1>1
<1>3. Head(q) = q[1] /\ q[1] \in Writes
  BY <1>1, <1>2
<1>4. QED  BY <1>1, <1>2, <1>3

\* What a step may do to the uses while writes wait.
UsesGoOn ==
  /\ cleanup.at \in {"marking", "writing"} => cleanup'.at = cleanup.at
  /\ \A t \in Page : use[t] = "recording" <=> use'[t] = "recording"
  /\ \A t \in Page : use'[t] \in {"attaching", "using"} =>
       use[t] \in {"attaching", "using"} \/ t \in attached
  /\ \A t \in attached' : t \in attached \/ use[t] = "attaching"

LEMMA QueueWaits ==
    ASSUME PermissionInv, UsesGoOn, writes' = writes
    PROVE  ForgetsTheDetached' /\ WritesAwaited'
<1>1. \A i \in DOMAIN writes : writes[i].kind \in {"record", "forget"} => writes[i].tab \in Page
  BY WriteKinds DEF PermissionInv, PermissionTypeOK
<1>2. ForgetsTheDetached'
  BY <1>1 DEF PermissionInv, ForgetsTheDetached, UsesGoOn
<1>3. WritesAwaited'
  BY <1>1 DEF PermissionInv, WritesAwaited, UsesGoOn
<1>4. QED  BY <1>2, <1>3

\* A request is added to the queue.
LEMMA QueueGrows ==
    ASSUME PermissionInv, UsesGoOn, NEW w \in Writes, writes' = Append(writes, w),
           w.kind \in {"request", "forget"},
           w.kind = "forget" => w.tab \notin attached' /\ use'[w.tab] \notin {"recording", "attaching", "using"}
    PROVE  ForgetsTheDetached' /\ WritesAwaited' /\ writes' \in Seq(Writes)
<1>1. \A i \in DOMAIN writes : writes[i].kind \in {"record", "forget"} => writes[i].tab \in Page
  BY WriteKinds DEF PermissionInv, PermissionTypeOK
<1>2. writes \in Seq(Writes)
  BY DEF PermissionInv, PermissionTypeOK
<1>3. /\ writes' \in Seq(Writes)
      /\ \A i \in DOMAIN writes : i \in DOMAIN writes' /\ writes'[i] = writes[i]
      /\ \A i \in DOMAIN writes' : i \in DOMAIN writes \/ (i = Len(writes) + 1 /\ writes'[i] = w)
  BY <1>2, WriteAdded
<1>4. w.kind = "forget" => w.tab \in Page
  BY WriteKinds
<1>5. ASSUME NEW i \in DOMAIN writes', writes'[i].kind = "forget"
      PROVE  /\ writes'[i].tab \notin attached' /\ use'[writes'[i].tab] \notin {"attaching", "using"}
             /\ use'[writes'[i].tab] = "recording" =>
                  \E j \in DOMAIN writes' : /\ j > i /\ writes'[j].kind = "record"
                                            /\ writes'[j].tab = writes'[i].tab
  <2>1. CASE i \in DOMAIN writes
    <3>1. writes'[i] = writes[i] /\ writes[i].kind = "forget" /\ writes[i].tab \in Page
      BY <1>1, <1>3, <1>5, <2>1
    <3>2. /\ writes[i].tab \notin attached /\ use[writes[i].tab] \notin {"attaching", "using"}
          /\ use[writes[i].tab] = "recording" =>
               \E j \in DOMAIN writes : j > i /\ writes[j].kind = "record" /\ writes[j].tab = writes[i].tab
      BY <2>1, <3>1 DEF PermissionInv, ForgetsTheDetached
    <3>3. QED  BY <1>3, <3>1, <3>2 DEF UsesGoOn
  <2>2. CASE i \notin DOMAIN writes
    BY <1>3, <1>4, <1>5, <2>2 DEF UsesGoOn
  <2>3. QED  BY <2>1, <2>2
<1>6. ForgetsTheDetached'
  BY <1>5 DEF ForgetsTheDetached
<1>7. WritesAwaited'
  <2>1. \A i \in DOMAIN writes' : writes'[i].kind \in {"mark", "close", "record"} =>
          i \in DOMAIN writes /\ writes'[i] = writes[i]
    BY <1>3
  <2>2. QED  BY <1>1, <2>1 DEF PermissionInv, WritesAwaited, UsesGoOn
<1>8. QED  BY <1>3, <1>6, <1>7

\* A write is done that nobody waits for.
LEMMA QueueShrinks ==
    ASSUME PermissionInv, writes # <<>>, writes' = Tail(writes),
           cleanup.at \in {"marking", "writing"} =>
              cleanup'.at = cleanup.at \/ writes[1].kind \in {"mark", "close"},
           \A t \in Page : use[t] = "recording" =>
              use'[t] = "recording" \/ (writes[1].kind = "record" /\ writes[1].tab = t),
           \A t \in Page : use'[t] = "recording" => use[t] = "recording",
           \A t \in Page : use'[t] \in {"attaching", "using"} =>
              \/ use[t] \in {"attaching", "using"}
              \/ (writes[1].kind = "record" /\ writes[1].tab = t),
           attached' = attached
    PROVE  ForgetsTheDetached' /\ WritesAwaited' /\ writes' \in Seq(Writes)
<1>1. \A i \in DOMAIN writes : writes[i].kind \in {"record", "forget"} => writes[i].tab \in Page
  BY WriteKinds DEF PermissionInv, PermissionTypeOK
<1>2. writes \in Seq(Writes)
  BY DEF PermissionInv, PermissionTypeOK
<1>3. /\ writes' \in Seq(Writes) /\ 1 \in DOMAIN writes /\ writes[1] \in Writes
      /\ \A i \in DOMAIN writes' : /\ i + 1 \in DOMAIN writes /\ writes'[i] = writes[i + 1] /\ i \in Nat
                                   /\ i + 1 # 1
      /\ \A i \in DOMAIN writes : i # 1 => i - 1 \in DOMAIN writes' /\ writes'[i - 1] = writes[i] /\ i \in Nat
  BY <1>2, WriteTaken
<1>4. ASSUME NEW i \in DOMAIN writes', writes'[i].kind = "forget"
      PROVE  /\ writes'[i].tab \notin attached' /\ use'[writes'[i].tab] \notin {"attaching", "using"}
             /\ use'[writes'[i].tab] = "recording" =>
                  \E j \in DOMAIN writes' : /\ j > i /\ writes'[j].kind = "record"
                                            /\ writes'[j].tab = writes'[i].tab
  <2> DEFINE t == writes[i + 1].tab
  <2>1. /\ writes'[i] = writes[i + 1] /\ i + 1 \in DOMAIN writes /\ i \in Nat
        /\ writes[i + 1].kind = "forget" /\ t \in Page
    BY <1>1, <1>3, <1>4
  <2>2. /\ t \notin attached /\ use[t] \notin {"attaching", "using"}
        /\ use[t] = "recording" =>
             \E j \in DOMAIN writes : j > i + 1 /\ writes[j].kind = "record" /\ writes[j].tab = t
    BY <2>1 DEF PermissionInv, ForgetsTheDetached
  <2>3. ~(writes[1].kind = "record" /\ writes[1].tab = t)
    <3>1. SUFFICES ASSUME writes[1].kind = "record", writes[1].tab = t PROVE FALSE
      OBVIOUS
    <3>2. use[t] = "recording"
      BY <1>3, <3>1 DEF PermissionInv, WritesAwaited
    <3>3. PICK j \in DOMAIN writes : j > i + 1 /\ writes[j].kind = "record" /\ writes[j].tab = t
      BY <2>2, <3>2
    <3>4. j # 1
      BY <2>1, <3>3
    <3>5. QED  BY <1>3, <3>1, <3>3, <3>4 DEF PermissionInv, WritesAwaited
  <2>4. use'[t] \notin {"attaching", "using"} /\ (use'[t] = "recording" => use[t] = "recording")
    BY <2>1, <2>2, <2>3
  <2>5. use'[t] = "recording" => \E j \in DOMAIN writes' : j > i /\ writes'[j].kind = "record" /\ writes'[j].tab = t
    <3>1. HAVE use'[t] = "recording"
    <3>2. PICK j \in DOMAIN writes : j > i + 1 /\ writes[j].kind = "record" /\ writes[j].tab = t
      BY <2>2, <2>4, <3>1
    <3>3. j # 1 /\ j - 1 \in DOMAIN writes' /\ writes'[j - 1] = writes[j] /\ j \in Nat
      BY <1>3, <2>1, <3>2
    <3>4. j - 1 > i
      BY <2>1, <3>2, <3>3
    <3>5. QED  BY <3>2, <3>3, <3>4
  <2>6. QED  BY <2>1, <2>2, <2>4, <2>5
<1>5. ForgetsTheDetached'
  BY <1>4 DEF ForgetsTheDetached
<1>6. ASSUME NEW i \in DOMAIN writes'
      PROVE  /\ writes'[i].kind = "mark" => cleanup'.at = "marking"
             /\ writes'[i].kind = "close" => cleanup'.at = "writing"
             /\ writes'[i].kind = "record" => use'[writes'[i].tab] = "recording"
  <2>1. /\ writes'[i] = writes[i + 1] /\ i + 1 \in DOMAIN writes /\ i + 1 # 1
    BY <1>3
  <2>2. /\ writes[i + 1].kind = "mark" => cleanup.at = "marking"
        /\ writes[i + 1].kind = "close" => cleanup.at = "writing"
        /\ writes[i + 1].kind = "record" => use[writes[i + 1].tab] = "recording"
    BY <2>1 DEF PermissionInv, WritesAwaited
  <2>3. writes[1].kind = writes[i + 1].kind =>
          /\ writes[1].kind \notin {"mark", "close"}
          /\ writes[1].kind = "record" => writes[1].tab # writes[i + 1].tab
    BY <1>3, <2>1 DEF PermissionInv, WritesAwaited
  <2>4. /\ writes[1].kind = "mark" => cleanup.at = "marking"
        /\ writes[1].kind = "close" => cleanup.at = "writing"
    BY <1>3 DEF PermissionInv, WritesAwaited
  <2>5. QED  BY <1>1, <2>1, <2>2, <2>3, <2>4
<1>7. \A i, j \in DOMAIN writes' : i # j /\ writes'[i].kind = writes'[j].kind =>
       /\ writes'[i].kind \notin {"mark", "close"}
       /\ writes'[i].kind = "record" => writes'[i].tab # writes'[j].tab
  <2>1. \A i, j \in DOMAIN writes' : i # j => i + 1 # j + 1
    BY <1>3
  <2>2. QED  BY <1>3, <2>1 DEF PermissionInv, WritesAwaited
<1>8. WritesAwaited'
  BY <1>6, <1>7 DEF WritesAwaited
<1>9. QED  BY <1>3, <1>5, <1>8

\* A cleanup asks for a write, and is in the place where it waits for it.
LEMMA QueueAsked ==
    ASSUME PermissionInv, NEW w \in Writes, writes' = Append(writes, w),
           cleanup.at \notin {"marking", "writing"},
           \/ w.kind = "mark" /\ cleanup'.at = "marking"
           \/ w.kind = "close" /\ cleanup'.at = "writing",
           use' = use, attached' = attached
    PROVE  ForgetsTheDetached' /\ WritesAwaited' /\ writes' \in Seq(Writes)
<1>1. writes \in Seq(Writes)
  BY DEF PermissionInv, PermissionTypeOK
<1>2. /\ writes' \in Seq(Writes)
      /\ \A i \in DOMAIN writes : i \in DOMAIN writes' /\ writes'[i] = writes[i]
      /\ \A i \in DOMAIN writes' : i \in DOMAIN writes \/ (i = Len(writes) + 1 /\ writes'[i] = w)
  BY <1>1, WriteAdded
<1>3. ForgetsTheDetached'
  BY <1>2 DEF PermissionInv, ForgetsTheDetached
<1>4. \A i \in DOMAIN writes : writes[i].kind \notin {"mark", "close"}
  BY DEF PermissionInv, WritesAwaited
<1>5. \A i \in DOMAIN writes' : /\ writes'[i].kind = "mark" => cleanup'.at = "marking"
                                /\ writes'[i].kind = "close" => cleanup'.at = "writing"
                                /\ writes'[i].kind = "record" => use'[writes'[i].tab] = "recording"
  BY <1>2, <1>4 DEF PermissionInv, WritesAwaited
<1>6. \A i, j \in DOMAIN writes' : i # j /\ writes'[i].kind = writes'[j].kind =>
       i \in DOMAIN writes /\ j \in DOMAIN writes
  BY <1>2, <1>4
<1>7. WritesAwaited'
  BY <1>2, <1>5, <1>6 DEF PermissionInv, WritesAwaited
<1>8. QED  BY <1>2, <1>3, <1>7

\* A command asks for its tab to be recorded.
LEMMA QueueRecords ==
    ASSUME PermissionInv, NEW t \in Page, NEW w \in Writes, w.kind = "record", w.tab = t,
           writes' = Append(writes, w), use[t] = "asking", use' = [use EXCEPT ![t] = "recording"],
           UNCHANGED <<cleanup, attached>>
    PROVE  ForgetsTheDetached' /\ WritesAwaited' /\ writes' \in Seq(Writes)
<1>1. writes \in Seq(Writes) /\ DOMAIN use = Page
  BY DEF PermissionInv, PermissionTypeOK
<1>2. /\ writes' \in Seq(Writes) /\ Len(writes) \in Nat
      /\ \A i \in DOMAIN writes : i \in DOMAIN writes' /\ writes'[i] = writes[i] /\ i < Len(writes) + 1
      /\ Len(writes) + 1 \in DOMAIN writes' /\ writes'[Len(writes) + 1] = w
      /\ \A i \in DOMAIN writes' : i \in DOMAIN writes \/ i = Len(writes) + 1
  BY <1>1, WriteAdded
<1>3. use'[t] = "recording" /\ \A u \in Page : u # t => use'[u] = use[u]
  BY <1>1
<1>4. \A i \in DOMAIN writes : writes[i].kind \in {"record", "forget"} => writes[i].tab \in Page
  BY WriteKinds DEF PermissionInv, PermissionTypeOK
<1>5. ASSUME NEW i \in DOMAIN writes', writes'[i].kind = "forget"
      PROVE  /\ writes'[i].tab \notin attached' /\ use'[writes'[i].tab] \notin {"attaching", "using"}
             /\ use'[writes'[i].tab] = "recording" =>
                  \E j \in DOMAIN writes' : /\ j > i /\ writes'[j].kind = "record"
                                            /\ writes'[j].tab = writes'[i].tab
  <2>1. i \in DOMAIN writes /\ writes'[i] = writes[i] /\ writes[i].tab \in Page /\ Len(writes) + 1 > i
    <3>1. i \in DOMAIN writes
      BY <1>2, <1>5
    <3>2. i \in Nat /\ i < Len(writes) + 1
      BY <1>1, <1>2, <3>1
    <3>3. QED  BY <1>2, <1>4, <1>5, <3>1, <3>2
  <2>2. /\ writes[i].tab \notin attached /\ use[writes[i].tab] \notin {"attaching", "using"}
        /\ use[writes[i].tab] = "recording" =>
             \E j \in DOMAIN writes : j > i /\ writes[j].kind = "record" /\ writes[j].tab = writes[i].tab
    BY <1>5, <2>1 DEF PermissionInv, ForgetsTheDetached
  <2>3. CASE writes[i].tab = t
    BY <1>2, <1>3, <2>1, <2>2, <2>3
  <2>4. CASE writes[i].tab # t
    BY <1>2, <1>3, <2>1, <2>2, <2>4
  <2>5. QED  BY <2>3, <2>4
<1>6. ForgetsTheDetached'
  BY <1>5 DEF ForgetsTheDetached
<1>7. \A i \in DOMAIN writes : writes[i].kind = "record" => writes[i].tab # t
  BY DEF PermissionInv, WritesAwaited
<1>8. \A i \in DOMAIN writes' : /\ writes'[i].kind = "mark" => cleanup'.at = "marking"
                                /\ writes'[i].kind = "close" => cleanup'.at = "writing"
                                /\ writes'[i].kind = "record" => use'[writes'[i].tab] = "recording"
  <2>1. TAKE i \in DOMAIN writes'
  <2>2. CASE i \in DOMAIN writes
    BY <1>2, <1>3, <1>4, <1>7, <2>2 DEF PermissionInv, WritesAwaited
  <2>3. CASE i = Len(writes) + 1
    BY <1>2, <1>3, <2>3
  <2>4. QED  BY <1>2, <2>1, <2>2, <2>3
<1>9. \A i, j \in DOMAIN writes' : i # j /\ writes'[i].kind = writes'[j].kind =>
       /\ writes'[i].kind \notin {"mark", "close"}
       /\ writes'[i].kind = "record" => writes'[i].tab # writes'[j].tab
  BY <1>2, <1>7 DEF PermissionInv, WritesAwaited
<1>10. WritesAwaited'
  BY <1>8, <1>9 DEF WritesAwaited
<1>11. QED  BY <1>2, <1>6, <1>10

--------------------------------
(* The permission and its events *)

LEMMA FreshCleanup ==
    /\ CleanupIdle \in CleanupType /\ CleanupIdle.at = "idle"
    /\ [CleanupIdle EXCEPT !.at = "queued"] \in CleanupType
    /\ [CleanupIdle EXCEPT !.at = "queued"].at = "queued"
<1>1. PICK f \in BOOLEAN : f = FALSE
  BY Zenon
<1>2. CleanupIdle = [at |-> "idle", epoch |-> 0, left |-> {}, failed |-> f]
  BY <1>1, Zenon DEF CleanupIdle
<1>3. QED  BY <1>2 DEF CleanupType

LEMMA CleanupQueued ==
    ASSUME PermissionInv, QueueCleanup
    PROVE  /\ cleanup' \in CleanupType /\ (cleanup' = cleanup \/ (cleanup.at = "idle" /\ cleanup'.at = "queued"))
           /\ queuedAgain' \in BOOLEAN
<1>1. queuedAgain' \in BOOLEAN
  BY DEF QueueCleanup, PermissionInv, PermissionTypeOK
<1>2. QED  BY <1>1, FreshCleanup DEF QueueCleanup, Queued, PermissionInv

LEMMA CleanupNext ==
    ASSUME PermissionInv, NextRun
    PROVE  cleanup' \in CleanupType /\ cleanup'.at \in {"idle", "queued"} /\ queuedAgain' \in BOOLEAN
<1>1. queuedAgain' \in BOOLEAN
  BY DEF NextRun
<1>2. QED  BY <1>1, FreshCleanup DEF NextRun

\* A step that leaves the debugger and its uses alone.
LEMMA UsesKept ==
    ASSUME PermissionInv, UNCHANGED <<attached, use, sessions>>,
           saved.tabIds \subseteq saved'.tabIds, cleanup' \in CleanupType,
           cleanupPending => cleanupPending',
           \/ cleanup' = cleanup
           \/ cleanup'.at \in {"idle", "queued", "closing"}
           \/ cleanup'.at = "draining" /\ cleanupPending',
           Off' /\ worker' # "down" /\ ~cleanupPending' => Off /\ worker # "down" /\ ~cleanupPending,
           PermissionTypeOK', EventsTellTheGrant', worker' = "down" => NothingWhenDown',
           ForgetsTheDetached' /\ WritesAwaited'
    PROVE  PermissionInv'
<1>1. NothingWhenDown'
  BY DEF NothingWhenDown
<1>2. CleanupHoldsUses'
  BY DEF PermissionInv, CleanupHoldsUses
<1>3. CleanupScrubsAll'
  BY DEF PermissionInv, CleanupScrubsAll
<1>4. RecordedFirst'
  BY DEF PermissionInv, RecordedFirst
<1>5. NoneUnlessGranted'
  BY DEF PermissionInv, NoneUnlessGranted
<1>6. QED  BY <1>1, <1>2, <1>3, <1>4, <1>5 DEF PermissionInv

LEMMA EventAdded ==
    ASSUME NEW q, q \in Seq({"added", "removed"}), NEW e \in {"added", "removed"}, NEW r, r = Append(q, e)
    PROVE  r \in Seq({"added", "removed"}) /\ r # <<>> /\ r[Len(r)] = e
<1>1. r \in Seq({"added", "removed"}) /\ Len(r) = Len(q) + 1 /\ Len(q) \in Nat /\ r[Len(q) + 1] = e
  BY AppendProperties
<1>2. r # <<>>
  BY <1>1, EmptySeq
<1>3. QED  BY <1>1, <1>2

LEMMA EventHeard ==
    ASSUME NEW q, q \in Seq({"added", "removed"}), q # <<>>, NEW r, r = Tail(q)
    PROVE  /\ r \in Seq({"added", "removed"})
           /\ r # <<>> => r[Len(r)] = q[Len(q)]
           /\ r = <<>> => Head(q) = q[Len(q)]
<1>1. /\ r \in Seq({"added", "removed"}) /\ Len(r) = Len(q) - 1 /\ Len(q) \in Nat /\ Len(q) > 0
      /\ \A i \in 1 .. Len(r) : r[i] = q[i + 1] /\ Head(q) = q[1]
  BY HeadTailProperties, EmptySeq
<1>2. Head(q) = q[1]
  BY <1>1
<1>3. r = <<>> => Len(q) = 1
  <2>1. r = <<>> => Len(r) = 0
    OBVIOUS
  <2>2. QED  BY <1>1, <2>1
<1>4. r # <<>> => Len(r) \in 1 .. Len(r)
  BY <1>1, EmptySeq
<1>5. QED  BY <1>1, <1>2, <1>3, <1>4

LEMMA GrantSteps ==
    ASSUME PermissionInv, Toggle \/ OnRemoved \/ OnAdded
    PROVE  PermissionInv'
<1>1. CASE Toggle
  <2>1. /\ scripting' = ~scripting /\ UNCHANGED workerVars /\ UNCHANGED <<attached, saved, retryAlarm>>
        /\ permissionEvents' = Append(permissionEvents, IF scripting THEN "removed" ELSE "added")
    BY <1>1 DEF Toggle
  <2>2. UNCHANGED <<worker, cleanupPending, cleanupEpoch, writes, cleanup, queuedAgain,
                    asked, permits, use, sessions, candidates, attached, saved, retryAlarm>>
    BY <2>1 DEF workerVars
  <2>3. /\ permissionEvents' \in Seq({"added", "removed"}) /\ permissionEvents' # <<>>
        /\ permissionEvents'[Len(permissionEvents')] = IF scripting THEN "removed" ELSE "added"
    <3>1. PICK e \in {"added", "removed"} : e = IF scripting THEN "removed" ELSE "added"
      OBVIOUS
    <3>2. permissionEvents' = Append(permissionEvents, e)
      BY <2>1, <3>1
    <3>3. QED  BY <3>1, <3>2, EventAdded DEF PermissionInv, PermissionTypeOK
  <2>4. scripting' \in BOOLEAN
    BY <2>1
  <2>5. PermissionTypeOK'
    BY <2>2, <2>3, <2>4 DEF PermissionInv, PermissionTypeOK
  <2>6. EventsTellTheGrant'
    BY <2>1, <2>3 DEF EventsTellTheGrant, PermissionInv, PermissionTypeOK
  <2>7. ForgetsTheDetached' /\ WritesAwaited' /\ NothingWhenDown'
    BY <2>2 DEF PermissionInv, ForgetsTheDetached, WritesAwaited, NothingWhenDown
  <2>8. QED  BY <2>2, <2>3, <2>5, <2>6, <2>7, UsesKept DEF Off, PermissionInv
<1>2. CASE OnRemoved
  <2>1. /\ worker # "down" /\ permissionEvents # <<>> /\ permissionEvents' = Tail(permissionEvents)
        /\ permits' = FALSE /\ cleanupPending' = TRUE /\ cleanupEpoch' = cleanupEpoch + 1
        /\ writes' = Append(writes, [kind |-> "request", epoch |-> cleanupEpoch + 1])
        /\ UNCHANGED <<scripting, attached, saved, retryAlarm, worker, cleanup, queuedAgain, asked,
                       use, sessions, candidates>>
    BY <1>2 DEF OnRemoved
  <2>2. cleanupEpoch + 1 \in Nat
    BY DEF PermissionInv, PermissionTypeOK
  <2>3. PICK w : w = [kind |-> "request", epoch |-> cleanupEpoch + 1]
    OBVIOUS
  <2>4. w \in Writes /\ w.kind = "request"
    BY <2>2, <2>3 DEF Writes
  <2>5. ForgetsTheDetached' /\ WritesAwaited' /\ writes' \in Seq(Writes)
    <3>1. UsesGoOn
      BY <2>1 DEF UsesGoOn
    <3>2. QED  BY <2>1, <2>3, <2>4, <3>1, QueueGrows
  <2>6. permissionEvents' \in Seq({"added", "removed"}) /\ EventsTellTheGrant'
    BY <2>1, EventHeard DEF PermissionInv, PermissionTypeOK, EventsTellTheGrant
  <2>7. permits' \in BOOLEAN /\ cleanupPending' \in BOOLEAN /\ cleanupPending'
    BY <2>1
  <2>8. PermissionTypeOK'
    <3>1. UNCHANGED <<scripting, attached, saved, retryAlarm, worker, cleanup, queuedAgain, asked,
                      use, sessions, candidates>> /\ cleanupEpoch' = cleanupEpoch + 1
      BY <2>1
    <3>2. QED  BY <2>2, <2>5, <2>6, <2>7, <3>1 DEF PermissionInv, PermissionTypeOK
  <2>9. QED  BY <2>1, <2>5, <2>6, <2>7, <2>8, UsesKept DEF PermissionInv
<1>3. CASE OnAdded
  <2>1. /\ worker = "up" /\ permissionEvents # <<>> /\ permissionEvents' = Tail(permissionEvents)
        /\ Head(permissionEvents) = "added"
        /\ UNCHANGED <<scripting, attached, saved, retryAlarm, worker, cleanupPending, cleanupEpoch,
                       writes, permits, use, sessions, candidates>>
        /\ \/ QueueCleanup /\ UNCHANGED asked
           \/ asked' = [asked EXCEPT !["added"] = "reading"] /\ UNCHANGED <<cleanup, queuedAgain>>
    BY <1>3 DEF OnAdded
  <2>2. /\ permissionEvents' \in Seq({"added", "removed"})
        /\ permissionEvents' # <<>> => permissionEvents'[Len(permissionEvents')] = permissionEvents[Len(permissionEvents)]
        /\ permissionEvents' = <<>> => permissionEvents[Len(permissionEvents)] = "added"
    BY <2>1, EventHeard DEF PermissionInv, PermissionTypeOK
  <2>3. EventsTellTheGrant' /\ (Off' => Off)
    BY <2>1, <2>2 DEF PermissionInv, EventsTellTheGrant, Off
  <2>4. cleanup' \in CleanupType /\ queuedAgain' \in BOOLEAN
        /\ (cleanup' = cleanup \/ (cleanup.at = "idle" /\ cleanup'.at = "queued"))
    BY <2>1, CleanupQueued DEF PermissionInv, PermissionTypeOK
  <2>5. asked' \in [Askers -> {"none", "reading", "yes", "no"}]
    BY <2>1 DEF PermissionInv, PermissionTypeOK
  <2>6. PermissionTypeOK'
    BY <2>1, <2>2, <2>4, <2>5 DEF PermissionInv, PermissionTypeOK, CleanupType
  <2>7. ForgetsTheDetached' /\ WritesAwaited'
    <3>1. UsesGoOn
      BY <2>1, <2>4 DEF UsesGoOn
    <3>2. QED  BY <2>1, <3>1, QueueWaits
  <2>8. QED  BY <2>1, <2>3, <2>4, <2>6, <2>7, UsesKept
<1>4. QED  BY <1>1, <1>2, <1>3

LEMMA AskSteps ==
    ASSUME PermissionInv, NEW a \in Askers, Ask(a) \/ Restore(a)
    PROVE  PermissionInv'
<1>1. CASE Ask(a)
  <2>1. /\ asked[a] = "reading" /\ asked' = [asked EXCEPT ![a] = Answer]
        /\ UNCHANGED <<saved, retryAlarm, worker, cleanupPending, cleanupEpoch, writes,
                       cleanup, queuedAgain, permits, use, sessions, candidates, scripting,
                       permissionEvents, attached>>
    BY <1>1 DEF Ask, chromeVars
  <2>2. asked' \in [Askers -> {"none", "reading", "yes", "no"}]
    BY <2>1 DEF PermissionInv, PermissionTypeOK, Answer
  <2>3. PermissionTypeOK' /\ EventsTellTheGrant'
    BY <2>1, <2>2 DEF PermissionInv, PermissionTypeOK, EventsTellTheGrant
  <2>4. worker # "down"
    BY <2>1 DEF PermissionInv, NothingWhenDown
  <2>5. ForgetsTheDetached' /\ WritesAwaited'
    BY <2>1 DEF PermissionInv, ForgetsTheDetached, WritesAwaited
  <2>6. QED  BY <2>1, <2>3, <2>4, <2>5, UsesKept DEF PermissionInv, Off
<1>2. CASE Restore(a)
  <2>1. /\ asked[a] \in {"yes", "no"} /\ asked' = [asked EXCEPT ![a] = "none"]
        /\ permits' = IF asked[a] = "yes" THEN TRUE ELSE IF a = "start" THEN FALSE ELSE permits
        /\ UNCHANGED <<saved, retryAlarm, cleanupPending, cleanupEpoch, writes, use, sessions,
                       candidates, scripting, permissionEvents, attached>>
        /\ worker' \in {worker, "up"}
        /\ QueueCleanup \/ UNCHANGED <<cleanup, queuedAgain>>
    BY <1>2 DEF Restore, chromeVars
  <2>2. worker # "down"
    BY <2>1 DEF PermissionInv, NothingWhenDown
  <2>3. cleanup' \in CleanupType /\ queuedAgain' \in BOOLEAN
        /\ (cleanup' = cleanup \/ (cleanup.at = "idle" /\ cleanup'.at = "queued"))
    BY <2>1, CleanupQueued DEF PermissionInv, PermissionTypeOK
  <2>4. permits' \in BOOLEAN /\ asked' \in [Askers -> {"none", "reading", "yes", "no"}]
        /\ worker' \in {"starting", "up"}
    BY <2>1, <2>2 DEF PermissionInv, PermissionTypeOK
  <2>5. PermissionTypeOK' /\ EventsTellTheGrant'
    <3>1. UNCHANGED <<saved, retryAlarm, cleanupPending, cleanupEpoch, writes, use, sessions,
                      candidates, scripting, permissionEvents, attached>>
      BY <2>1
    <3>2. QED  BY <2>3, <2>4, <3>1 DEF PermissionInv, PermissionTypeOK, EventsTellTheGrant, CleanupType
  <2>6. ForgetsTheDetached' /\ WritesAwaited'
    <3>1. UsesGoOn
      BY <2>1, <2>3 DEF UsesGoOn
    <3>2. QED  BY <2>1, <3>1, QueueWaits
  <2>7. QED  BY <2>1, <2>2, <2>3, <2>4, <2>5, <2>6, UsesKept DEF Off
<1>3. QED  BY <1>1, <1>2

SavedAs(p, e, s) == [pending |-> p, epoch |-> e, tabIds |-> s]
LEMMA SavedIs ==
    ASSUME NEW p, p \in BOOLEAN, NEW e, e \in Nat, NEW s, s \subseteq Page
    PROVE  /\ SavedAs(p, e, s) \in [pending : BOOLEAN, epoch : Nat, tabIds : SUBSET Page]
           /\ SavedAs(p, e, s).tabIds = s /\ SavedAs(p, e, s).epoch = e
BY DEF SavedAs

LEMMA LargerIs ==
    ASSUME NEW a \in Nat, NEW b \in Nat
    PROVE  Larger(a, b) \in Nat
BY DEF Larger

LEMMA PersistStep ==
    ASSUME PermissionInv, Persist
    PROVE  PermissionInv'
<1>1. /\ writes # <<>> /\ Head(writes).kind = "request" /\ writes' = Tail(writes)
      /\ UNCHANGED <<worker, cleanupPending, asked, permits, use, sessions, candidates,
                     scripting, permissionEvents, attached>>
      /\ \/ /\ saved' = Requested(saved, Head(writes).epoch) /\ cleanupEpoch' = Larger(cleanupEpoch, saved'.epoch)
            /\ QueueCleanup /\ retryAlarm' = retryAlarm
         \/ /\ retryAlarm' = TRUE /\ UNCHANGED <<saved, cleanupEpoch, cleanup, queuedAgain>>
  BY DEF Persist, Runs, chromeVars
<1>2. Head(writes) = writes[1] /\ writes[1] \in Writes /\ writes[1].kind = "request" /\ writes[1].epoch \in Nat
  <2>1. Head(writes) = writes[1] /\ writes[1] \in Writes
    BY <1>1, WriteTaken DEF PermissionInv, PermissionTypeOK
  <2>2. QED  BY <1>1, <2>1, WriteKinds
<1>3. /\ saved' \in [pending : BOOLEAN, epoch : Nat, tabIds : SUBSET Page]
      /\ saved.tabIds \subseteq saved'.tabIds /\ cleanupEpoch' \in Nat
  <2>1. CASE saved' = saved /\ cleanupEpoch' = cleanupEpoch
    BY <2>1 DEF PermissionInv, PermissionTypeOK
  <2>2. CASE saved' = Requested(saved, Head(writes).epoch) /\ cleanupEpoch' = Larger(cleanupEpoch, saved'.epoch)
    <3>1. PICK p \in BOOLEAN : p = TRUE
      BY Zenon
    <3>2. /\ saved.epoch + 1 \in Nat /\ saved.tabIds \cup candidates \subseteq Page /\ cleanupEpoch \in Nat
      BY DEF PermissionInv, PermissionTypeOK
    <3>3. Larger(saved.epoch + 1, writes[1].epoch) \in Nat
      BY <1>2, <3>2, LargerIs
    <3>4. saved' = SavedAs(p, Larger(saved.epoch + 1, writes[1].epoch), saved.tabIds \cup candidates)
      BY <1>2, <2>2, <3>1, Zenon DEF Requested, SavedAs
    <3>5. /\ saved' \in [pending : BOOLEAN, epoch : Nat, tabIds : SUBSET Page]
          /\ saved'.tabIds = saved.tabIds \cup candidates /\ saved'.epoch \in Nat
      BY <3>2, <3>3, <3>4, SavedIs
    <3>6. QED  BY <2>2, <3>2, <3>5, LargerIs
  <2>3. QED  BY <1>1, <2>1, <2>2
<1>4. cleanup' \in CleanupType /\ queuedAgain' \in BOOLEAN
      /\ (cleanup' = cleanup \/ (cleanup.at = "idle" /\ cleanup'.at = "queued"))
  BY <1>1, CleanupQueued DEF PermissionInv, PermissionTypeOK
<1>5. retryAlarm' \in BOOLEAN
  BY <1>1 DEF PermissionInv, PermissionTypeOK
<1>6. ForgetsTheDetached' /\ WritesAwaited' /\ writes' \in Seq(Writes)
  BY <1>1, <1>2, <1>4, QueueShrinks
<1>7. PermissionTypeOK' /\ EventsTellTheGrant'
  <2>1. UNCHANGED <<worker, cleanupPending, asked, permits, use, sessions, candidates,
                    scripting, permissionEvents, attached>>
    BY <1>1
  <2>2. QED  BY <1>3, <1>4, <1>5, <1>6, <2>1 DEF PermissionInv, PermissionTypeOK, EventsTellTheGrant, CleanupType
<1>8. worker # "down"
  BY <1>1 DEF PermissionInv, NothingWhenDown
<1>9. QED  BY <1>1, <1>3, <1>4, <1>6, <1>7, <1>8, UsesKept DEF Off

--------------------------------
(* clearAutomationRuntime *)

\* The run that moves on, and the ways a run begins and ends.
LEMMA CleanupAt ==
    ASSUME PermissionInv, NEW a \in {"draining", "marking", "scrubbing", "writing"},
           cleanup' = [cleanup EXCEPT !.at = a]
    PROVE  /\ cleanup' \in CleanupType /\ cleanup'.at = a
           /\ cleanup'.left = cleanup.left /\ cleanup'.failed = cleanup.failed
<1>1. cleanup \in CleanupType
  BY DEF PermissionInv
<1>2. QED  BY <1>1 DEF CleanupType

LEMMA RunSteps ==
    ASSUME PermissionInv, Begin \/ ScrubFailed \/ Closed \/ Retry
    PROVE  PermissionInv'
<1>1. /\ UNCHANGED <<worker, permits, use, scripting, permissionEvents, writes, attached, saved,
                     cleanupPending, cleanupEpoch, asked, sessions, candidates>>
      /\ retryAlarm' = TRUE \/ retryAlarm' = FALSE \/ retryAlarm' = retryAlarm
  BY DEF Begin, ScrubFailed, Closed, Retry, CleanupUnchanged
<1>2. retryAlarm' \in BOOLEAN
  BY <1>1 DEF PermissionInv, PermissionTypeOK
<1>3. worker # "down"
  BY DEF Begin, ScrubFailed, Scrubbed, Closed, Retry, PermissionInv, NothingWhenDown
<1>4. \/ QueueCleanup
      \/ NextRun /\ cleanup.at \in {"queued", "scrubbing", "closing"}
      \/ /\ cleanup' = [cleanup EXCEPT !.at = "draining"] /\ cleanup.at = "queued" /\ cleanupPending
         /\ queuedAgain' = queuedAgain
  BY DEF Begin, ScrubFailed, Scrubbed, Closed, Retry
<1>5. /\ cleanup' \in CleanupType /\ queuedAgain' \in BOOLEAN
      /\ cleanup.at \in {"marking", "writing"} => cleanup'.at = cleanup.at
      /\ \/ cleanup' = cleanup
         \/ cleanup'.at \in {"idle", "queued", "closing"}
         \/ cleanup'.at = "draining" /\ cleanupPending
  BY <1>4, CleanupQueued, CleanupNext, CleanupAt DEF PermissionInv, PermissionTypeOK
<1>6. PermissionTypeOK' /\ EventsTellTheGrant'
  <2>1. UNCHANGED <<worker, permits, use, scripting, permissionEvents, writes, attached, saved,
                    cleanupPending, cleanupEpoch, asked, sessions, candidates>>
    BY <1>1
  <2>2. QED  BY <1>2, <1>5, <2>1 DEF PermissionInv, PermissionTypeOK, EventsTellTheGrant, CleanupType
<1>7. ForgetsTheDetached' /\ WritesAwaited'
  <2>1. UsesGoOn
    BY <1>1, <1>5 DEF UsesGoOn
  <2>2. QED  BY <1>1, <2>1, QueueWaits
<1>8. QED  BY <1>1, <1>3, <1>5, <1>6, <1>7, UsesKept DEF Off

LEMMA MarkStep ==
    ASSUME PermissionInv, Mark
    PROVE  PermissionInv'
<1>1. /\ cleanup.at = "draining" /\ cleanup' = [cleanup EXCEPT !.at = "marking"]
      /\ \A t \in Page : use[t] = "none"
      /\ writes' = Append(writes, [kind |-> "mark"])
      /\ UNCHANGED <<worker, permits, use, scripting, permissionEvents, attached, saved, retryAlarm,
                     cleanupPending, cleanupEpoch, queuedAgain, asked, sessions, candidates>>
  BY DEF Mark, Drained, CleanupUnchanged
<1>2. cleanup' \in CleanupType /\ cleanup'.at = "marking"
  BY <1>1, CleanupAt
<1>3. ForgetsTheDetached' /\ WritesAwaited' /\ writes' \in Seq(Writes)
  <2>1. PICK w : w = [kind |-> "mark"]
    OBVIOUS
  <2>2. w \in Writes /\ w.kind = "mark"
    BY <2>1 DEF Writes
  <2>3. QED  BY <1>1, <1>2, <2>1, <2>2, QueueAsked
<1>4. PermissionTypeOK' /\ EventsTellTheGrant'
  BY <1>1, <1>2, <1>3 DEF PermissionInv, PermissionTypeOK, EventsTellTheGrant, CleanupType
<1>5. worker # "down" /\ cleanupPending
  BY <1>1 DEF PermissionInv, NothingWhenDown, CleanupHoldsUses
<1>6. NothingWhenDown' /\ CleanupHoldsUses' /\ CleanupScrubsAll'
  BY <1>1, <1>2, <1>5 DEF NothingWhenDown, CleanupHoldsUses, CleanupScrubsAll
<1>7. RecordedFirst' /\ NoneUnlessGranted'
  BY <1>1, <1>5 DEF PermissionInv, RecordedFirst, NoneUnlessGranted
<1>8. QED  BY <1>2, <1>3, <1>4, <1>6, <1>7 DEF PermissionInv

LEMMA MarkedStep ==
    ASSUME PermissionInv, Marked
    PROVE  PermissionInv'
<1>1. /\ writes # <<>> /\ Head(writes).kind = "mark" /\ writes' = Tail(writes)
      /\ saved' = [pending |-> TRUE, epoch |-> Larger(saved.epoch, cleanupEpoch),
                   tabIds |-> saved.tabIds \cup candidates]
      /\ cleanup' = [cleanup EXCEPT !.at = "scrubbing", !.epoch = saved'.epoch,
                                    !.left = sessions \cup saved'.tabIds]
      /\ UNCHANGED <<worker, permits, use, scripting, permissionEvents, attached, retryAlarm,
                     cleanupPending, cleanupEpoch, queuedAgain, asked, sessions, candidates>>
  BY DEF Marked, Runs, CleanupUnchanged
<1>2. Head(writes) = writes[1] /\ writes[1] \in Writes /\ writes[1].kind = "mark" /\ 1 \in DOMAIN writes
  BY <1>1, WriteTaken DEF PermissionInv, PermissionTypeOK
<1>3. cleanup.at = "marking" /\ worker # "down"
  BY <1>1, <1>2 DEF PermissionInv, WritesAwaited, NothingWhenDown
<1>4. cleanupPending /\ \A t \in Page : use[t] = "none"
  BY <1>3 DEF PermissionInv, CleanupHoldsUses
<1>5. /\ saved' \in [pending : BOOLEAN, epoch : Nat, tabIds : SUBSET Page]
      /\ saved.tabIds \subseteq saved'.tabIds
  <2>1. PICK p \in BOOLEAN : p = TRUE
    BY Zenon
  <2>2. /\ saved.epoch \in Nat /\ saved.tabIds \cup candidates \subseteq Page /\ cleanupEpoch \in Nat
    BY DEF PermissionInv, PermissionTypeOK
  <2>3. Larger(saved.epoch, cleanupEpoch) \in Nat
    BY <2>2, LargerIs
  <2>4. saved' = SavedAs(p, Larger(saved.epoch, cleanupEpoch), saved.tabIds \cup candidates)
    BY <1>1, <2>1, Zenon DEF SavedAs
  <2>5. QED  BY <2>2, <2>3, <2>4, SavedIs
<1>6. cleanup' \in CleanupType /\ cleanup'.at = "scrubbing" /\ attached \subseteq cleanup'.left
  <2>1. cleanup \in CleanupType /\ sessions \subseteq Page /\ attached \subseteq saved.tabIds
    BY DEF PermissionInv, PermissionTypeOK, RecordedFirst
  <2>2. saved'.epoch \in Nat /\ sessions \cup saved'.tabIds \subseteq Page
    BY <1>5, <2>1
  <2>3. /\ cleanup'.at = "scrubbing" /\ cleanup'.left = sessions \cup saved'.tabIds
        /\ cleanup' \in CleanupType
    BY <1>1, <2>1, <2>2 DEF CleanupType
  <2>4. QED  BY <1>5, <2>1, <2>3
<1>7. ForgetsTheDetached' /\ WritesAwaited' /\ writes' \in Seq(Writes)
  BY <1>1, <1>2, QueueShrinks
<1>8. PermissionTypeOK' /\ EventsTellTheGrant'
  <2>1. UNCHANGED <<worker, permits, use, scripting, permissionEvents, attached, retryAlarm,
                    cleanupPending, cleanupEpoch, queuedAgain, asked, sessions, candidates>>
    BY <1>1
  <2>2. QED  BY <1>5, <1>6, <1>7, <2>1 DEF PermissionInv, PermissionTypeOK, EventsTellTheGrant, CleanupType
<1>9. NothingWhenDown' /\ CleanupHoldsUses' /\ CleanupScrubsAll'
  BY <1>1, <1>3, <1>4, <1>6 DEF NothingWhenDown, CleanupHoldsUses, CleanupScrubsAll
<1>10. RecordedFirst' /\ NoneUnlessGranted'
  <2>1. UNCHANGED <<attached, sessions, use, cleanupPending>>
    BY <1>1
  <2>2. QED  BY <1>4, <1>5, <2>1 DEF PermissionInv, RecordedFirst, NoneUnlessGranted
<1>11. QED  BY <1>6, <1>7, <1>8, <1>9, <1>10 DEF PermissionInv

LEMMA ScrubStep ==
    ASSUME PermissionInv, NEW t \in Page, Scrub(t)
    PROVE  PermissionInv'
<1>1. /\ cleanup.at = "scrubbing" /\ t \in cleanup.left
      /\ UNCHANGED <<worker, permits, use, scripting, permissionEvents, saved, retryAlarm,
                     cleanupPending, cleanupEpoch, queuedAgain, asked, candidates>>
  BY DEF Scrub, CleanupUnchanged
<1>2. worker # "down" /\ cleanupPending /\ \A u \in Page : use[u] = "none"
  BY <1>1 DEF PermissionInv, NothingWhenDown, CleanupHoldsUses
<1>3. /\ attached \subseteq Page /\ sessions \subseteq attached /\ attached \subseteq saved.tabIds
      /\ ~cleanup.failed => attached \subseteq cleanup.left
  BY <1>1 DEF PermissionInv, PermissionTypeOK, RecordedFirst, CleanupScrubsAll
<1>4. /\ attached' \subseteq attached /\ sessions' \subseteq attached'
      /\ cleanup' \in CleanupType /\ cleanup'.at = "scrubbing"
      /\ ~cleanup'.failed => attached' \subseteq cleanup'.left
      /\ ForgetsTheDetached' /\ WritesAwaited' /\ writes' \in Seq(Writes)
  <2>1. CASE /\ attached' = attached \ {t} /\ sessions' = sessions \ {t}
             /\ writes' = Append(writes, [kind |-> "forget", tab |-> t])
             /\ cleanup' = [cleanup EXCEPT !.left = @ \ {t}]
    <3>1. cleanup \in CleanupType
      BY DEF PermissionInv
    <3>2. /\ cleanup' \in CleanupType /\ cleanup'.at = "scrubbing" /\ cleanup'.failed = cleanup.failed
          /\ cleanup'.left = cleanup.left \ {t}
      BY <1>1, <2>1, <3>1 DEF CleanupType
    <3>3. PICK w : w = [kind |-> "forget", tab |-> t]
      OBVIOUS
    <3>4. w \in Writes /\ w.kind = "forget" /\ w.tab = t
      BY <3>3 DEF Writes
    <3>5. UsesGoOn
      BY <1>1, <2>1, <3>2 DEF UsesGoOn
    <3>6. ForgetsTheDetached' /\ WritesAwaited' /\ writes' \in Seq(Writes)
      BY <1>1, <1>2, <2>1, <3>3, <3>4, <3>5, QueueGrows
    <3>7. QED  BY <1>3, <2>1, <3>2, <3>6
  <2>2. CASE /\ cleanup' = [cleanup EXCEPT !.left = @ \ {t}, !.failed = TRUE]
             /\ UNCHANGED <<attached, sessions, writes>>
    <3>1. PICK f \in BOOLEAN : f = TRUE
      BY Zenon
    <3>2. cleanup' = [cleanup EXCEPT !.left = @ \ {t}, !.failed = f]
      BY <2>2, <3>1, Zenon
    <3>3. cleanup \in CleanupType
      BY DEF PermissionInv
    <3>4. cleanup' \in CleanupType /\ cleanup'.at = "scrubbing" /\ cleanup'.failed = f
      BY <1>1, <3>2, <3>3 DEF CleanupType
    <3>5. cleanup'.failed
      BY <3>1, <3>4, Zenon
    <3>6. UsesGoOn
      BY <1>1, <2>2, <3>4 DEF UsesGoOn
    <3>7. ForgetsTheDetached' /\ WritesAwaited' /\ writes' \in Seq(Writes)
      BY <2>2, <3>6, QueueWaits DEF PermissionInv, PermissionTypeOK
    <3>8. attached' = attached /\ sessions' = sessions
      BY <2>2
    <3>9. QED  BY <1>3, <3>4, <3>5, <3>7, <3>8
  <2>3. QED  BY <2>1, <2>2 DEF Scrub
<1>5. PermissionTypeOK' /\ EventsTellTheGrant'
  BY <1>1, <1>3, <1>4 DEF PermissionInv, PermissionTypeOK, EventsTellTheGrant, CleanupType
<1>6. NothingWhenDown' /\ CleanupHoldsUses' /\ CleanupScrubsAll'
  BY <1>1, <1>2, <1>4 DEF NothingWhenDown, CleanupHoldsUses, CleanupScrubsAll
<1>7. RecordedFirst' /\ NoneUnlessGranted'
  BY <1>1, <1>2, <1>3, <1>4 DEF PermissionInv, RecordedFirst, NoneUnlessGranted
<1>8. QED  BY <1>4, <1>5, <1>6, <1>7 DEF PermissionInv

LEMMA ForgetStep ==
    ASSUME PermissionInv, Forget
    PROVE  PermissionInv'
<1>1. /\ writes # <<>> /\ Head(writes).kind = "forget" /\ writes' = Tail(writes)
      /\ saved' = [saved EXCEPT !.tabIds = @ \ {Head(writes).tab}]
      /\ candidates' = candidates \ {Head(writes).tab}
      /\ UNCHANGED <<worker, permits, use, scripting, permissionEvents, attached, retryAlarm,
                     cleanupPending, cleanupEpoch, cleanup, queuedAgain, asked, sessions>>
  BY DEF Forget, Runs, CleanupUnchanged
<1>2. /\ Head(writes) = writes[1] /\ writes[1] \in Writes /\ writes[1].kind = "forget" /\ 1 \in DOMAIN writes
      /\ writes[1].tab \in Page
  <2>1. Head(writes) = writes[1] /\ writes[1] \in Writes /\ 1 \in DOMAIN writes
    BY <1>1, WriteTaken DEF PermissionInv, PermissionTypeOK
  <2>2. QED  BY <1>1, <2>1, WriteKinds
<1>3. writes[1].tab \notin attached /\ use[writes[1].tab] # "attaching"
  BY <1>2 DEF PermissionInv, ForgetsTheDetached
<1>4. /\ saved' \in [pending : BOOLEAN, epoch : Nat, tabIds : SUBSET Page]
      /\ saved'.tabIds = saved.tabIds \ {writes[1].tab}
  <2>1. saved \in [pending : BOOLEAN, epoch : Nat, tabIds : SUBSET Page]
    BY DEF PermissionInv, PermissionTypeOK
  <2>2. QED  BY <1>1, <1>2, <2>1
<1>5. ForgetsTheDetached' /\ WritesAwaited' /\ writes' \in Seq(Writes)
  BY <1>1, <1>2, QueueShrinks
<1>6. PermissionTypeOK' /\ EventsTellTheGrant'
  <2>1. /\ UNCHANGED <<worker, permits, use, scripting, permissionEvents, attached, retryAlarm,
                       cleanupPending, cleanupEpoch, cleanup, queuedAgain, asked, sessions>>
        /\ candidates' \subseteq candidates
    BY <1>1
  <2>2. QED  BY <1>4, <1>5, <2>1 DEF PermissionInv, PermissionTypeOK, EventsTellTheGrant
<1>7. worker # "down"
  BY <1>1 DEF PermissionInv, NothingWhenDown
<1>8. /\ NothingWhenDown' /\ CleanupHoldsUses' /\ CleanupScrubsAll' /\ NoneUnlessGranted'
      /\ cleanup' \in CleanupType
  BY <1>1, <1>7 DEF PermissionInv, NothingWhenDown, CleanupHoldsUses, CleanupScrubsAll, NoneUnlessGranted, Off
<1>9. RecordedFirst'
  <2>1. UNCHANGED <<attached, sessions, use>>
    BY <1>1
  <2>2. QED  BY <1>3, <1>4, <2>1 DEF PermissionInv, RecordedFirst
<1>10. QED  BY <1>5, <1>6, <1>8, <1>9 DEF PermissionInv

LEMMA CloseStep ==
    ASSUME PermissionInv, Close
    PROVE  PermissionInv'
<1>1. /\ cleanup.at = "scrubbing" /\ cleanup.left = {} /\ ~cleanup.failed
      /\ cleanup' = [cleanup EXCEPT !.at = "writing"]
      /\ writes' = Append(writes, [kind |-> "close"])
      /\ UNCHANGED <<worker, permits, use, scripting, permissionEvents, attached, saved, retryAlarm,
                     cleanupPending, cleanupEpoch, queuedAgain, asked, sessions, candidates>>
  BY DEF Close, Scrubbed, CleanupUnchanged
<1>2. cleanup' \in CleanupType /\ cleanup'.at = "writing"
  BY <1>1, CleanupAt
<1>3. ForgetsTheDetached' /\ WritesAwaited' /\ writes' \in Seq(Writes)
  <2>1. PICK w : w = [kind |-> "close"]
    OBVIOUS
  <2>2. w \in Writes /\ w.kind = "close"
    BY <2>1 DEF Writes
  <2>3. QED  BY <1>1, <1>2, <2>1, <2>2, QueueAsked
<1>4. PermissionTypeOK' /\ EventsTellTheGrant'
  <2>1. UNCHANGED <<worker, permits, use, scripting, permissionEvents, attached, saved, retryAlarm,
                    cleanupPending, cleanupEpoch, queuedAgain, asked, sessions, candidates>>
    BY <1>1
  <2>2. QED  BY <1>2, <1>3, <2>1 DEF PermissionInv, PermissionTypeOK, EventsTellTheGrant, CleanupType
<1>5. worker # "down" /\ cleanupPending /\ attached = {} /\ \A t \in Page : use[t] = "none"
  BY <1>1 DEF PermissionInv, NothingWhenDown, CleanupHoldsUses, CleanupScrubsAll
<1>6. NothingWhenDown' /\ CleanupHoldsUses' /\ CleanupScrubsAll'
  BY <1>1, <1>2, <1>5 DEF NothingWhenDown, CleanupHoldsUses, CleanupScrubsAll
<1>7. RecordedFirst' /\ NoneUnlessGranted'
  BY <1>1, <1>5 DEF PermissionInv, RecordedFirst, NoneUnlessGranted
<1>8. QED  BY <1>2, <1>3, <1>4, <1>6, <1>7 DEF PermissionInv

LEMMA ClosedRequestStep ==
    ASSUME PermissionInv, ClosedRequest
    PROVE  PermissionInv'
<1>1. /\ writes # <<>> /\ Head(writes).kind = "close" /\ writes' = Tail(writes)
      /\ saved' = Closes(saved, cleanup.epoch)
      /\ cleanupEpoch' = Larger(cleanupEpoch, saved'.epoch)
      /\ cleanupPending' = (saved'.pending \/ cleanupEpoch' > saved'.epoch)
      /\ \/ cleanup' = [CleanupIdle EXCEPT !.at = "queued"]
         \/ cleanup' = [cleanup EXCEPT !.at = "closing"]
      /\ queuedAgain' = queuedAgain
      /\ UNCHANGED <<worker, permits, use, scripting, permissionEvents, attached, sessions, candidates>>
  BY DEF ClosedRequest, Runs, CleanupUnchanged
<1>2. Head(writes) = writes[1] /\ writes[1] \in Writes /\ writes[1].kind = "close" /\ 1 \in DOMAIN writes
  BY <1>1, WriteTaken DEF PermissionInv, PermissionTypeOK
<1>3. cleanup.at = "writing" /\ worker # "down"
  BY <1>1, <1>2 DEF PermissionInv, WritesAwaited, NothingWhenDown
<1>4. attached = {} /\ \A t \in Page : use[t] = "none"
  BY <1>3 DEF PermissionInv, CleanupHoldsUses, CleanupScrubsAll
<1>5. /\ saved' \in [pending : BOOLEAN, epoch : Nat, tabIds : SUBSET Page]
  <2>1. saved \in [pending : BOOLEAN, epoch : Nat, tabIds : SUBSET Page]
    BY DEF PermissionInv, PermissionTypeOK
  <2>2. CASE saved' = saved
    BY <2>1, <2>2
  <2>3. CASE saved' = [saved EXCEPT !.pending = FALSE, !.tabIds = {}]
    <3>1. PICK p \in BOOLEAN : p = FALSE
      BY Zenon
    <3>2. saved' = [saved EXCEPT !.pending = p, !.tabIds = {}]
      BY <2>3, <3>1, Zenon
    <3>3. QED  BY <2>1, <3>2
  <2>4. QED  BY <1>1, <2>2, <2>3 DEF Closes
<1>6. cleanupEpoch' \in Nat /\ cleanupPending' \in BOOLEAN
  <2>1. cleanupEpoch \in Nat /\ saved'.epoch \in Nat
    BY <1>5 DEF PermissionInv, PermissionTypeOK
  <2>2. QED  BY <1>1, <2>1, LargerIs
<1>7. /\ cleanup' \in CleanupType /\ cleanup'.at \in {"queued", "closing"}
  BY <1>1, FreshCleanup DEF PermissionInv, CleanupType
<1>8. ForgetsTheDetached' /\ WritesAwaited' /\ writes' \in Seq(Writes)
  BY <1>1, <1>2, QueueShrinks
<1>9. /\ retryAlarm' \in BOOLEAN
      /\ asked' \in [Askers -> {"none", "reading", "yes", "no"}]
  BY DEF ClosedRequest, PermissionInv, PermissionTypeOK
<1>10. PermissionTypeOK' /\ EventsTellTheGrant'
  <2>1. UNCHANGED <<worker, permits, use, scripting, permissionEvents, attached, sessions, candidates,
                    queuedAgain>>
    BY <1>1
  <2>2. QED  BY <1>5, <1>6, <1>7, <1>8, <1>9, <2>1 DEF PermissionInv, PermissionTypeOK, EventsTellTheGrant, CleanupType
<1>11. UNCHANGED <<worker, use, attached, sessions>>
  BY <1>1
<1>12. NothingWhenDown' /\ CleanupHoldsUses' /\ CleanupScrubsAll'
  BY <1>3, <1>7, <1>11 DEF NothingWhenDown, CleanupHoldsUses, CleanupScrubsAll
<1>13. RecordedFirst' /\ NoneUnlessGranted'
  BY <1>4, <1>11 DEF PermissionInv, RecordedFirst, NoneUnlessGranted
<1>14. QED  BY <1>7, <1>8, <1>10, <1>12, <1>13 DEF PermissionInv

--------------------------------
(* Commands that use the debugger *)

\* A step of a command: the cleanup, the grant and the worker are what they were.
LEMMA CommandKeeps ==
    ASSUME PermissionInv, UseUnchanged, worker # "down",
           writes' \in Seq(Writes), ForgetsTheDetached', WritesAwaited',
           attached' \subseteq Page, candidates' \subseteq Page, sessions' \subseteq attached',
           use' \in [Page -> {"none", "asking", "recording", "attaching", "using"}],
           saved' \in [pending : BOOLEAN, epoch : Nat, tabIds : SUBSET Page],
           attached' \subseteq saved'.tabIds,
           \A t \in Page : use'[t] = "attaching" => t \in saved'.tabIds,
           cleanup.at \in {"marking", "scrubbing", "writing"} =>
              attached' \subseteq attached /\ \A t \in Page : use'[t] = "none",
           Off /\ ~cleanupPending =>
              attached' \subseteq attached /\ \A t \in Page : use'[t] \notin {"recording", "attaching"}
    PROVE  PermissionInv'
<1>1. UNCHANGED <<retryAlarm, worker, cleanupPending, cleanupEpoch, cleanup, queuedAgain, asked,
                  permits, scripting, permissionEvents>>
  BY DEF UseUnchanged
<1>2. PermissionTypeOK' /\ EventsTellTheGrant'
  BY <1>1 DEF PermissionInv, PermissionTypeOK, EventsTellTheGrant
<1>3. NothingWhenDown' /\ CleanupHoldsUses' /\ CleanupScrubsAll'
  BY <1>1 DEF PermissionInv, NothingWhenDown, CleanupHoldsUses, CleanupScrubsAll
<1>4. RecordedFirst' /\ NoneUnlessGranted' /\ cleanup' \in CleanupType
  BY <1>1 DEF PermissionInv, RecordedFirst, NoneUnlessGranted, Off
<1>5. QED  BY <1>2, <1>3, <1>4 DEF PermissionInv

\* Who is answered yes has the permission, and no cleanup is pending.
LEMMA Granted == PermissionInv /\ Answer = "yes" => scripting /\ ~cleanupPending
BY DEF Answer, Refused

LEMMA AdmitStep ==
    ASSUME PermissionInv, NEW t \in Page, Admit(t)
    PROVE  PermissionInv'
<1>1. /\ worker = "up" /\ Answer = "yes" /\ use[t] = "none" /\ use' = [use EXCEPT ![t] = "asking"]
      /\ UseUnchanged /\ UNCHANGED <<writes, attached, saved, sessions, candidates>>
  BY DEF Admit
<1>2. scripting /\ ~cleanupPending
  BY <1>1, Granted
<1>3. /\ use \in [Page -> {"none", "asking", "recording", "attaching", "using"}]
      /\ writes \in Seq(Writes) /\ attached \subseteq Page /\ candidates \subseteq Page
      /\ saved \in [pending : BOOLEAN, epoch : Nat, tabIds : SUBSET Page]
  BY DEF PermissionInv, PermissionTypeOK
<1>4. /\ use' \in [Page -> {"none", "asking", "recording", "attaching", "using"}]
      /\ use'[t] = "asking" /\ \A u \in Page : u # t => use'[u] = use[u]
  BY <1>1, <1>3
<1>5. cleanup' = cleanup
  BY <1>1 DEF UseUnchanged
<1>6. ForgetsTheDetached' /\ WritesAwaited'
  <2>1. UsesGoOn
    BY <1>1, <1>4, <1>5 DEF UsesGoOn
  <2>2. QED  BY <1>1, <2>1, QueueWaits
<1>7. cleanup.at \notin {"marking", "scrubbing", "writing"}
  BY <1>2 DEF PermissionInv, CleanupHoldsUses
<1>8. /\ sessions \subseteq attached /\ attached \subseteq saved.tabIds
      /\ \A u \in Page : use'[u] = "attaching" => u \in saved.tabIds
      /\ Off /\ ~cleanupPending => \A u \in Page : use'[u] \notin {"recording", "attaching"}
  BY <1>1, <1>4 DEF PermissionInv, RecordedFirst, NoneUnlessGranted
<1>9. QED  BY <1>1, <1>3, <1>4, <1>6, <1>7, <1>8, CommandKeeps

LEMMA AuthorizeStep ==
    ASSUME PermissionInv, NEW t \in Page, Authorize(t)
    PROVE  PermissionInv'
<1>1. /\ use[t] = "asking" /\ UseUnchanged /\ UNCHANGED <<attached, saved, sessions>>
      /\ \/ /\ Answer = "yes" /\ candidates' = candidates \cup {t}
            /\ writes' = Append(writes, [kind |-> "record", tab |-> t])
            /\ use' = [use EXCEPT ![t] = "recording"]
         \/ /\ t \in sessions /\ use' = [use EXCEPT ![t] = "using"] /\ UNCHANGED <<candidates, writes>>
         \/ /\ use' = [use EXCEPT ![t] = "none"] /\ UNCHANGED <<candidates, writes>>
  BY DEF Authorize
<1>2. worker # "down" /\ cleanup.at \notin {"marking", "scrubbing", "writing"}
  BY <1>1 DEF PermissionInv, NothingWhenDown, CleanupHoldsUses
<1>3. /\ use \in [Page -> {"none", "asking", "recording", "attaching", "using"}]
      /\ writes \in Seq(Writes) /\ attached \subseteq Page /\ candidates \subseteq Page
      /\ saved \in [pending : BOOLEAN, epoch : Nat, tabIds : SUBSET Page]
  BY DEF PermissionInv, PermissionTypeOK
<1>4. /\ use' \in [Page -> {"none", "asking", "recording", "attaching", "using"}]
      /\ candidates' \subseteq Page
      /\ use'[t] \in {"recording", "using", "none"} /\ \A u \in Page : u # t => use'[u] = use[u]
      /\ use'[t] = "recording" => Answer = "yes"
      /\ use'[t] = "using" => t \in attached
  BY <1>1, <1>3 DEF PermissionInv, RecordedFirst
<1>5. cleanup' = cleanup
  BY <1>1 DEF UseUnchanged
<1>6. ForgetsTheDetached' /\ WritesAwaited' /\ writes' \in Seq(Writes)
  <2>1. CASE writes' = Append(writes, [kind |-> "record", tab |-> t]) /\ use' = [use EXCEPT ![t] = "recording"]
    <3>1. PICK w : w = [kind |-> "record", tab |-> t]
      OBVIOUS
    <3>2. w \in Writes /\ w.kind = "record" /\ w.tab = t
      BY <3>1 DEF Writes
    <3>3. QED  BY <1>1, <1>5, <2>1, <3>1, <3>2, QueueRecords
  <2>2. CASE writes' = writes /\ use' # [use EXCEPT ![t] = "recording"]
    <3>1. use'[t] # "recording"
      BY <1>1, <1>3, <2>2
    <3>2. UsesGoOn
      BY <1>1, <1>4, <1>5, <3>1 DEF UsesGoOn
    <3>3. QED  BY <1>3, <2>2, <3>2, QueueWaits
  <2>3. use' = [use EXCEPT ![t] = "using"] \/ use' = [use EXCEPT ![t] = "none"] =>
          use' # [use EXCEPT ![t] = "recording"]
    BY <1>3
  <2>4. QED  BY <1>1, <2>1, <2>2, <2>3
<1>7. /\ sessions \subseteq attached /\ attached \subseteq saved.tabIds
      /\ \A u \in Page : use'[u] = "attaching" => u \in saved.tabIds
  BY <1>1, <1>4 DEF PermissionInv, RecordedFirst
<1>8. Off /\ ~cleanupPending => \A u \in Page : use'[u] \notin {"recording", "attaching"}
  BY <1>2, <1>4, Granted DEF PermissionInv, NoneUnlessGranted, Off
<1>9. QED  BY <1>1, <1>2, <1>3, <1>4, <1>6, <1>7, <1>8, CommandKeeps

LEMMA RecordStep ==
    ASSUME PermissionInv, Record
    PROVE  PermissionInv'
<1>1. /\ writes # <<>> /\ Head(writes).kind = "record" /\ writes' = Tail(writes)
      /\ saved' = [saved EXCEPT !.tabIds = @ \cup {Head(writes).tab}]
      /\ use' = [use EXCEPT ![Head(writes).tab] = "attaching"]
      /\ UseUnchanged /\ UNCHANGED <<attached, sessions, candidates>>
  BY DEF Record, Runs
<1>2. /\ Head(writes) = writes[1] /\ writes[1] \in Writes /\ writes[1].kind = "record" /\ 1 \in DOMAIN writes
      /\ writes[1].tab \in Page
  <2>1. Head(writes) = writes[1] /\ writes[1] \in Writes /\ 1 \in DOMAIN writes
    BY <1>1, WriteTaken DEF PermissionInv, PermissionTypeOK
  <2>2. QED  BY <1>1, <2>1, WriteKinds
<1>3. PICK t \in Page : t = writes[1].tab
  BY <1>2
<1>4. use[t] = "recording"
  BY <1>2, <1>3 DEF PermissionInv, WritesAwaited
<1>5. worker # "down" /\ cleanup.at \notin {"marking", "scrubbing", "writing"} /\ ~(Off /\ ~cleanupPending)
  <2>1. worker # "down" /\ cleanup.at \notin {"marking", "scrubbing", "writing"}
    BY <1>4 DEF PermissionInv, NothingWhenDown, CleanupHoldsUses
  <2>2. QED  BY <1>4, <2>1 DEF PermissionInv, NoneUnlessGranted
<1>6. /\ use \in [Page -> {"none", "asking", "recording", "attaching", "using"}]
      /\ attached \subseteq Page /\ candidates \subseteq Page
      /\ saved \in [pending : BOOLEAN, epoch : Nat, tabIds : SUBSET Page]
  BY DEF PermissionInv, PermissionTypeOK
<1>7. /\ use' \in [Page -> {"none", "asking", "recording", "attaching", "using"}]
      /\ use'[t] = "attaching" /\ \A u \in Page : u # t => use'[u] = use[u]
  BY <1>1, <1>2, <1>3, <1>6
<1>8. /\ saved' \in [pending : BOOLEAN, epoch : Nat, tabIds : SUBSET Page]
      /\ saved'.tabIds = saved.tabIds \cup {t}
  BY <1>1, <1>2, <1>3, <1>6
<1>9. cleanup' = cleanup
  BY <1>1 DEF UseUnchanged
<1>10. ForgetsTheDetached' /\ WritesAwaited' /\ writes' \in Seq(Writes)
  <2>1. /\ \A u \in Page : use[u] = "recording" => use'[u] = "recording" \/ writes[1].tab = u
        /\ \A u \in Page : use'[u] = "recording" => use[u] = "recording"
        /\ \A u \in Page : use'[u] \in {"attaching", "using"} =>
             use[u] \in {"attaching", "using"} \/ writes[1].tab = u
    BY <1>3, <1>7
  <2>2. attached' = attached
    BY <1>1
  <2>3. QED  BY <1>1, <1>2, <1>5, <2>1, <2>2, QueueShrinks
<1>11. /\ sessions \subseteq attached /\ attached \subseteq saved'.tabIds
       /\ \A u \in Page : use'[u] = "attaching" => u \in saved'.tabIds
  BY <1>7, <1>8 DEF PermissionInv, RecordedFirst
<1>12. UNCHANGED <<attached, sessions, candidates>>
  BY <1>1
<1>13. QED  BY <1>1, <1>5, <1>6, <1>7, <1>8, <1>10, <1>11, <1>12, CommandKeeps

LEMMA UseSteps ==
    ASSUME PermissionInv, NEW t \in Page, Attach(t) \/ EndUse(t)
    PROVE  PermissionInv'
<1>1. /\ use[t] \in {"attaching", "using"} /\ UseUnchanged /\ UNCHANGED <<writes, saved, candidates>>
      /\ \/ /\ use[t] = "attaching" /\ attached' = attached \cup {t} /\ sessions' = sessions \cup {t}
            /\ use' = [use EXCEPT ![t] = "using"]
         \/ use' = [use EXCEPT ![t] = "none"] /\ UNCHANGED <<attached, sessions>>
  BY DEF Attach, EndUse
<1>2. worker # "down" /\ cleanup.at \notin {"marking", "scrubbing", "writing"}
  BY <1>1 DEF PermissionInv, NothingWhenDown, CleanupHoldsUses
<1>3. /\ use \in [Page -> {"none", "asking", "recording", "attaching", "using"}]
      /\ writes \in Seq(Writes) /\ attached \subseteq Page /\ candidates \subseteq Page
      /\ saved \in [pending : BOOLEAN, epoch : Nat, tabIds : SUBSET Page]
  BY DEF PermissionInv, PermissionTypeOK
<1>4. /\ use' \in [Page -> {"none", "asking", "recording", "attaching", "using"}]
      /\ use'[t] \in {"using", "none"} /\ \A u \in Page : u # t => use'[u] = use[u]
      /\ attached' \subseteq attached \cup {t} /\ attached' \subseteq Page
      /\ use[t] # "attaching" => attached' = attached
  BY <1>1, <1>3
<1>5. cleanup' = cleanup
  BY <1>1 DEF UseUnchanged
<1>6. ForgetsTheDetached' /\ WritesAwaited'
  <2>1. UsesGoOn
    BY <1>1, <1>4, <1>5 DEF UsesGoOn
  <2>2. QED  BY <1>1, <2>1, QueueWaits
<1>7. sessions' \subseteq attached' /\ attached' \subseteq saved.tabIds
  BY <1>1 DEF PermissionInv, RecordedFirst
<1>8. /\ \A u \in Page : use'[u] = "attaching" => u \in saved.tabIds
      /\ Off /\ ~cleanupPending =>
           attached' \subseteq attached /\ \A u \in Page : use'[u] \notin {"recording", "attaching"}
  BY <1>2, <1>4 DEF PermissionInv, RecordedFirst, NoneUnlessGranted
<1>9. QED  BY <1>1, <1>2, <1>3, <1>4, <1>6, <1>7, <1>8, CommandKeeps

LEMMA IdleDetachStep ==
    ASSUME PermissionInv, NEW t \in Page, IdleDetach(t)
    PROVE  PermissionInv'
<1>1. /\ t \in sessions /\ use[t] = "none" /\ attached' = attached \ {t} /\ sessions' = sessions \ {t}
      /\ writes' = Append(writes, [kind |-> "forget", tab |-> t])
      /\ use' = use /\ UseUnchanged /\ UNCHANGED <<saved, candidates>>
  BY DEF IdleDetach
<1>2. worker # "down"
  BY <1>1 DEF PermissionInv, NothingWhenDown
<1>3. /\ use \in [Page -> {"none", "asking", "recording", "attaching", "using"}]
      /\ attached \subseteq Page /\ candidates \subseteq Page
      /\ saved \in [pending : BOOLEAN, epoch : Nat, tabIds : SUBSET Page]
  BY DEF PermissionInv, PermissionTypeOK
<1>4. ForgetsTheDetached' /\ WritesAwaited' /\ writes' \in Seq(Writes)
  <2>1. PICK w : w = [kind |-> "forget", tab |-> t]
    OBVIOUS
  <2>2. w \in Writes /\ w.kind = "forget" /\ w.tab = t
    BY <2>1 DEF Writes
  <2>3. UsesGoOn
    BY <1>1 DEF UsesGoOn, UseUnchanged
  <2>4. QED  BY <1>1, <2>1, <2>2, <2>3, QueueGrows
<1>5. /\ sessions' \subseteq attached' /\ attached' \subseteq saved.tabIds
      /\ \A u \in Page : use'[u] = "attaching" => u \in saved.tabIds
      /\ cleanup.at \in {"marking", "scrubbing", "writing"} => \A u \in Page : use'[u] = "none"
      /\ Off /\ ~cleanupPending => \A u \in Page : use'[u] \notin {"recording", "attaching"}
  BY <1>1, <1>2 DEF PermissionInv, RecordedFirst, CleanupHoldsUses, NoneUnlessGranted
<1>6. attached' \subseteq attached /\ UNCHANGED <<saved, candidates, use>>
  BY <1>1
<1>7. QED  BY <1>1, <1>2, <1>3, <1>4, <1>5, <1>6, CommandKeeps

--------------------------------
(* The life of the worker, and the theorem *)

LEMMA NoWrites == \A q : q = <<>> => q \in Seq(Writes) /\ DOMAIN q = {}
BY EmptySeq

LEMMA NobodyAsks == Unasked \in [Askers -> {"none", "reading", "yes", "no"}] /\ \A a \in Askers : Unasked[a] = "none"
BY DEF Unasked

\* With no write, no use and no cleanup only storage and Chrome's own state count.
LEMMA WorkerAtRest ==
    ASSUME writes' \in Seq(Writes), DOMAIN writes' = {}, cleanup' \in CleanupType, cleanup'.at = "idle",
           PermissionTypeOK', EventsTellTheGrant', \A t \in Page : use'[t] = "none", sessions' = {},
           attached' \subseteq saved'.tabIds,
           worker' = "down" => writes' = <<>> /\ \A a \in Askers : asked'[a] = "none",
           Off' /\ worker' # "down" /\ ~cleanupPending' => attached' = {}
    PROVE  PermissionInv'
<1>1. NothingWhenDown' /\ CleanupHoldsUses' /\ CleanupScrubsAll'
  BY DEF NothingWhenDown, CleanupHoldsUses, CleanupScrubsAll
<1>2. ForgetsTheDetached' /\ WritesAwaited'
  BY DEF ForgetsTheDetached, WritesAwaited
<1>3. RecordedFirst' /\ NoneUnlessGranted'
  BY DEF RecordedFirst, NoneUnlessGranted
<1>4. QED  BY <1>1, <1>2, <1>3 DEF PermissionInv

LEMMA WorkerSteps ==
    ASSUME PermissionInv, Kill \/ Wake
    PROVE  PermissionInv'
<1>1. UNCHANGED <<saved, retryAlarm, scripting, permissionEvents, attached>>
  BY DEF Kill, Wake, chromeVars
<1>2. EventsTellTheGrant' /\ attached' \subseteq saved'.tabIds
  BY <1>1 DEF PermissionInv, EventsTellTheGrant, RecordedFirst
<1>3. CASE Kill
  <2>1. /\ worker' = "down" /\ writes' = <<>> /\ cleanup' = CleanupIdle /\ cleanupEpoch' = 0
        /\ asked' = Unasked /\ use' = [t \in Page |-> "none"] /\ sessions' = {} /\ candidates' = {}
    BY <1>3 DEF Kill
  <2>2. cleanupPending' \in BOOLEAN /\ queuedAgain' \in BOOLEAN /\ permits' \in BOOLEAN
    BY <1>3 DEF Kill
  <2>3. cleanup' \in CleanupType /\ cleanup'.at = "idle"
    BY <2>1, FreshCleanup
  <2>4. writes' \in Seq(Writes) /\ DOMAIN writes' = {}
    BY <2>1, NoWrites
  <2>5. /\ asked' \in [Askers -> {"none", "reading", "yes", "no"}] /\ \A a \in Askers : asked'[a] = "none"
    BY <2>1, NobodyAsks
  <2>6. use' \in [Page -> {"none", "asking", "recording", "attaching", "using"}] /\ \A t \in Page : use'[t] = "none"
    BY <2>1
  <2>7. worker' = "down" /\ cleanupEpoch' \in Nat /\ sessions' = {} /\ candidates' = {}
    BY <2>1
  <2>8. PermissionTypeOK'
    BY <1>1, <2>2, <2>3, <2>4, <2>5, <2>6, <2>7 DEF PermissionInv, PermissionTypeOK, CleanupType
  <2>9. QED  BY <1>2, <2>1, <2>3, <2>4, <2>5, <2>6, <2>8, WorkerAtRest
<1>4. CASE Wake
  <2>1. /\ worker = "down" /\ worker' = "starting" /\ candidates' = saved.tabIds
        /\ cleanupPending' = Recovered /\ cleanupEpoch' = saved.epoch
        /\ asked' = [asked EXCEPT !["start"] = "reading"]
        /\ UNCHANGED <<writes, cleanup, queuedAgain, permits, use, sessions>>
    BY <1>4 DEF Wake
  <2>2. /\ \A t \in Page : use[t] = "none"
        /\ writes = <<>> /\ cleanup.at = "idle" /\ sessions = {}
    BY <2>1 DEF PermissionInv, NothingWhenDown
  <2>3. writes' \in Seq(Writes) /\ DOMAIN writes' = {}
    BY <2>1, <2>2, NoWrites
  <2>4. asked' \in [Askers -> {"none", "reading", "yes", "no"}] /\ cleanupPending' \in BOOLEAN
    BY <2>1 DEF PermissionInv, PermissionTypeOK, Recovered
  <2>5. PermissionTypeOK'
    <3>1. /\ worker' = "starting" /\ candidates' = saved.tabIds /\ cleanupEpoch' = saved.epoch
          /\ UNCHANGED <<cleanup, queuedAgain, permits, use, sessions>>
      BY <2>1
    <3>2. QED  BY <1>1, <2>3, <2>4, <3>1 DEF PermissionInv, PermissionTypeOK
  <2>6. ~cleanupPending' => attached' = {}
    <3>1. ~cleanupPending' => saved.tabIds = {}
      BY <2>1 DEF Recovered
    <3>2. QED  BY <1>1, <1>2, <3>1
  <2>7. /\ worker' # "down" /\ cleanup' \in CleanupType /\ cleanup'.at = "idle" /\ sessions' = {}
        /\ \A t \in Page : use'[t] = "none"
    BY <2>1, <2>2 DEF PermissionInv
  <2>8. QED  BY <1>2, <2>3, <2>5, <2>6, <2>7, WorkerAtRest
<1>5. QED  BY <1>3, <1>4

LEMMA PermissionBegins == PermissionInit => PermissionInv
<1> SUFFICES ASSUME PermissionInit PROVE PermissionInv
  OBVIOUS
<1>1. /\ permissionEvents = <<>> /\ attached = {} /\ worker = "up" /\ cleanupEpoch = 0 /\ writes = <<>>
      /\ cleanup = CleanupIdle /\ asked = Unasked
      /\ use = [t \in Page |-> "none"] /\ sessions = {} /\ candidates = {}
  BY DEF PermissionInit
<1>2. /\ scripting \in BOOLEAN /\ permits \in BOOLEAN /\ cleanupPending \in BOOLEAN
      /\ retryAlarm \in BOOLEAN /\ queuedAgain \in BOOLEAN
  BY DEF PermissionInit
<1>3. saved \in [pending : BOOLEAN, epoch : Nat, tabIds : SUBSET Page]
  <2>1. PICK p \in BOOLEAN : p = FALSE
    BY Zenon
  <2>2. saved = SavedAs(p, 0, {})
    BY <2>1, Zenon DEF PermissionInit, SavedAs
  <2>3. QED  BY <2>2, SavedIs
<1>4. cleanup \in CleanupType /\ cleanup.at = "idle"
  BY <1>1, FreshCleanup
<1>5. writes \in Seq(Writes) /\ DOMAIN writes = {}
  BY <1>1, NoWrites
<1>6. permissionEvents \in Seq({"added", "removed"})
  BY <1>1, EmptySeq
<1>7. asked \in [Askers -> {"none", "reading", "yes", "no"}]
  BY <1>1, NobodyAsks
<1>8. use \in [Page -> {"none", "asking", "recording", "attaching", "using"}] /\ \A t \in Page : use[t] = "none"
  BY <1>1
<1>9. worker = "up" /\ cleanupEpoch \in Nat /\ attached = {} /\ sessions = {} /\ candidates = {}
  BY <1>1
<1>10. PermissionTypeOK
  BY <1>2, <1>3, <1>4, <1>5, <1>6, <1>7, <1>8, <1>9 DEF PermissionTypeOK, CleanupType
<1>11. NothingWhenDown /\ CleanupHoldsUses /\ CleanupScrubsAll
  BY <1>4, <1>9 DEF NothingWhenDown, CleanupHoldsUses, CleanupScrubsAll
<1>12. ForgetsTheDetached /\ WritesAwaited
  BY <1>5 DEF ForgetsTheDetached, WritesAwaited
<1>13. EventsTellTheGrant
  BY <1>1 DEF EventsTellTheGrant
<1>14. RecordedFirst /\ NoneUnlessGranted
  BY <1>8, <1>9 DEF RecordedFirst, NoneUnlessGranted
<1>15. QED  BY <1>4, <1>10, <1>11, <1>12, <1>13, <1>14 DEF PermissionInv

LEMMA PermissionStep == PermissionInv /\ [PermissionNext]_permissionVars => PermissionInv'
<1>1. PermissionInv /\ PermissionNext => PermissionInv'
  BY GrantSteps, AskSteps, PersistStep, RunSteps, MarkStep, MarkedStep, ScrubStep, ForgetStep, CloseStep,
     ClosedRequestStep, AdmitStep, AuthorizeStep, RecordStep, UseSteps, IdleDetachStep, WorkerSteps
     DEF PermissionNext
<1>2. ASSUME PermissionInv, UNCHANGED permissionVars
      PROVE  PermissionInv'
  <2>1. UNCHANGED <<scripting, permissionEvents, attached, saved, retryAlarm, worker, cleanupPending,
                    cleanupEpoch, writes, cleanup, queuedAgain, asked, permits, use, sessions, candidates>>
    BY <1>2 DEF permissionVars
  <2>2. PermissionTypeOK' /\ EventsTellTheGrant' /\ NothingWhenDown'
    BY <1>2, <2>1 DEF PermissionInv, PermissionTypeOK, EventsTellTheGrant, NothingWhenDown
  <2>3. ForgetsTheDetached' /\ WritesAwaited'
    BY <1>2, <2>1 DEF PermissionInv, ForgetsTheDetached, WritesAwaited
  <2>4. CleanupHoldsUses' /\ CleanupScrubsAll' /\ RecordedFirst' /\ NoneUnlessGranted'
    BY <1>2, <2>1 DEF PermissionInv, CleanupHoldsUses, CleanupScrubsAll, RecordedFirst, NoneUnlessGranted, Off
  <2>5. QED  BY <1>2, <2>1, <2>2, <2>3, <2>4 DEF PermissionInv
<1>3. QED  BY <1>1, <1>2

(* Whenever Chrome stops the worker, whichever write or detach fails and however the     *)
(* grant changes meanwhile: a tab with the debugger is one that storage names            *)
(* (recordDebuggerCandidate, forgetDebuggerCandidate of browser.ts), and once the        *)
(* removal is heard and its cleanup over, no tab has it (clearAutomationRuntime).        *)
THEOREM AttachmentsStayAccounted == PermissionSpec => []AttachmentsAccounted
BY PermissionBegins, PermissionStep, PermissionInvIsEnough, PTL DEF PermissionSpec

--------------------------------
(* Popup: one message of the running action is on its way, and the read that ends it   *)
(* sees a state no older than the answer to the action                                 *)

MessagePlaces == {"sent", "read", "answered", "failed"}

\* What is sent for whom, and what an answer carries.
MessageOK(m) ==
  /\ DOMAIN m = {"id", "kind", "arg", "for", "at", "view"}
  /\ m.kind \in ActionKinds \cup {"get"} /\ m.for \in {"guard", "reload"} /\ m.at \in MessagePlaces
  /\ m.kind = "toggle" => m.arg \in BOOLEAN
  /\ m.kind \in {"close", "keep"} => m.arg \in PopupTask
  /\ m.for = "reload" => m.kind = "get"
  /\ m.kind = "get" /\ m.at \in {"read", "answered"} => m.view \in Views

PopupTyped ==
  /\ truth \in Views /\ current \in Views \cup {NoView}
  /\ rows.tasks \subseteq PopupTask /\ rows.confirm \in PopupTask \cup {NoTask} /\ rows.on \in BOOLEAN
  /\ DOMAIN rows = {"tasks", "confirm", "on"}
  /\ guard \in {"idle", "acting", "loading"} /\ confirming \in PopupTask \cup {NoTask}
  /\ \A m \in messages : MessageOK(m)
  /\ doneAt \in Nat /\ doneAt <= truth.n

\* The guard has one message on its way: its action first, and then its read.
GuardSends ==
  /\ Idle => \A m \in messages : m.for # "guard"
  /\ ~Idle => \E m \in messages : m.for = "guard" /\ \A other \in messages : other.for = "guard" => other = m
  /\ \A m \in messages : m.for = "guard" => (m.kind = "get" <=> guard = "loading")

\* Its read sees what the action did.
ReadsAfterAction ==
  guard = "loading" =>
    \A m \in messages : m.for = "guard" /\ m.at \in {"read", "answered"} => m.view.n >= doneAt

PopupInv == PopupTyped /\ GuardSends /\ ReadsAfterAction /\ ArmedIsTimed

--------------------------------

LEMMA PopupInvInit == PopupInit => PopupInv
  <1> SUFFICES ASSUME PopupInit PROVE PopupInv
    OBVIOUS
  <1>1. /\ messages = {} /\ current = NoView /\ guard = "idle" /\ confirming = NoTask /\ doneAt = 0
        /\ rows = [tasks |-> {}, confirm |-> NoTask, on |-> FALSE]
    BY DEF PopupInit
  <1>2. PICK granted \in BOOLEAN : truth = [n |-> 0, tasks |-> {}, on |-> FALSE, granted |-> granted]
    BY DEF PopupInit
  <1>3. truth \in Views /\ truth.n = 0 BY <1>2 DEF Views
  <1>4. PopupTyped BY <1>1, <1>3 DEF PopupTyped
  <1> QED
    BY <1>1, <1>4 DEF PopupInv, GuardSends, ReadsAfterAction, ArmedIsTimed, Idle

\* A new message is one of a kind.
LEMMA MessageIs ==
  ASSUME NEW kind, NEW arg, NEW for
  PROVE  LET m == Message(kind, arg, for)
         IN /\ m.kind = kind /\ m.arg = arg /\ m.for = for /\ m.at = "sent"
            /\ DOMAIN m = {"id", "kind", "arg", "for", "at", "view"}
  BY DEF Message

\* The worker takes a message one step further, and may have changed the state before.
LEMMA WorkerKeeps ==
  ASSUME PopupInv, NEW m \in messages, NEW at \in MessagePlaces, NEW view, Now(m, at, view),
         UNCHANGED popupHolds, truth' \in Views, truth'.n >= truth.n,
         m.kind = "get" /\ at \in {"read", "answered"} =>
           /\ view \in Views
           /\ m.for = "guard" => view.n >= doneAt
  PROVE  PopupInv'
  <1> DEFINE next == [m EXCEPT !.at = at, !.view = view]
  <1>1. /\ messages' = (messages \ {m}) \cup {next}
        /\ current' = current /\ rows' = rows /\ guard' = guard /\ confirming' = confirming
        /\ confirmEpoch' = confirmEpoch /\ confirmTimers' = confirmTimers /\ doneAt' = doneAt
    BY DEF Now, popupHolds
  <1>2. MessageOK(m) BY DEF PopupInv, PopupTyped
  <1>3. /\ next.kind = m.kind /\ next.for = m.for /\ next.arg = m.arg /\ next.at = at /\ next.view = view
        /\ DOMAIN next = DOMAIN m
    BY <1>2 DEF MessageOK
  <1> HIDE DEF next
  <1>4. MessageOK(next) BY <1>2, <1>3 DEF MessageOK
  <1>5. PopupTyped'
    <2>1. truth.n \in Nat /\ truth'.n \in Nat /\ doneAt \in Nat /\ doneAt <= truth.n
      BY DEF PopupInv, PopupTyped, Views
    <2> QED
      BY <1>1, <1>4, <2>1 DEF PopupInv, PopupTyped, MessageOK
  <1>6. GuardSends'
    <2>1. (\A other \in messages' : other.for # "guard") <=> (\A other \in messages : other.for # "guard")
      BY <1>1, <1>3
    <2>2. ASSUME NEW g \in messages, g.for = "guard",
                 \A other \in messages : other.for = "guard" => other = g
          PROVE  \E h \in messages' : /\ h.for = "guard"
                                      /\ \A other \in messages' : other.for = "guard" => other = h
      <3>1. CASE g = m BY <1>1, <1>3, <2>2, <3>1
      <3>2. CASE g # m
        <4>1. m.for # "guard" BY <2>2, <3>2
        <4> QED
          BY <1>1, <1>3, <2>2, <3>2, <4>1
      <3> QED
        BY <3>1, <3>2
    <2> QED
      BY <1>1, <1>3, <2>1, <2>2 DEF PopupInv, GuardSends, Idle
  <1>7. ReadsAfterAction'
    BY <1>1, <1>3 DEF PopupInv, ReadsAfterAction, GuardSends
  <1> QED
    BY <1>1, <1>5, <1>6, <1>7 DEF PopupInv, ArmedIsTimed

\* A message that is not the guard's comes or goes, and what the popup shows is drawn anew.
LEMMA ReloadKeeps ==
  ASSUME PopupInv, UNCHANGED <<truth, guard, doneAt>>,
         \A m \in messages : m.for = "guard" => m \in messages',
         \A m \in messages' : MessageOK(m) /\ (m \in messages \/ m.for = "reload"),
         current' \in Views \cup {NoView}, rows'.tasks \subseteq PopupTask,
         rows'.confirm \in PopupTask \cup {NoTask}, rows'.on \in BOOLEAN,
         DOMAIN rows' = {"tasks", "confirm", "on"}, confirming' \in PopupTask \cup {NoTask},
         ArmedIsTimed'
  PROVE  PopupInv'
  <1>1. PopupTyped' BY DEF PopupInv, PopupTyped, MessageOK, Views
  <1>2. GuardSends'
    <2>1. \A m \in messages' : m.for = "guard" => m \in messages OBVIOUS
    <2> QED
      BY <2>1 DEF PopupInv, GuardSends, Idle
  <1>3. ReadsAfterAction' BY DEF PopupInv, ReadsAfterAction
  <1> QED
    BY <1>1, <1>2, <1>3 DEF PopupInv

LEMMA RenderIs ==
  ASSUME PopupTyped, ArmedIsTimed, NEW v \in Views, Render(v), confirmTimers' = confirmTimers
  PROVE  /\ current' \in Views \cup {NoView} /\ rows'.tasks \subseteq PopupTask
         /\ rows'.confirm \in PopupTask \cup {NoTask} /\ rows'.on \in BOOLEAN
         /\ DOMAIN rows' = {"tasks", "confirm", "on"} /\ confirming' \in PopupTask \cup {NoTask}
         /\ ArmedIsTimed' /\ current' = v
  BY DEF Render, Rows, PopupTyped, ArmedIsTimed, Views

LEMMA FatalIs ==
  ASSUME PopupTyped, ArmedIsTimed, Fatal, confirmTimers' = confirmTimers
  PROVE  /\ current' \in Views \cup {NoView} /\ rows'.tasks \subseteq PopupTask
         /\ rows'.confirm \in PopupTask \cup {NoTask} /\ rows'.on \in BOOLEAN
         /\ DOMAIN rows' = {"tasks", "confirm", "on"} /\ confirming' \in PopupTask \cup {NoTask}
         /\ ArmedIsTimed' /\ current' = NoView
  BY DEF Fatal, PopupTyped, ArmedIsTimed

--------------------------------
\* The worker's steps

LEMMA BecomesIs ==
  ASSUME PopupTyped, NEW v \in Views, Becomes(v)
  PROVE  truth' \in Views /\ truth'.n >= truth.n
  <1>1. truth.n \in Nat BY DEF PopupTyped, Views
  <1>2. truth.n + 1 \in Nat /\ truth.n + 1 >= truth.n BY <1>1
  <1> QED
    BY <1>2 DEF Becomes, Views

LEMMA AgentChangesKeeps ==
  ASSUME PopupInv, AgentChanges
  PROVE  PopupInv'
  <1>1. UNCHANGED <<messages, popupHolds>> BY DEF AgentChanges
  <1>2. PICK k \in PopupTask : Becomes([truth EXCEPT !.tasks = IF k \in @ THEN @ \ {k} ELSE @ \cup {k}])
    BY DEF AgentChanges
  <1>3. PopupTyped /\ truth \in Views BY DEF PopupInv, PopupTyped
  <1>4. [truth EXCEPT !.tasks = IF k \in @ THEN @ \ {k} ELSE @ \cup {k}] \in Views BY <1>3 DEF Views
  <1>5. truth' \in Views /\ truth'.n >= truth.n BY <1>2, <1>3, <1>4, BecomesIs
  <1>6. truth.n \in Nat /\ truth'.n \in Nat /\ doneAt \in Nat BY <1>3, <1>5 DEF PopupTyped, Views
  <1> QED
    BY <1>1, <1>5, <1>6 DEF PopupInv, PopupTyped, GuardSends, ReadsAfterAction, ArmedIsTimed, popupHolds,
                            MessageOK, Idle

LEMMA HandleGetKeeps ==
  ASSUME PopupInv, HandleGet
  PROVE  PopupInv'
  <1>1. PICK m \in messages :
          /\ m.kind = "get"
          /\ \/ m.at = "sent" /\ Now(m, "read", truth)
             \/ m.at = "read" /\ Now(m, "answered", [m.view EXCEPT !.granted = truth.granted])
          /\ UNCHANGED <<workerSees, popupHolds, counts>>
    BY DEF HandleGet
  <1>2. PopupTyped /\ truth \in Views /\ truth' = truth /\ UNCHANGED popupHolds /\ MessageOK(m)
    BY <1>1 DEF PopupInv, PopupTyped, workerSees
  <1>3. truth.n \in Nat /\ doneAt \in Nat /\ doneAt <= truth.n BY <1>2 DEF PopupTyped, Views
  <1>4. CASE m.at = "sent" /\ Now(m, "read", truth)
    BY <1>2, <1>3, <1>4, WorkerKeeps DEF MessagePlaces
  <1>5. CASE m.at = "read" /\ Now(m, "answered", [m.view EXCEPT !.granted = truth.granted])
    <2> DEFINE view == [m.view EXCEPT !.granted = truth.granted]
    <2>1. m.view \in Views BY <1>1, <1>2, <1>5 DEF MessageOK
    <2>2. view \in Views /\ view.n = m.view.n BY <1>2, <2>1 DEF Views
    <2>3. m.for = "guard" => m.view.n >= doneAt
      BY <1>1, <1>5 DEF PopupInv, ReadsAfterAction, GuardSends
    <2> HIDE DEF view
    <2>4. Now(m, "answered", view) BY <1>5 DEF view
    <2> QED
      BY <1>2, <1>3, <2>2, <2>3, <2>4, WorkerKeeps DEF MessagePlaces
  <1> QED
    BY <1>1, <1>4, <1>5

LEMMA HandleActionKeeps ==
  ASSUME PopupInv, HandleAction
  PROVE  PopupInv'
  <1>1. PICK m \in messages :
          /\ m.kind \in ActionKinds /\ m.at = "sent"
          /\ \E v \in After(m) : IF v = truth THEN UNCHANGED workerSees ELSE Becomes(v)
          /\ Now(m, "answered", NoView)
          /\ UNCHANGED <<popupHolds, counts>>
    BY DEF HandleAction
  <1>2. PopupTyped /\ truth \in Views /\ MessageOK(m) /\ m.kind # "get" /\ UNCHANGED popupHolds
    BY <1>1 DEF PopupInv, PopupTyped, ActionKinds
  <1>3. PICK v \in After(m) : IF v = truth THEN UNCHANGED workerSees ELSE Becomes(v) BY <1>1
  <1>4. v \in Views
    <2>1. m.kind = "toggle" => m.arg \in BOOLEAN BY <1>2 DEF MessageOK
    <2>2. m.kind \in {"toggle", "close", "keep", "permit"} BY <1>1 DEF ActionKinds
    <2>3. CASE m.kind = "toggle" BY <1>2, <1>3, <2>1, <2>3 DEF After, Views
    <2>4. CASE m.kind \in {"close", "keep"} BY <1>2, <1>3, <2>4 DEF After, Views
    <2>5. CASE m.kind = "permit" BY <1>2, <1>3, <2>5 DEF After, Views
    <2> QED
      BY <2>2, <2>3, <2>4, <2>5
  <1>5. truth' \in Views /\ truth'.n >= truth.n
    <2>1. truth.n >= truth.n BY <1>2 DEF Views
    <2> QED
      BY <1>2, <1>3, <1>4, <2>1, BecomesIs DEF workerSees
  <1> QED
    BY <1>1, <1>2, <1>5, WorkerKeeps DEF MessagePlaces

LEMMA GoesUnansweredKeeps ==
  ASSUME PopupInv, GoesUnanswered
  PROVE  PopupInv'
  <1>1. PICK m \in messages : /\ Now(m, "failed", NoView)
                              /\ UNCHANGED <<workerSees, popupHolds, agentChanges, clicks>>
    BY DEF GoesUnanswered
  <1>2. truth' = truth /\ truth \in Views /\ truth.n >= truth.n
    BY <1>1 DEF PopupInv, PopupTyped, workerSees, Views
  <1> QED
    BY <1>1, <1>2, WorkerKeeps DEF MessagePlaces

--------------------------------
\* The popup's steps

LEMMA HearsKeeps ==
  ASSUME PopupInv, Hears
  PROVE  PopupInv'
  <1> DEFINE m == Message("get", NoTask, "reload")
  <1>1. /\ truth' = truth /\ UNCHANGED popupHolds /\ guard' = guard /\ doneAt' = doneAt
        /\ messages' = messages \/ messages' = messages \cup {m}
    BY DEF Hears, Sends, popupHolds
  <1>2. MessageOK(m) /\ m.for = "reload" BY MessageIs DEF MessageOK, MessagePlaces
  <1> HIDE DEF m
  <1>3. /\ \A g \in messages : g.for = "guard" => g \in messages'
        /\ \A g \in messages' : MessageOK(g) /\ (g \in messages \/ g.for = "reload")
    BY <1>1, <1>2 DEF PopupInv, PopupTyped
  <1> QED
    BY <1>1, <1>3, ReloadKeeps DEF PopupInv, PopupTyped, ArmedIsTimed, popupHolds

LEMMA ReloadEndsKeeps ==
  ASSUME PopupInv, ReloadEnds
  PROVE  PopupInv'
  <1>1. PICK m \in messages :
          /\ m.for = "reload" /\ m.at \in {"answered", "failed"} /\ messages' = messages \ {m}
          /\ IF m.at = "answered" THEN Render(m.view) ELSE Fatal
          /\ UNCHANGED <<workerSees, guard, confirmTimers, doneAt, counts>>
    BY DEF ReloadEnds
  <1>2. PopupTyped /\ ArmedIsTimed /\ MessageOK(m) /\ confirmTimers' = confirmTimers
    BY <1>1 DEF PopupInv, PopupTyped
  <1>3. m.at = "answered" => m.view \in Views BY <1>1, <1>2 DEF MessageOK
  <1>4. /\ current' \in Views \cup {NoView} /\ rows'.tasks \subseteq PopupTask
        /\ rows'.confirm \in PopupTask \cup {NoTask} /\ rows'.on \in BOOLEAN
        /\ DOMAIN rows' = {"tasks", "confirm", "on"} /\ confirming' \in PopupTask \cup {NoTask}
        /\ ArmedIsTimed'
    BY <1>1, <1>2, <1>3, RenderIs, FatalIs
  <1>5. /\ \A g \in messages : g.for = "guard" => g \in messages'
        /\ \A g \in messages' : MessageOK(g) /\ (g \in messages \/ g.for = "reload")
        /\ truth' = truth /\ guard' = guard /\ doneAt' = doneAt
    BY <1>1 DEF PopupInv, PopupTyped, workerSees
  <1> QED
    BY <1>4, <1>5, ReloadKeeps

\* An action is sent while none runs.
LEMMA GuardedKeeps ==
  ASSUME PopupInv, NEW kind \in ActionKinds, NEW arg, Guarded(kind, arg),
         kind = "toggle" => arg \in BOOLEAN, kind \in {"close", "keep"} => arg \in PopupTask,
         UNCHANGED <<truth, current, confirming, confirmEpoch, confirmTimers, doneAt>>,
         rows' = rows \/ \E on \in BOOLEAN : rows' = [rows EXCEPT !.on = on]
  PROVE  PopupInv'
  <1> DEFINE m == Message(kind, arg, "guard")
  <1>1. Idle /\ guard' = "acting" /\ messages' = messages \cup {m} BY DEF Guarded, Sends
  <1>2. m.kind = kind /\ m.for = "guard" /\ MessageOK(m)
    BY MessageIs DEF MessageOK, MessagePlaces, ActionKinds
  <1>3. kind # "get" BY DEF ActionKinds
  <1> HIDE DEF m
  <1>4. PopupTyped'
    <2>1. rows'.tasks = rows.tasks /\ rows'.confirm = rows.confirm /\ rows'.on \in BOOLEAN
          /\ DOMAIN rows' = {"tasks", "confirm", "on"}
      BY DEF PopupInv, PopupTyped
    <2> QED
      BY <1>1, <1>2, <2>1 DEF PopupInv, PopupTyped, MessageOK
  <1>5. GuardSends' BY <1>1, <1>2, <1>3 DEF PopupInv, GuardSends, Idle
  <1>6. ReadsAfterAction' BY <1>1 DEF ReadsAfterAction
  <1> QED
    BY <1>4, <1>5, <1>6 DEF PopupInv, ArmedIsTimed

LEMMA ClickControlKeeps ==
  ASSUME PopupInv, ClickControl
  PROVE  PopupInv'
  <1>1. UNCHANGED <<truth, current, confirming, confirmEpoch, confirmTimers, doneAt>>
    BY DEF ClickControl, workerSees
  <1>2. rows.on \in BOOLEAN /\ rows.tasks \subseteq PopupTask BY DEF PopupInv, PopupTyped
  <1>3. CASE Guarded("toggle", ~rows.on) /\ rows' = [rows EXCEPT !.on = ~@]
    BY <1>1, <1>2, <1>3, GuardedKeeps DEF ActionKinds
  <1>4. CASE Guarded("permit", NoTask) /\ UNCHANGED rows
    BY <1>1, <1>4, GuardedKeeps DEF ActionKinds
  <1>5. CASE \E k \in rows.tasks : Guarded("keep", k) /\ UNCHANGED rows
    BY <1>1, <1>2, <1>5, GuardedKeeps DEF ActionKinds
  <1> QED
    BY <1>3, <1>4, <1>5 DEF ClickControl

LEMMA ClickConfirmKeeps ==
  ASSUME PopupInv, NEW k \in PopupTask, ClickConfirm(k)
  PROVE  PopupInv'
  <1>1. /\ Guarded("close", k) /\ UNCHANGED rows
        /\ UNCHANGED <<truth, current, confirming, confirmEpoch, confirmTimers, doneAt>>
    BY DEF ClickConfirm, workerSees
  <1> QED
    BY <1>1, GuardedKeeps DEF ActionKinds

LEMMA ClickFinishKeeps ==
  ASSUME PopupInv, NEW k \in PopupTask, ClickFinish(k)
  PROVE  PopupInv'
  <1>1. /\ confirmEpoch' = confirmEpoch + 1 /\ confirming' = k
        /\ confirmTimers' = confirmTimers \cup {confirmEpoch + 1}
        /\ rows' = IF current = NoView THEN rows ELSE Rows(current, k)
        /\ truth' = truth /\ messages' = messages /\ current' = current /\ guard' = guard
        /\ doneAt' = doneAt
    BY DEF ClickFinish, workerSees
  <1>2. PopupTyped' BY <1>1 DEF PopupInv, PopupTyped, Rows, Views, MessageOK
  <1> QED
    BY <1>1, <1>2 DEF PopupInv, GuardSends, ReadsAfterAction, ArmedIsTimed, Idle

LEMMA ArmTimerFiresKeeps ==
  ASSUME PopupInv, ArmTimerFires
  PROVE  PopupInv'
  <1>1. PICK e \in confirmTimers :
          /\ confirmTimers' = confirmTimers \ {e}
          /\ IF e = confirmEpoch
             THEN /\ confirming' = NoTask /\ confirmEpoch' = confirmEpoch + 1
                  /\ rows' = IF current = NoView THEN rows ELSE Rows(current, NoTask)
             ELSE UNCHANGED <<confirming, confirmEpoch, rows>>
          /\ UNCHANGED <<workerSees, messages, current, guard, doneAt, counts>>
    BY DEF ArmTimerFires
  <1>2. truth' = truth /\ messages' = messages /\ current' = current /\ guard' = guard /\ doneAt' = doneAt
    BY <1>1 DEF workerSees
  <1>3. PopupTyped' BY <1>1, <1>2 DEF PopupInv, PopupTyped, Rows, Views, MessageOK
  <1>4. ArmedIsTimed' BY <1>1 DEF PopupInv, ArmedIsTimed
  <1> QED
    BY <1>2, <1>3, <1>4 DEF PopupInv, GuardSends, ReadsAfterAction, Idle

LEMMA ActionEndsKeeps ==
  ASSUME PopupInv, ActionEnds
  PROVE  PopupInv'
  <1> DEFINE read == Message("get", NoTask, "guard")
  <1>1. PICK m \in messages :
          /\ m.for = "guard" /\ m.at \in {"answered", "failed"}
          /\ messages' = (messages \ {m}) \cup {read}
          /\ IF m.at = "answered" /\ m.kind \in {"close", "keep"}
             THEN confirming' = NoTask /\ confirmEpoch' = confirmEpoch + 1
             ELSE UNCHANGED <<confirming, confirmEpoch>>
    BY DEF ActionEnds
  <1>2. /\ guard = "acting" /\ guard' = "loading" /\ doneAt' = truth.n
        /\ truth' = truth /\ current' = current /\ rows' = rows /\ confirmTimers' = confirmTimers
    BY DEF ActionEnds, workerSees
  <1>3. read.kind = "get" /\ read.for = "guard" /\ read.at = "sent" /\ MessageOK(read)
    BY MessageIs DEF MessageOK, MessagePlaces, ActionKinds
  <1> HIDE DEF read
  <1>4. \A other \in messages : other.for = "guard" => other = m
    BY <1>1, <1>2 DEF PopupInv, GuardSends, Idle
  <1>5. PopupTyped'
    <2>1. truth.n \in Nat /\ truth.n <= truth.n BY DEF PopupInv, PopupTyped, Views
    <2>2. confirming' \in PopupTask \cup {NoTask} BY <1>1 DEF PopupInv, PopupTyped
    <2> QED
      BY <1>1, <1>2, <1>3, <2>1, <2>2 DEF PopupInv, PopupTyped, MessageOK
  <1>6. GuardSends' BY <1>1, <1>2, <1>3, <1>4 DEF GuardSends, Idle
  <1>7. ReadsAfterAction' BY <1>1, <1>2, <1>3, <1>4 DEF ReadsAfterAction
  <1>8. ArmedIsTimed' BY <1>1, <1>2 DEF PopupInv, ArmedIsTimed
  <1> QED
    BY <1>5, <1>6, <1>7, <1>8 DEF PopupInv

\* The controls come back over what the guard's read saw, or over none.
LEMMA PopupLoadsKeeps ==
  ASSUME PopupInv, PopupLoads
  PROVE  PopupInv' /\ (current' = NoView \/ current'.n >= doneAt')
  <1>1. PICK m \in messages :
          /\ m.for = "guard" /\ m.at \in {"answered", "failed"} /\ messages' = messages \ {m}
          /\ guard' = NoLongerPending(m.at)
          /\ IF m.at = "answered" THEN Render(m.view) ELSE Fatal
    BY DEF PopupLoads
  <1>2. /\ guard = "loading" /\ guard' = "idle" /\ truth' = truth /\ confirmTimers' = confirmTimers
        /\ doneAt' = doneAt
    BY <1>1 DEF PopupLoads, NoLongerPending, workerSees
  <1>3. PopupTyped /\ ArmedIsTimed /\ MessageOK(m) /\ m.kind = "get"
    BY <1>1, <1>2 DEF PopupInv, PopupTyped, GuardSends
  <1>4. m.at = "answered" => m.view \in Views /\ m.view.n >= doneAt
    BY <1>1, <1>2, <1>3 DEF MessageOK, PopupInv, ReadsAfterAction
  <1>5. /\ current' \in Views \cup {NoView} /\ rows'.tasks \subseteq PopupTask
        /\ rows'.confirm \in PopupTask \cup {NoTask} /\ rows'.on \in BOOLEAN
        /\ DOMAIN rows' = {"tasks", "confirm", "on"} /\ confirming' \in PopupTask \cup {NoTask}
        /\ ArmedIsTimed' /\ current' = IF m.at = "answered" THEN m.view ELSE NoView
    BY <1>1, <1>2, <1>3, <1>4, RenderIs, FatalIs
  <1>6. \A other \in messages : other.for = "guard" => other = m
    BY <1>1, <1>2 DEF PopupInv, GuardSends, Idle
  <1>7. PopupTyped' BY <1>1, <1>2, <1>3, <1>5 DEF PopupTyped, MessageOK
  <1>8. GuardSends' /\ ReadsAfterAction'
    BY <1>1, <1>2, <1>6 DEF GuardSends, ReadsAfterAction, Idle
  <1> QED
    BY <1>2, <1>4, <1>5, <1>7, <1>8 DEF PopupInv

--------------------------------

LEMMA PopupInvNext == PopupInv /\ [PopupNext]_popupVars => PopupInv'
  <1> SUFFICES ASSUME PopupInv, [PopupNext]_popupVars PROVE PopupInv'
    OBVIOUS
  <1>1. CASE AgentChanges \/ HandleGet \/ HandleAction \/ GoesUnanswered
    BY <1>1, AgentChangesKeeps, HandleGetKeeps, HandleActionKeeps, GoesUnansweredKeeps
  <1>2. CASE Hears \/ ReloadEnds \/ ClickControl
    BY <1>2, HearsKeeps, ReloadEndsKeeps, ClickControlKeeps
  <1>3. CASE \E k \in PopupTask : ClickFinish(k) \/ ClickConfirm(k)
    BY <1>3, ClickFinishKeeps, ClickConfirmKeeps
  <1>4. CASE ArmTimerFires \/ ActionEnds \/ PopupLoads
    BY <1>4, ArmTimerFiresKeeps, ActionEndsKeeps, PopupLoadsKeeps
  <1>5. CASE UNCHANGED popupVars
    <2>1. /\ truth' = truth /\ messages' = messages /\ current' = current /\ rows' = rows
          /\ guard' = guard /\ confirming' = confirming /\ confirmEpoch' = confirmEpoch
          /\ confirmTimers' = confirmTimers /\ doneAt' = doneAt
      BY <1>5 DEF popupVars
    <2> QED
      BY <2>1 DEF PopupInv, PopupTyped, GuardSends, ReadsAfterAction, ArmedIsTimed, Idle, MessageOK
  <1> QED
    BY <1>1, <1>2, <1>3, <1>4, <1>5 DEF PopupNext

\* Only PopupLoads gives the controls back.
LEMMA PopupNextIsFresh ==
  PopupInv /\ [PopupNext]_popupVars =>
    [~Idle /\ guard' = "idle" => current' = NoView \/ current'.n >= doneAt']_popupVars
  <1> SUFFICES ASSUME PopupInv, PopupNext, ~Idle, guard' = "idle"
               PROVE  current' = NoView \/ current'.n >= doneAt'
    OBVIOUS
  <1>1. guard' # guard BY DEF Idle
  <1>2. ~(AgentChanges \/ HandleGet \/ HandleAction \/ GoesUnanswered)
    BY <1>1 DEF AgentChanges, HandleGet, HandleAction, GoesUnanswered, popupHolds
  <1>3. ~(Hears \/ ReloadEnds \/ ArmTimerFires \/ ActionEnds)
    BY <1>1 DEF Hears, ReloadEnds, ArmTimerFires, ActionEnds, popupHolds
  <1>4. ~(ClickControl \/ \E k \in PopupTask : ClickFinish(k) \/ ClickConfirm(k))
    BY <1>1 DEF ClickControl, ClickFinish, ClickConfirm, Guarded
  <1>5. PopupLoads BY <1>2, <1>3, <1>4 DEF PopupNext
  <1> QED
    BY <1>5, PopupLoadsKeeps

(* The popup takes its question back in time, runs one action at a time, and gives the  *)
(* controls back over a state read after the action was answered, however the events,   *)
(* the answers and the worker's stops interleave (popup.ts: guard, arm, disarm, reload). *)
THEOREM ControlsStayFresh == PopupSpec => ControlsAreFresh
  <1>1. PopupInit => PopupInv BY PopupInvInit
  <1>2. PopupInv /\ [PopupNext]_popupVars => PopupInv' BY PopupInvNext
  <1>3. PopupInv => PopupTypeOK /\ ArmedIsTimed
    <2>1. PopupTyped => \A m \in messages : /\ m.kind \in ActionKinds \cup {"get"}
                                            /\ m.for \in {"guard", "reload"}
                                            /\ m.at \in {"sent", "read", "answered", "failed"}
      BY DEF PopupTyped, MessageOK, MessagePlaces
    <2> QED
      BY <2>1 DEF PopupInv, PopupTyped, PopupTypeOK, GuardSends
  <1>4. PopupInv /\ [PopupNext]_popupVars =>
          [~Idle /\ guard' = "idle" => current' = NoView \/ current'.n >= doneAt']_popupVars
    BY PopupNextIsFresh
  <1> QED
    BY <1>1, <1>2, <1>3, <1>4, PTL DEF PopupSpec, ControlsAreFresh, ActionEndsOnFreshView

================================
