---- MODULE NativeConnection ----
(* The extension's end of the native messaging port (native.ts): one port at a      *)
(* time, a hello and a ready before any command is served, popup decisions that      *)
(* await the host's acknowledgement, and the reconnection that a fast timer and a    *)
(* slower chrome.alarms alarm share.  The host may refuse to start, exit, hang after *)
(* the hello or send what it should not.                                             *)
EXTENDS Naturals, Sequences, FiniteSets

CONSTANTS MaxPorts,          \* bound: ports opened
          MaxHostFaults,     \* bound: hosts that fail to start, exit, hang or misbehave
          MaxPopupEvents,    \* bound: popup decisions sent
          FastAttempts       \* attempts whose delay is under RECONNECT_ALARM_FLOOR_MS

ASSUME ConnectionConstants ==
  /\ MaxPorts \in Nat \ {0} /\ MaxHostFaults \in Nat /\ MaxPopupEvents \in Nat
  /\ FastAttempts \in Nat \ {0}

VARIABLES port,             \* this.port: the number of the port, 0 for null
          ready,            \* this.ready
          greeted,          \* the hello of this.port is posted
          reconciling,      \* reconcileReady: "none", "discarding", "clearing", "resuming"
          attempt,          \* reconnectAttempt
          timer,            \* cancelReconnectTimer is set
          alarm,            \* Chrome: RECONNECT_ALARM is set
          alarmDue,         \* the alarm went off and its handler waits in the start-up queue
          awaiting,         \* pendingEventAcks: [event, port] of each
          inbox,            \* frames of the current port not yet handled
          serving,          \* ports of the commands being handled
          discarded,        \* history: ports whose ready has discarded the stale stages
          links,            \* Chrome: each port "new", "open", "closed" by the host's exit or
                            \* "hung_up" by the extension; and whether its host works
          hangups,          \* Chrome: ports whose onDisconnect is to run
          hostFaults, popupEvents

connectionVars == <<port, ready, greeted, reconciling, attempt, timer, alarm, alarmDue, awaiting,
                    inbox, serving, discarded, links, hangups, hostFaults, popupEvents>>

Ports == 1..MaxPorts
ConnectionTypeOK ==
  /\ port \in 0..MaxPorts /\ ready \in BOOLEAN /\ greeted \in BOOLEAN
  /\ reconciling \in {"none", "discarding", "clearing", "resuming"}
  /\ attempt \in Nat /\ timer \in BOOLEAN /\ alarm \in BOOLEAN /\ alarmDue \in BOOLEAN
  /\ awaiting \subseteq [event : 1..MaxPopupEvents, port : Ports]
  /\ inbox \in Seq({"ready", "command", "ack", "malformed"})
  /\ serving \subseteq Ports /\ discarded \subseteq Ports
  /\ links \in [Ports -> [state : {"new", "open", "closed", "hung_up"}, good : BOOLEAN]]
  /\ hangups \subseteq Ports

ConnectionInit ==
  /\ port = 0 /\ ready = FALSE /\ greeted = FALSE /\ reconciling = "none" /\ attempt = 0
  /\ timer = FALSE /\ alarm = FALSE /\ alarmDue = FALSE /\ awaiting = {} /\ inbox = <<>>
  /\ serving = {} /\ discarded = {}
  /\ links = [p \in Ports |-> [state |-> "new", good |-> TRUE]]
  /\ hangups = {} /\ hostFaults = 0 /\ popupEvents = 0

Unused == {p \in Ports : links[p].state = "new"}
Faulty == hostFaults < MaxHostFaults /\ hostFaults' = hostFaults + 1
Faultless == UNCHANGED hostFaults

--------------------------------
(* Connecting *)

\* scheduleReconnect with ensureReconnectAlarm: the alarm always, the timer as well
\* while the doubling delay is short.
ScheduleReconnect ==
  /\ attempt' = attempt + 1
  /\ alarm' = TRUE
  /\ timer' = (timer \/ attempt < FastAttempts)

\* connect(): nothing with a port; a throw of connectNative schedules another try; a
\* new port arms the alarm, should the handshake hang.
Connect ==
  \/ /\ port # 0
     /\ UNCHANGED <<port, ready, greeted, reconciling, attempt, timer, alarm, inbox, links, hostFaults>>
  \/ /\ port = 0 /\ Faulty
     /\ attempt' = attempt + 1 /\ alarm' = TRUE /\ timer' = (attempt < FastAttempts)
     /\ UNCHANGED <<port, ready, greeted, reconciling, inbox, links>>
  \/ /\ port = 0 /\ Unused # {}
     /\ \E good \in BOOLEAN :
          /\ IF good THEN Faultless ELSE Faulty
          /\ port' = MaxPorts + 1 - Cardinality(Unused)
          /\ links' = [links EXCEPT ![port'] = [state |-> "open", good |-> good]]
     /\ ready' = FALSE /\ greeted' = FALSE /\ reconciling' = "none" /\ inbox' = <<>>
     /\ timer' = FALSE /\ alarm' = TRUE
     /\ UNCHANGED attempt

\* initializeRuntime connects once the worker is up.
FirstConnect ==
  /\ attempt = 0 /\ Cardinality(Unused) = MaxPorts /\ hostFaults = 0
  /\ Connect
  /\ UNCHANGED <<alarmDue, awaiting, serving, discarded, hangups, popupEvents>>

\* The timer connects when there is no port.
TimerFires ==
  /\ timer
  /\ IF port = 0
     THEN Connect
     ELSE timer' = FALSE
          /\ UNCHANGED <<port, ready, greeted, reconciling, attempt, alarm, inbox, links, hostFaults>>
  /\ UNCHANGED <<alarmDue, awaiting, serving, discarded, hangups, popupEvents>>

\* The alarm is due no sooner than RECONNECT_ALARM_FLOOR_MS: a working host that has
\* not shaken hands by then counts as a faulty one.
AlarmFires ==
  /\ alarm /\ alarm' = FALSE /\ alarmDue' = TRUE
  /\ IF port # 0 /\ links[port] = [state |-> "open", good |-> TRUE] /\ ~ready THEN Faulty ELSE Faultless
  /\ UNCHANGED <<port, ready, greeted, reconciling, attempt, timer, awaiting, inbox, serving,
                 discarded, links, hangups, popupEvents>>

\* port.disconnect() by the extension.  Chrome runs onDisconnect only at the other end.
HangsUp ==
  /\ links' = [links EXCEPT ![port].state = IF @ = "open" THEN "hung_up" ELSE @]
  /\ inbox' = <<>>
  /\ UNCHANGED hangups

\* reconnectFromAlarm: a port that is not ready is given up, no port means connect.
AlarmRuns ==
  /\ alarmDue /\ alarmDue' = FALSE
  /\ CASE port = 0 -> Connect /\ UNCHANGED hangups
       [] port # 0 /\ ready ->
            /\ timer' = FALSE
            /\ UNCHANGED <<port, ready, greeted, reconciling, attempt, alarm, inbox, links,
                           hangups, hostFaults>>
       [] port # 0 /\ ~ready ->
            /\ timer' = FALSE /\ HangsUp
            /\ UNCHANGED <<port, ready, greeted, reconciling, attempt, alarm, hostFaults>>
  /\ UNCHANGED <<awaiting, serving, discarded, popupEvents>>

LostKeepsDecisions ==
  /\ port' = 0 /\ ready' = FALSE /\ reconciling' = "none" /\ greeted' = FALSE /\ inbox' = <<>>
  /\ UNCHANGED awaiting
  /\ ScheduleReconnect

\* connect() posts the hello once state and inventory are read; a port that closed
\* meanwhile makes the post throw, which counts as a disconnection.
Lost ==
  /\ port' = 0 /\ ready' = FALSE /\ reconciling' = "none" /\ greeted' = FALSE /\ inbox' = <<>>
  /\ awaiting' = {}
  /\ ScheduleReconnect

Hello ==
  /\ port # 0 /\ ~greeted
  /\ IF links[port].state = "open"
     THEN greeted' = TRUE /\ UNCHANGED <<port, ready, reconciling, attempt, timer, alarm, inbox, awaiting>>
     ELSE Lost
  /\ UNCHANGED <<alarmDue, serving, discarded, links, hangups, hostFaults, popupEvents>>

\* onDisconnect(port): only the current port counts.
OnDisconnect ==
  \E p \in hangups :
    /\ hangups' = hangups \ {p}
    /\ IF p = port THEN Lost
       ELSE UNCHANGED <<port, ready, greeted, reconciling, attempt, timer, alarm, inbox, awaiting>>
    /\ UNCHANGED <<alarmDue, serving, discarded, links, hostFaults, popupEvents>>

--------------------------------
(* The host *)

Receives(frame) == Len(inbox) < 2 /\ inbox' = Append(inbox, frame)
HostUnchanged == UNCHANGED <<port, ready, greeted, reconciling, attempt, timer, alarm, alarmDue,
                             awaiting, serving, discarded, popupEvents>>

\* A host that works answers the hello with ready, once.
HostReady ==
  /\ port # 0 /\ greeted /\ links[port] = [state |-> "open", good |-> TRUE]
  /\ ~ready /\ reconciling = "none" /\ inbox = <<>>
  /\ Receives("ready") /\ Faultless /\ HostUnchanged /\ UNCHANGED <<links, hangups>>

\* It forwards commands to a ready extension and acknowledges popup decisions.
HostSends(frame) ==
  /\ port # 0 /\ links[port].state = "open" /\ links[port].good
  /\ \/ frame = "command" /\ (ready \/ reconciling # "none") /\ serving = {}
     \/ frame = "ack" /\ awaiting # {}
  /\ Receives(frame) /\ Faultless /\ HostUnchanged /\ UNCHANGED <<links, hangups>>

\* A host that misbehaves sends a frame that does not parse, or a second ready.
HostMisbehaves ==
  /\ port # 0 /\ greeted /\ links[port].state = "open"
  /\ \E frame \in {"malformed", "ready", "command"} : Receives(frame)
  /\ Faulty /\ links' = [links EXCEPT ![port].good = FALSE]
  /\ HostUnchanged /\ UNCHANGED hangups

\* The host process exits.
HostExits ==
  /\ port # 0 /\ links[port].state = "open"
  /\ Faulty
  /\ links' = [links EXCEPT ![port].state = "closed"]
  /\ hangups' = hangups \cup {port}
  /\ HostUnchanged /\ UNCHANGED inbox

--------------------------------
(* onMessage *)

Handles(frame) == port # 0 /\ inbox # <<>> /\ Head(inbox) = frame /\ inbox' = Tail(inbox)
MessageUnchanged == UNCHANGED <<attempt, timer, alarm, alarmDue, hostFaults, popupEvents>>

\* A frame that does not parse, or a ready while one is being reconciled, or a
\* command before ready: the port is given up.
GivesUp ==
  /\ port # 0 /\ inbox # <<>>
  /\ \/ Head(inbox) = "malformed"
     \/ Head(inbox) = "ready" /\ reconciling # "none"
     \/ Head(inbox) = "command" /\ ~ready /\ reconciling = "none"
  /\ HangsUp
  /\ MessageUnchanged
  /\ UNCHANGED <<port, ready, greeted, reconciling, awaiting, serving, discarded>>

\* reconcileReady, an await at a time: stale stages are discarded before the bridge
\* is ready, and the alarm is cleared before the scheduler resumes or pauses.
StartReady ==
  /\ Handles("ready") /\ reconciling = "none"
  /\ reconciling' = "discarding"
  /\ MessageUnchanged
  /\ UNCHANGED <<port, ready, greeted, awaiting, serving, discarded, links, hangups>>

ReadyBeforeDiscard ==
  /\ port # 0 /\ reconciling = "discarding"
  /\ ready' = TRUE /\ attempt' = 0 /\ timer' = FALSE /\ alarm' = FALSE
  /\ reconciling' = "clearing"
  /\ UNCHANGED <<port, greeted, alarmDue, awaiting, inbox, serving, discarded, links, hangups,
                 hostFaults, popupEvents>>

Discarded ==
  /\ port # 0 /\ reconciling = "discarding"
  /\ discarded' = discarded \cup {port}
  /\ ready' = TRUE /\ attempt' = 0 /\ timer' = FALSE /\ alarm' = FALSE
  /\ reconciling' = "clearing"
  /\ UNCHANGED <<port, greeted, alarmDue, awaiting, inbox, serving, links, hangups,
                 hostFaults, popupEvents>>

\* discardStages throws: the port is given up.
DiscardFails ==
  /\ port # 0 /\ reconciling = "discarding" /\ Faulty
  /\ HangsUp /\ reconciling' = "none"
  /\ UNCHANGED <<port, ready, greeted, attempt, timer, alarm, alarmDue, awaiting, serving,
                 discarded, popupEvents>>

Reconciles ==
  /\ port # 0 /\ reconciling \in {"clearing", "resuming"}
  /\ reconciling' = IF reconciling = "clearing" THEN "resuming" ELSE "none"
  /\ MessageUnchanged
  /\ UNCHANGED <<port, ready, greeted, awaiting, inbox, serving, discarded, links, hangups>>

\* A command waits for the reconciliation, then is handled if the port is still the one.
Serve ==
  /\ Handles("command") /\ ready /\ reconciling = "none"
  /\ serving' = serving \cup {port}
  /\ MessageUnchanged
  /\ UNCHANGED <<port, ready, greeted, reconciling, awaiting, discarded, links, hangups>>

\* The response goes to the port the command came from, or nowhere.  A post on a port
\* that closed throws, which counts as a disconnection.
Respond(p) ==
  /\ p \in serving /\ serving' = serving \ {p}
  /\ IF p = port /\ links[p].state # "open"
     THEN Lost
     ELSE UNCHANGED <<port, ready, greeted, reconciling, attempt, timer, alarm, inbox, awaiting>>
  /\ UNCHANGED <<alarmDue, discarded, links, hangups, hostFaults, popupEvents>>

\* sendEvent on a port that closed.
EventFindsPortClosed ==
  /\ port # 0 /\ ready /\ links[port].state # "open"
  /\ Lost
  /\ UNCHANGED <<alarmDue, serving, discarded, links, hangups, hostFaults, popupEvents>>

\* requestPopupEvent: only over a ready port.
PopupDecides ==
  /\ port # 0 /\ ready /\ popupEvents < MaxPopupEvents
  /\ links[port].state = "open"
  /\ popupEvents' = popupEvents + 1
  /\ awaiting' = awaiting \cup {[event |-> popupEvents', port |-> port]}
  /\ UNCHANGED <<port, ready, greeted, reconciling, attempt, timer, alarm, alarmDue, inbox,
                 serving, discarded, links, hangups, hostFaults>>

\* event_ack: the decision it names is settled, an unknown one ignored.
Acknowledged ==
  /\ Handles("ack")
  /\ \E e \in awaiting : awaiting' = awaiting \ {e}
  /\ MessageUnchanged
  /\ UNCHANGED <<port, ready, greeted, reconciling, serving, discarded, links, hangups>>
AcknowledgedLate ==
  /\ Handles("ack")
  /\ MessageUnchanged
  /\ UNCHANGED <<port, ready, greeted, reconciling, awaiting, serving, discarded, links, hangups>>

\* The 30 s timer of a decision refuses it.
AckTimesOut ==
  /\ \E e \in awaiting : awaiting' = awaiting \ {e}
  /\ UNCHANGED <<port, ready, greeted, reconciling, attempt, timer, alarm, alarmDue, inbox, serving,
                 discarded, links, hangups, hostFaults, popupEvents>>

ConnectionNext ==
  \/ FirstConnect \/ TimerFires \/ AlarmFires \/ AlarmRuns \/ Hello \/ OnDisconnect
  \/ HostReady \/ HostMisbehaves \/ HostExits \/ GivesUp \/ StartReady \/ Discarded
  \/ DiscardFails \/ Reconciles \/ EventFindsPortClosed \/ Serve \/ PopupDecides \/ Acknowledged \/ AcknowledgedLate
  \/ AckTimesOut
  \/ \E frame \in {"command", "ack"} : HostSends(frame)
  \/ \E p \in Ports : Respond(p)

\* Timers and alarms fire, Chrome delivers, and a host that works answers a hello.
ConnectionFairness ==
  /\ WF_connectionVars(TimerFires) /\ WF_connectionVars(AlarmFires) /\ WF_connectionVars(AlarmRuns)
  /\ WF_connectionVars(Hello) /\ WF_connectionVars(OnDisconnect) /\ WF_connectionVars(HostReady)
  /\ WF_connectionVars(GivesUp \/ StartReady \/ Serve \/ Acknowledged \/ AcknowledgedLate)
  /\ WF_connectionVars(Discarded \/ DiscardFails) /\ WF_connectionVars(Reconciles)

ConnectionSpec ==
  ConnectionInit /\ [][ConnectionNext]_connectionVars /\ ConnectionFairness

--------------------------------
(* Properties *)

\* A popup decision waits only on the port it was sent on: none is settled by the
\* acknowledgement of another host process (NativeBridge.onDisconnect).
DecisionsOfThisPort == \A e \in awaiting : e.port = port

\* No command is served on a port whose ready has not discarded the stages the host
\* no longer knows (NativeBridge.onMessage, reconcileReady).
ServedOnReconciledPort == serving \subseteq discarded

\* Whatever state the connection is in short of ready, a timer, an alarm, a notice of
\* disconnection or the reconciliation is under way: the bridge waits for something,
\* unless it hung up itself (NativeBridge.scheduleReconnect, ensureReconnectAlarm).
Begun == hostFaults > 0 \/ port # 0
UnderWay == timer \/ alarm \/ alarmDue \/ hangups # {} \/ reconciling # "none"
HungUp == port # 0 /\ links[port].state = "hung_up"
NeverLeftAlone == Begun /\ ~ready /\ ~HungUp => UnderWay

\* The bridge recovers from any sequence of failures of its hosts, unless it hung up
\* itself: it ends ready, on a port whose host is there (NativeBridge.connect).  A
\* behaviour that used up the ports of the bound says nothing.
ComesBack == []<>(Begun => HungUp \/ (ready /\ links[port].state = "open") \/ Unused = {})

\* Violated: "recycles a connected native port that never completes its ready
\* handshake" (packages/extension/test/extension.test.ts): once the alarm has hung up
\* on a silent host, something is under way that connects again.
SilentPortRecycled == Begun /\ ~ready => UnderWay

\* What is decided and served belongs to the port that asked and was reconciled, and a
\* bridge without a ready port has an attempt or an alarm under way (NativeBridge).
PortsTrusted ==
  ConnectionTypeOK /\ DecisionsOfThisPort /\ ServedOnReconciledPort /\ NeverLeftAlone

================================
