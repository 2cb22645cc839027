---- MODULE MCAgents ----
(* The two queues a command passes, one at a time for TLC: the agent's client and its   *)
(* adapter, and the extension's scheduler.  They share no variable, so a run that       *)
(* starts one of them and leaves the other as it begins checks each as a run of its     *)
(* own would.                                                                           *)
EXTENDS ExtensionScheduler, AgentClients

VARIABLE part

queues == <<part, vars, agentVars>>

QueuesInit ==
  /\ part \in {"scheduler", "agents"}
  /\ Init /\ AgentInit
  /\ part = "scheduler" => adapter.kind = "mcp"
  /\ part = "agents" => ~paused

SchedulerRuns == part = "scheduler" /\ Next /\ UNCHANGED <<part, agentVars>>
AgentRuns == part = "agents" /\ AgentNext /\ UNCHANGED <<part, vars>>

\* The fairness of each part, when it is the one that runs.
QueuesFairness ==
  /\ \A o \in Op : WF_vars(part = "scheduler" /\ Dispatch(o))
  /\ WF_agentVars(part = "agents" /\ Advances)

QueuesSpec == QueuesInit /\ [][SchedulerRuns \/ AgentRuns]_queues /\ QueuesFairness

\* Whatever is accepted settles: every operation the scheduler has queued, if those that run
\* end, and every call an agent waits for, if the host delivers one capability at a time.
EveryCallEnds == EveryOpSettles /\ CallsSettle

================================
