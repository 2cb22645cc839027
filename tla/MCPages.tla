---- MODULE MCPages ----
(* Instances of the commands of a page for TLC, one part at a time, as in MCServices. *)
EXTENDS PageSettling, PageWaits, PageActs, DebuggerSessions

VARIABLE part

pages == <<part, pageVars, waitVars, actVars, debuggerVars>>

\* An idle part begins in one of its initial states.
PagesInit ==
  /\ part \in {"settling", "waits", "acts", "debugger"}
  /\ PageInit /\ WaitInit /\ ActsInit /\ DebuggerInit
  /\ part # "settling" => page.present
  /\ part # "waits" => tab.wanted /\ wait.kind = CHOOSE kind \in WaitKinds : TRUE
  /\ part # "acts" => ~refused
  /\ part # "debugger" => \A u \in User : user[u].kind = "bare"

SettlingRuns == part = "settling" /\ PageNext
  /\ UNCHANGED <<part, waitVars, actVars, debuggerVars>>
WaitRuns == part = "waits" /\ WaitNext
  /\ UNCHANGED <<part, pageVars, actVars, debuggerVars>>
ActRuns == part = "acts" /\ ActsNext
  /\ UNCHANGED <<part, pageVars, waitVars, debuggerVars>>
DebuggerRuns == part = "debugger" /\ DebuggerNext
  /\ UNCHANGED <<part, pageVars, waitVars, actVars>>

PagesNext == SettlingRuns \/ WaitRuns \/ ActRuns \/ DebuggerRuns

\* What an idle part is fair to is disabled: it waits for a command.
PagesSpec ==
  /\ PagesInit /\ [][PagesNext]_pages
  /\ PageFairness /\ WaitFairness /\ DebuggerFairness

\* A closed tab ends what waits for it, every wait returns, and the attachment of a tab whose
\* operations are over is let go.
PagesLetGo == ClosedTabReleases /\ WaitsEnd /\ LeasesLetGo

================================
