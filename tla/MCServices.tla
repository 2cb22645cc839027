---- MODULE MCServices ----
(* Instances of the services of the extension for TLC, one at a time: the parts share  *)
(* no variable, so a run that starts one of them and leaves the others as they begin    *)
(* checks each part as a run of its own would.                                          *)
EXTENDS StartupQueue, NativeConnection, PermissionCleanup, Handoffs, Popup

VARIABLE part

services == <<part, startupVars, connectionVars, permissionVars, handoffVars,
              popupVars>>

ServicesInit ==
  /\ part \in {"startup", "connection", "permissions", "handoffs", "popup"}
  /\ StartupInit /\ ConnectionInit /\ PermissionInit /\ HandoffInit /\ PopupInit
  /\ truth.granted

StartupRuns == part = "startup" /\ StartupNext
  /\ UNCHANGED <<part, connectionVars, permissionVars, handoffVars, popupVars>>
ConnectionRuns == part = "connection" /\ ConnectionNext
  /\ UNCHANGED <<part, startupVars, permissionVars, handoffVars, popupVars>>
PermissionRuns == part = "permissions" /\ PermissionNext
  /\ UNCHANGED <<part, startupVars, connectionVars, handoffVars, popupVars>>
HandoffRuns == part = "handoffs" /\ HandoffNext
  /\ UNCHANGED <<part, startupVars, connectionVars, permissionVars, popupVars>>
PopupRuns == part = "popup" /\ PopupNext
  /\ UNCHANGED <<part, startupVars, connectionVars, permissionVars, handoffVars>>

ServicesNext ==
  \/ StartupRuns \/ ConnectionRuns \/ PermissionRuns
  \/ HandoffRuns \/ PopupRuns

\* What an idle part is fair to is disabled: it waits for an event, a message or a call.
ServicesSpec ==
  /\ ServicesInit /\ [][ServicesNext]_services
  /\ StartupFairness /\ ConnectionFairness /\ PermissionFairness
  /\ HandoffFairness /\ PopupFairness

\* Whatever failed, died or was refused meanwhile, every service gets back to where the
\* code leaves it at rest: waiting operations begin, the bridge is connected, a revocation
\* detaches and a grant opens again once the commands under way end, notices retire, the
\* popup's controls return.
ServicesRecover ==
  /\ OperationsBegin /\ ComesBack /\ RevocationDetaches /\ GrantReopens
  /\ NoticesRetire /\ ControlsComeBack

================================
