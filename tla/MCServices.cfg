SPECIFICATION ServicesSpec
CONSTANTS
  Event = {e1, e2, e3}
  NoEvent = NoEvent
  MaxStartFailures = 2
  MaxPorts = 4
  MaxHostFaults = 2
  MaxPopupEvents = 1
  FastAttempts = 1
  Page = {p1}
  MaxChanges = 3
  MaxKills = 1
  MaxDetachFailures = 1
  HandoffTask = {k1}
  HandoffTab = {t1, t2}
  NoOwner = NoOwner
  KeptNotices = 1
  MaxNotices = 2
  MaxTransitions = 2
  MaxTime = 2
  MaxTroubles = 1
  PopupTask = {k1}
  NoTask = NoTask
  NoView = NoView
  MaxAgentChanges = 1
  MaxClicks = 2
  MaxUnanswered = 1
  MaxMessages = 2
CHECK_DEADLOCK FALSE
INVARIANTS OperationsInOrder PortsTrusted AttachmentsAccounted
PROPERTIES NoticesAccounted ControlsAreFresh ServicesRecover
