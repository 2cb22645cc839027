SPECIFICATION PagesSpec
CONSTANTS
  MaxStarts = 2
  MaxMoves = 2
  MaxPolls = 1
  MaxNavigations = 2
  MaxUpsets = 1
  MaxRequests = 2
  User = {u1, u2}
  MaxSessions = 3
  MaxTroubles = 1
CHECK_DEADLOCK FALSE
INVARIANTS RevisionsSettled RefsAreCurrent SessionsAgree
PROPERTIES MatchesAreReal PagesLetGo
