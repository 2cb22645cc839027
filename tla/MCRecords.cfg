SPECIFICATION RecordsSpec
CONSTANTS
  PageAction = {a1, a2}
  Expecting = {a1, a2}
  NoAction = NoAction
  Retention = 1
  MaxDownloadTime = 1
  MaxCuts = 1
  RefTab = {t1}
  MaxRefs = 3
  MaxRefKills = 1
  MaxRefFailures = 1
  MaxBrowserStarts = 1
  Budget = 1
  EpisodeLife = 0
  EpisodeCap = 2
  Pages <- FewPages
  MaxDocuments = 2
  MaxScanTime = 1
  MaxWaitPolls = 1
  MaxOperations = 2
  StoredTask = {k1, k2}
  StoredTab = {1}
  Nothing = Nothing
  Raws <- FewRaws
  Legacies <- FewLegacies
  MaxMutateCalls = 2
  MaxReadCalls = 1
  MaxStops = 1
  MaxStorageFailures = 1
  Release <- Releases
  Keys = 2
  Malformed = {1}
  Absent = Absent
  Partial = Partial
  MaxEdits = 1
  MaxAttempts = 2
  MaxBreaks = 1
  MaxFaults = 2
CHECK_DEADLOCK FALSE
INVARIANTS AttributedOrWithheld RefsFollowTabs InstallsAllOrNothing
PROPERTIES EpisodesAccounted StateSurvives
