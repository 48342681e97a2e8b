SPECIFICATION FairSpec
CONSTANTS
  NoModel = NoModel
  Nobody = Nobody
  Missing = Missing
  Models = {m, n}
  Handlers = {h, k}
  MaxRequests = 2
  MaxJobs = 2
  MaxTrials = 2
  MaxFaults = 1
INVARIANTS
  TypeOK
  InstalledIsVerified
  SelectedIsWhatRuns
PROPERTIES
  WorkEnds
CHECK_DEADLOCK FALSE
