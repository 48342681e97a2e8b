CONSTANTS
  MaxBackends = 2
  MaxSessions = 2
  MaxRequests = 1
  MaxActs = 1
SPECIFICATION FairSpec
INVARIANTS TypeOK CancelReachesItsLoad
PROPERTIES OnlyAJobLeavesASidecar JobsEnd
CHECK_DEADLOCK FALSE
