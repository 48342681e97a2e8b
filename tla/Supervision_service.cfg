SPECIFICATION FairSpec
CONSTANTS
  Daemons = {d1, d2}
  Nobody = Nobody
  MaxFaults = 1
  MaxOrders = 1
  Orders = {"stop", "restart", "exit", "launch"}
INVARIANTS
  TypeOK
  OneDaemon
  RecoveryEndsTheHolder
PROPERTIES
  ServiceReturns
CHECK_DEADLOCK FALSE
