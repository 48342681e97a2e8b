CONSTANTS
  Asks = {u1, u2}
  Nobody = Nobody
  MaxSwaps = 1
  MaxCancels = 1
  MaxRetries = 1
SPECIFICATION Spec
INVARIANTS TypeOK LaneHeldByWorkers CancelHitsItsTarget
PROPERTIES LaneSpec SwapSparesAsks EveryAskEnds LaneComesBack
