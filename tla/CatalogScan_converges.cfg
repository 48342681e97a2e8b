SPECIFICATION FairSpec
CONSTANTS
  a = a
  b = b
  c = c
  s = s
  t = t
  NoFile = NoFile
  NoSource = NoSource
  Files = {a, b, c}
  Sources = {s}
  Kind <- AllKinds
  Under <- OneSource
  BatchSize = 2
  MaxEdits = 2
  EditKinds = {"write", "touch", "revert", "remove", "restore", "volume", "enable", "reindex", "stop"}
  MaxFaults = 1
  FaultKinds = {"walk", "stat", "extract", "embed", "backend", "write", "crash"}
PROPERTIES
  Convergence
CHECK_DEADLOCK FALSE
