SPECIFICATION Spec
CONSTANTS
  a = a
  b = b
  c = c
  s = s
  t = t
  NoFile = NoFile
  NoSource = NoSource
  Files = {a, b, c}
  Sources = {s, t}
  Kind <- MixedKind
  Under <- Nested
  BatchSize = 2
  MaxEdits = 2
  EditKinds = {"write", "touch", "remove", "restore", "volume", "enable", "drop", "reindex", "stop", "revert"}
  MaxFaults = 1
  FaultKinds = {"walk", "stat", "extract", "embed", "write", "crash"}
INVARIANTS
  EveryFileCountedOnce
PROPERTIES
  ScanTouchesOwnFiles
CHECK_DEADLOCK FALSE
