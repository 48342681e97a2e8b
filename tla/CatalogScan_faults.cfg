SPECIFICATION Spec
CONSTANTS
  a = a
  b = b
  c = c
  s = s
  t = t
  NoFile = NoFile
  NoSource = NoSource
  Files = {a, b}
  Sources = {s}
  Kind <- ContentKind
  Under <- OneSource
  BatchSize = 2
  MaxEdits = 3
  EditKinds = {"write", "touch", "remove", "restore", "volume", "enable", "drop", "reindex", "stop"}
  MaxFaults = 2
  FaultKinds = {"walk", "stat", "extract", "embed", "backend", "write", "crash"}
INVARIANTS
  TypeOK
  UnchangedMeansCurrent
  CommittedWhole
PROPERTIES
  KeepWhatWasThere
CHECK_DEADLOCK FALSE
