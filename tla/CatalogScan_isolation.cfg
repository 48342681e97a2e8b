SPECIFICATION Spec
CONSTANTS
  a = a
  b = b
  c = c
  s = s
  t = t
  NoFile = NoFile
  NoSource = NoSource
  Files = {a, b}
  Sources = {s}
  Kind <- OfficeKind
  Under <- OneSource
  BatchSize = 2
  MaxEdits = 1
  EditKinds = {"write"}
  MaxFaults = 1
  FaultKinds = {"stat"}
PROPERTIES
  FailureIsIsolated
CHECK_DEADLOCK FALSE
