\* One sender of two commands, a restart after a crash or a stop: what is read
\* is done.
SPECIFICATION FairSpec
CONSTANTS
  Sources = {s1}
  Senders = {tray}
  Commands = {"pause", "resume", "stop", "reindex", "remove"}
  MaxRequests = 2
  MaxInstances = 2
  CanCrash = TRUE
  CatalogFails = FALSE
  NoSource = NoSource
INVARIANTS
  ObeyedOnce
  StopIsPrompt
PROPERTIES
  NoCommandOutlivesItsDaemon
  StopEnds
  EveryCommandIsRead
  RemovalReadIsDone
\* After the last daemon nothing is left to do.
CHECK_DEADLOCK FALSE
