CONSTANTS
  Instance = {a, b}
  MaxPolls = 2
  NoPid = NoPid
  Empty = Empty
SPECIFICATION FairSpec
INVARIANTS TypeOK UndoExact CleanExit PidFileHasOwner PidFileNamesDaemon
PROPERTIES ShutdownAdvances ShutdownEnds
