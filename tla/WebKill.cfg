CONSTANTS
  Instance = {a}
  MaxPolls = 2
  NoPid = NoPid
  Empty = Empty
SPECIFICATION Spec
INVARIANT KillOnlyRunning
