CONSTANTS
  Player = {p1, p2}
  Counter = {c1, c2}
  Seconds = {1}
SPECIFICATION FairSpec
INVARIANTS TypeOK OneSong SilentWhenIdle NoOrphanedCountdown NoOrphanedFlag CleanupStopsCounting
PROPERTIES MusicRefinement StopEndsMusic CountdownEnds
