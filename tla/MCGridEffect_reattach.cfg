\* The grid effect moved from one actor to another while the first still moves.
CONSTANTS
  a1 = a1
  a2 = a2
  NoActor = NoActor
  Actors <- MCActors2
  MaxInt64 = 7
  UsPerMs = 2
  Duration = 3
  Advances = {1, 2}
  MaxElapsed = 5
  MinTickGap = 0
  ClockWrap = "ToZero"
  MaxGeom = 1
  MaxHandlers = 2
SPECIFICATION Spec
INVARIANT CachedBoxTracksActor
