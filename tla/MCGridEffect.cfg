\* The grid effect moved between two actors, frames at least 1 ms apart.
CONSTANTS
  a1 = a1
  a2 = a2
  NoActor = NoActor
  Actors <- MCActors2
  MaxInt64 = 7
  UsPerMs = 2
  Duration = 3
  Advances = {1, 2}
  MaxElapsed = 5
  MinTickGap = 2
  ClockWrap = "ToZero"
  MaxGeom = 1
  MaxHandlers = 2
SPECIFICATION FairSpec
PROPERTY LifecycleRefined
