\* An affine effect added to an actor in its default, enabled state.
CONSTANTS
  a1 = a1
  a2 = a2
  NoActor = NoActor
  Actors <- MCActors
  MaxInt64 = 7
  UsPerMs = 2
  Duration = 3
  Advances = {1, 2}
  MaxElapsed = 5
  TickGaps = {2}
  ClockWrap = "ToZero"
SPECIFICATION FairSpec
PROPERTY EnabledEffectAnimates
