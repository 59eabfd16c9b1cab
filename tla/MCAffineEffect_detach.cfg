\* The host removes the effect from its actor while the animation runs.
CONSTANTS
  a1 = a1
  a2 = a2
  NoActor = NoActor
  Actors <- MCActors
  MaxInt64 = 7
  UsPerMs = 2
  Duration = 3
  Advances = {1, 2}
  MaxElapsed = 5
  TickGaps = {0}
  ClockWrap = "ToZero"
SPECIFICATION Spec
INVARIANT TimerOnlyWhileAttached
