\* The affine effect on one actor, the counter wrapping past its maximum to 0.
\* Each behaviour fixes the main loop's least gap before a dispatch: 0 (early
\* ticks a stale loop time allows) or 1 ms; GLib dispatches fairly.
CONSTANTS
  a1 = a1
  a2 = a2
  NoActor = NoActor
  Actors <- MCActors
  MaxInt64 = 7
  UsPerMs = 2
  Duration = 3
  Advances = {1, 2}
  MaxElapsed = 5
  TickGaps = {0, 2}
  ClockWrap = "ToZero"
SPECIFICATION FairSpec
INVARIANT TypeOK
INVARIANT DeltaTracksElapsed
INVARIANT TimerImpliesEnabled
PROPERTY ArmedTimerEnds
