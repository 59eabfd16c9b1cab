\* The counter wraps as a gint64 does, past G_MAXINT64 to G_MININT64.
CONSTANTS
  a1 = a1
  a2 = a2
  NoActor = NoActor
  Actors <- MCActors
  MaxInt64 = 7
  UsPerMs = 2
  Duration = 3
  Advances = {1, 2}
  MaxElapsed = 5
  TickGaps = {0}
  ClockWrap = "TwosComplement"
SPECIFICATION Spec
INVARIANT DeltaTracksElapsed
