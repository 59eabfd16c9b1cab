\* Both effects' object life: references, the property setter, dispose and
\* finalize.  Once the effect is freed and the caller has let go of the
\* animations, nothing is left to happen.
CONSTANTS
  an1 = an1
  an2 = an2
  NULL = NULL
  Animations <- MCAnimations
  Kinds = {"affine", "grid"}
  MaxRefs = 5
SPECIFICATION Spec
INVARIANT SourceDiesWithEffect
INVARIANT FrameFindsAnimation
CHECK_DEADLOCK FALSE
