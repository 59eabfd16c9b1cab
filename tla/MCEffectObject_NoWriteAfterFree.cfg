\* Both effects' object life, checked for NoWriteAfterFree.
CONSTANTS
  an1 = an1
  an2 = an2
  NULL = NULL
  Animations <- MCAnimations
  Kinds = {"affine", "grid"}
  MaxRefs = 5
SPECIFICATION Spec
INVARIANT NoWriteAfterFree
CHECK_DEADLOCK FALSE
