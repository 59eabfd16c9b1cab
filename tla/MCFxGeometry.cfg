\* Paint box and grid paint volume over the bounded input family.
SPECIFICATION Spec
INVARIANT PaintBoxCoversVolume
INVARIANT GridIdentityWithinMargin
INVARIANT GridCoversUnfoldedExtremes
