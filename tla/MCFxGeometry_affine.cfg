\* Affine paint volume for an identity transform of actors at various positions.
SPECIFICATION Spec
INVARIANT AffineIdentityWithinMargin
