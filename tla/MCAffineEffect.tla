-------------------------- MODULE MCAffineEffect --------------------------
(* Model-checking instance of AffineEffect: constants for the .cfg files. *)
EXTENDS AffineEffect

CONSTANTS a1, a2

MCActors == {a1}
MCActors2 == {a1, a2}

=============================================================================
