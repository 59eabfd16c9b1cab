--------------------------- MODULE MCGridEffect ---------------------------
(* Model-checking instance of GridEffect: constants for the .cfg files. *)
EXTENDS GridEffect

CONSTANTS a1, a2

MCActors == {a1}
MCActors2 == {a1, a2}

=============================================================================
