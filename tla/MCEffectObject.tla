-------------------------- MODULE MCEffectObject --------------------------
EXTENDS EffectObject

CONSTANTS an1, an2

\* Two animations, so that setting the property can replace one by another.
MCAnimations == {an1, an2}

=============================================================================
