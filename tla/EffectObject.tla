--------------------------- MODULE EffectObject ---------------------------
(***************************************************************************)
(* The GObject life of an effect and of the animation it drives, common to *)
(* affine-effect.c and grid-effect.c: construction with its animation      *)
(* property, the property setter, the references held by the caller (a GJS *)
(* wrapper) and by the actor the effect is added to, and the last unref,   *)
(* which runs dispose then finalize.  The frame timer is kept only as      *)
(* armed or not; its time arithmetic is in AffineEffect and GridEffect.    *)
(* Of new_frame only the exit that ends the animation is here: the other   *)
(* exits change nothing this module keeps.                                 *)
(*                                                                         *)
(* kind selects the code: the grid effect overrides set_actor (it removes  *)
(* the source and disables itself), the affine effect does not.           *)
(***************************************************************************)
EXTENDS Integers

CONSTANTS
  Kinds,        \* the effect classes checked: a subset of {"affine", "grid"}
  Animations,   \* animation objects (model values)
  NULL,         \* a NULL object pointer
  MaxRefs       \* bound on an animation's reference count

ASSUME Kinds \subseteq {"affine", "grid"} /\ Kinds # {}
ASSUME NULL \notin Animations
ASSUME MaxRefs \in Nat \ {0}

VARIABLES
  kind,                 \* the effect's class, "affine" or "grid"
  effect,               \* "unborn", "alive" or "freed"
  js_holds,             \* the caller holds a reference to the effect
  attached,             \* the effect is on an actor, whose meta group holds a reference
  enabled,              \* clutter_actor_meta_get_enabled
  armed,                \* priv->timeout_id # 0
  transform_animation,  \* priv->transform_animation (priv->grid_animation), or NULL
  anim_refs,            \* reference count of each animation
  anim_js,              \* the caller holds a reference to the animation
  freed_write           \* ghost: new_frame wrote to the effect after it was freed

vars == <<kind, effect, js_holds, attached, enabled, armed, transform_animation,
          anim_refs, anim_js, freed_write>>

Init ==
  /\ kind \in Kinds
  /\ effect = "unborn"
  /\ js_holds = FALSE
  /\ attached = FALSE
  /\ enabled = TRUE                    \* ClutterActorMeta starts enabled
  /\ armed = FALSE                     \* *_init: priv->timeout_id = 0
  /\ transform_animation = NULL
  /\ anim_refs = [a \in Animations |-> 1]
  /\ anim_js = [a \in Animations |-> TRUE]
  /\ freed_write = FALSE

-----------------------------------------------------------------------------
\* Mutant: the animation stored without taking a reference.
SetPropertyNoRef(an) ==
  /\ transform_animation' = an
  /\ UNCHANGED anim_refs

(***************************************************************************)
(* set_property (PROP_TRANSFORM_ANIMATION / PROP_GRID_ANIMATION):          *)
(* g_set_object (&priv->..., g_value_dup_object (value)).  The dup takes a *)
(* reference; g_set_object, when the pointer changes, takes another and    *)
(* drops the old animation's.  The dup's reference is never dropped.       *)
(***************************************************************************)
SetProperty(an) ==
  /\ anim_refs[an] + 2 <= MaxRefs
  /\ transform_animation' = an
  /\ LET dup == [anim_refs EXCEPT ![an] = @ + 1]
     IN  anim_refs' =
           IF an = transform_animation THEN dup
           ELSE [a \in Animations |->
                   dup[a] + (IF a = an THEN 1 ELSE 0)
                          - (IF a = transform_animation THEN 1 ELSE 0)]

\* *_dispose: g_clear_object (&priv->transform_animation).
Dispose(refs, ta) == IF ta = NULL THEN refs ELSE [refs EXCEPT ![ta] = @ - 1]

\* Mutant: finalize leaves the timeout source in place.
FinalizeKeepsSource(timer_armed) == timer_armed

\* *_finalize: g_clear_handle_id (&priv->timeout_id, g_source_remove).
Finalize(timer_armed) == FALSE

(***************************************************************************)
(* A reference to the effect is dropped, leaving the caller's (js) and the *)
(* actor's (att) and a timer armed or not (arm).  The last unref disposes  *)
(* and finalizes the effect.                                               *)
(***************************************************************************)
Unref(js, att, arm) ==
  /\ js_holds' = js
  /\ attached' = att
  /\ IF js \/ att
       THEN /\ armed' = arm
            /\ UNCHANGED <<effect, transform_animation, anim_refs>>
       ELSE /\ effect' = "freed"
            /\ anim_refs' = Dispose(anim_refs, transform_animation)
            /\ transform_animation' = NULL
            /\ armed' = Finalize(arm)

-----------------------------------------------------------------------------
\* endless_shell_fx_*_new (an): g_object_new with the animation property.
New(an) ==
  /\ effect = "unborn"
  /\ anim_js[an]
  /\ effect' = "alive"
  /\ js_holds' = TRUE
  /\ SetProperty(an)
  /\ UNCHANGED <<kind, attached, enabled, armed, anim_js, freed_write>>

\* The caller sets the animation property again.
SetAnimation(an) ==
  /\ effect = "alive" /\ js_holds
  /\ anim_js[an]
  /\ SetProperty(an)
  /\ UNCHANGED <<kind, effect, js_holds, attached, enabled, armed, anim_js, freed_write>>

\* The caller drops its reference to an animation.
DropAnimation(an) ==
  /\ anim_js[an]
  /\ anim_js' = [anim_js EXCEPT ![an] = FALSE]
  /\ anim_refs' = [anim_refs EXCEPT ![an] = @ - 1]
  /\ UNCHANGED <<kind, effect, js_holds, attached, enabled, armed, transform_animation,
                 freed_write>>

(***************************************************************************)
(* clutter_actor_add_effect: the actor takes a reference and calls         *)
(* set_actor; the grid's set_actor removes the source and disables.        *)
(***************************************************************************)
AddEffect ==
  /\ effect = "alive" /\ js_holds /\ ~attached
  /\ attached' = TRUE
  /\ IF kind = "grid"
       THEN armed' = FALSE /\ enabled' = FALSE
       ELSE UNCHANGED <<armed, enabled>>
  /\ UNCHANGED <<kind, effect, js_holds, transform_animation, anim_refs, anim_js,
                 freed_write>>

\* clutter_actor_meta_set_enabled and the notify vfunc; the host enables
\* only an effect that is on an actor.
SetEnabled(b) ==
  /\ effect = "alive" /\ js_holds
  /\ b # enabled
  /\ b => attached
  /\ enabled' = b
  /\ armed' = b
  /\ UNCHANGED <<kind, effect, js_holds, attached, transform_animation, anim_refs,
                 anim_js, freed_write>>

\* The caller drops its reference (its wrapper is collected).
DropEffect ==
  /\ effect = "alive" /\ js_holds
  /\ Unref(FALSE, attached, armed)
  /\ UNCHANGED <<kind, enabled, anim_js, freed_write>>

(***************************************************************************)
(* The effect leaves its actor (clutter_actor_remove_effect, or the actor  *)
(* is destroyed): set_actor (NULL), then the actor's reference goes.       *)
(***************************************************************************)
DetachArmed == IF kind = "grid" THEN FALSE ELSE armed

RemoveEffect ==
  /\ effect = "alive" /\ attached
  /\ Unref(js_holds, FALSE, DetachArmed)
  /\ enabled' = IF kind = "grid" THEN FALSE ELSE enabled
  /\ UNCHANGED <<kind, anim_js, freed_write>>

(***************************************************************************)
(* new_frame when step () returns FALSE: set_enabled (FALSE), whose notify *)
(* removes the source; a notify::enabled handler of the host may destroy   *)
(* the actor (the comment at affine-effect.c:122), which drops the actor's *)
(* reference; then priv->timeout_id = 0 is written.                        *)
(***************************************************************************)
NewFrameDone ==
  /\ effect = "alive" /\ armed
  /\ enabled' = FALSE
  /\ \/ /\ armed' = FALSE
        /\ UNCHANGED <<effect, js_holds, attached, transform_animation, anim_refs,
                       freed_write>>
     \/ /\ attached
        /\ Unref(js_holds, FALSE, FALSE)
        /\ freed_write' = ~js_holds
  /\ UNCHANGED <<kind, anim_js>>

Next ==
  \/ \E an \in Animations : New(an) \/ SetAnimation(an) \/ DropAnimation(an)
  \/ AddEffect
  \/ \E b \in BOOLEAN : SetEnabled(b)
  \/ DropEffect
  \/ RemoveEffect
  \/ NewFrameDone

Spec == Init /\ [][Next]_vars

-----------------------------------------------------------------------------
TypeOK ==
  /\ kind \in Kinds
  /\ effect \in {"unborn", "alive", "freed"}
  /\ js_holds \in BOOLEAN /\ attached \in BOOLEAN
  /\ enabled \in BOOLEAN /\ armed \in BOOLEAN
  /\ transform_animation \in Animations \cup {NULL}
  /\ anim_refs \in [Animations -> 0..MaxRefs]
  /\ anim_js \in [Animations -> BOOLEAN]
  /\ freed_write \in BOOLEAN

(***************************************************************************)
(* The timeout source, which holds a bare pointer to the effect, never     *)
(* outlives it: whichever reference goes last, finalize removes it.        *)
(***************************************************************************)
SourceDiesWithEffect == armed => effect = "alive"

(***************************************************************************)
(* Whenever a frame can run, the animation it steps is set and still      *)
(* alive, however the caller replaced or dropped its animations (the      *)
(* g_assert at the top of new_frame and every call into the animation).   *)
(***************************************************************************)
FrameFindsAnimation ==
  armed => transform_animation # NULL /\ anim_refs[transform_animation] > 0

(***************************************************************************)
(* new_frame never writes to an effect that has been freed: the host's     *)
(* reaction to the effect disabling itself does not end its life before    *)
(* priv->timeout_id = 0 is stored.                                         *)
(***************************************************************************)
NoWriteAfterFree == ~freed_write

(***************************************************************************)
(* Once the effect is freed, an animation the caller has also let go of    *)
(* has no references left: the effect released every reference it took.   *)
(***************************************************************************)
AnimationReleased ==
  \A a \in Animations : effect = "freed" /\ ~anim_js[a] => anim_refs[a] = 0

=============================================================================
