--------------------------- MODULE AffineEffect ---------------------------
(***************************************************************************)
(* EndlessShellFXAffine (src/src/affine-effect.c): a ClutterEffect that    *)
(* drives a transform animation from a 16 ms GLib timeout, sets the        *)
(* actor's opacity from the animation's progress on every frame, applies   *)
(* the animation's matrix when the actor is painted, and resets the actor  *)
(* to identity/opaque when the animation ends.                             *)
(*                                                                         *)
(* The actor, the meta group that attaches the effect, the monotonic clock *)
(* and the animation object are the host; they appear as environment       *)
(* actions (SetActor, SetEnabled's caller, ClockAdvance) and as the        *)
(* operators AnimAt/Continues/ProgressOpacity standing for the animation   *)
(* library's step() and progress().                                        *)
(***************************************************************************)
EXTENDS Integers, FxTime

CONSTANTS
  Actors,       \* actors the effect can be added to (model values)
  NoActor,      \* NULL actor pointer
  Duration,     \* length of the transform animation, in ms
  Advances,     \* amounts (us) by which the monotonic clock moves in one step
  MaxElapsed,   \* bound on the us that pass between two frames
  TickGaps      \* the least gaps (us) between sampling last_usecs and the next dispatch

ASSUME NoActor \notin Actors
ASSUME Duration \in Nat \ {0}
ASSUME Advances \subseteq Nat \ {0}
ASSUME MaxElapsed \in 1..MaxInt64
ASSUME TickGaps \subseteq 0..MaxElapsed /\ TickGaps # {}

\* cogl_matrix_init_identity (&matrix); any other matrix is the animation's
\* matrix at a position 0..Duration.
Identity == -1

VARIABLES
  actor,        \* clutter_actor_meta_get_actor (meta), or NoActor
  enabled,      \* clutter_actor_meta_get_enabled (meta)
  timeout_id,   \* priv->timeout_id: 0, or 1 while the timeout source is armed
  last_usecs,   \* priv->last_usecs
  now,          \* the value g_get_monotonic_time () would return
  elapsed,      \* ghost: real us since last_usecs was sampled (0 while unarmed)
  anim,         \* position of the transform animation, in ms
  opacity,      \* per actor: clutter_actor_get_opacity
  transform,    \* per actor: Identity, or the animation's matrix at a position
  visible,      \* per actor: CLUTTER_ACTOR_IS_VISIBLE
  tick,         \* ghost: the delta computed by the latest frame and the real us
  min_tick_gap  \* the main loop's least gap before a dispatch, fixed per behaviour

vars == <<actor, enabled, timeout_id, last_usecs, now, elapsed, anim,
          opacity, transform, visible, tick, min_tick_gap>>

ActorOrNone == Actors \cup {NoActor}

(***************************************************************************)
(* The animation library (external): step() moves the animation by a      *)
(* delta and reports whether it is still running; progress() is the        *)
(* fraction done.                                                          *)
(***************************************************************************)
AnimAt(t, d) == IF t + d < 0 THEN 0 ELSE IF t + d > Duration THEN Duration ELSE t + d

Continues(t, d) == t + d < Duration

\* Mutant: progress scaled by 256 instead of 255.
ProgressOpacityScaled256(t) == (t * 256) \div Duration

\* "(guint8) (animation_transform_animation_progress (...) * 255.0)"
ProgressOpacity(t) == (t * 255) \div Duration

\* clutter_actor_set_* on the meta's actor: g_return_if_fail on a NULL actor.
SetOn(f, a, v) == IF a \in DOMAIN f THEN [f EXCEPT ![a] = v] ELSE f

-----------------------------------------------------------------------------
Init ==
  /\ actor = NoActor
  /\ enabled = TRUE                  \* ClutterActorMeta starts enabled
  /\ timeout_id = 0
  /\ last_usecs = 0                  \* GObject private data is zero-filled
  /\ now \in ClockRange
  /\ elapsed = 0
  /\ anim = 0
  /\ opacity \in [Actors -> {0, 255}]
  /\ transform = [a \in Actors |-> Identity]
  /\ visible \in [Actors -> BOOLEAN]
  /\ tick = [delta |-> 0, elapsed |-> 0]
  /\ min_tick_gap \in TickGaps

(***************************************************************************)
(* The host's clock: time passes.  While the timeout is armed the ghost    *)
(* elapsed counts the real us since last_usecs was sampled.                *)
(***************************************************************************)
ClockAdvance(e) ==
  /\ now' = NextClock(now, e)
  /\ IF timeout_id # 0
       THEN elapsed + e <= MaxElapsed /\ elapsed' = elapsed + e
       ELSE UNCHANGED elapsed
  /\ UNCHANGED <<actor, enabled, timeout_id, last_usecs, anim, opacity,
                 transform, visible, tick, min_tick_gap>>

(***************************************************************************)
(* The meta group attaches or detaches the effect.  The affine effect does *)
(* not override set_actor, so nothing else happens.                        *)
(***************************************************************************)
SetActor(a) ==
  /\ (actor = NoActor) # (a = NoActor)
  /\ actor' = a
  /\ UNCHANGED <<enabled, timeout_id, last_usecs, now, elapsed, anim, opacity,
                 transform, visible, tick, min_tick_gap>>

\* endless_shell_fx_affine_ensure_timeline
EnsureTimeline ==
  IF timeout_id = 0
    THEN /\ last_usecs' = now
         /\ elapsed' = 0
         /\ timeout_id' = 1
         /\ opacity' = SetOn(opacity, actor, ProgressOpacity(anim))
         /\ transform' = SetOn(transform, actor, anim)
         /\ visible' = SetOn(visible, actor, TRUE)
    ELSE UNCHANGED <<last_usecs, elapsed, timeout_id, opacity, transform, visible>>

(***************************************************************************)
(* clutter_actor_meta_set_enabled (returns early when the value does not   *)
(* change) and the "enabled" branch of endless_shell_fx_affine_notify.     *)
(* The host only enables an effect that is on an actor.                    *)
(***************************************************************************)
\* Mutant: notify leaves the source armed when the effect is disabled.
SetEnabledKeepsSource(b) ==
  /\ b # enabled
  /\ b => actor # NoActor
  /\ enabled' = b
  /\ IF b THEN EnsureTimeline
          ELSE /\ UNCHANGED <<timeout_id, last_usecs, elapsed, opacity, transform, visible>>
  /\ UNCHANGED <<actor, now, anim, tick, min_tick_gap>>

SetEnabled(b) ==
  /\ b # enabled
  /\ b => actor # NoActor
  /\ enabled' = b
  /\ IF b THEN EnsureTimeline
          ELSE /\ timeout_id' = 0
               /\ UNCHANGED <<last_usecs, elapsed, opacity, transform, visible>>
  /\ UNCHANGED <<actor, now, anim, tick, min_tick_gap>>

(***************************************************************************)
(* endless_shell_fx_affine_paint: Clutter paints an enabled effect of a    *)
(* visible actor; an actor at opacity 0 is not painted (the comment at     *)
(* affine-effect.c:142).                                                   *)
(***************************************************************************)
Paint ==
  /\ actor # NoActor /\ enabled
  /\ visible[actor] /\ opacity[actor] > 0
  /\ transform' = [transform EXCEPT ![actor] = anim]
  /\ UNCHANGED <<actor, enabled, timeout_id, last_usecs, now, elapsed, anim,
                 opacity, visible, tick, min_tick_gap>>

(***************************************************************************)
(* endless_shell_fx_affine_new_frame, split by its three exits.  Every     *)
(* exit samples the clock, corrects for wraparound and stores last_usecs.  *)
(***************************************************************************)
Delta == MsecsDelta(last_usecs, now)

FrameSample ==
  /\ timeout_id # 0
  /\ elapsed >= min_tick_gap
  /\ tick' = [delta |-> Delta, elapsed |-> elapsed]
  /\ last_usecs' = now
  /\ elapsed' = 0
  /\ UNCHANGED min_tick_gap

\* No time movement: return G_SOURCE_CONTINUE without stepping.
NewFrameIdle ==
  /\ FrameSample
  /\ Delta = 0
  /\ UNCHANGED <<actor, enabled, timeout_id, now, anim, opacity, transform,
                 visible>>

\* step() returned TRUE: set the opacity and queue a repaint.
NewFrameStep ==
  /\ FrameSample
  /\ Delta # 0
  /\ Continues(anim, Delta)
  /\ anim' = AnimAt(anim, Delta)
  /\ opacity' = SetOn(opacity, actor, ProgressOpacity(anim'))
  /\ UNCHANGED <<actor, enabled, timeout_id, now, transform, visible>>

\* step() returned FALSE: reset the actor, disable the effect (whose notify
\* removes the source) and return G_SOURCE_REMOVE.
NewFrameDone ==
  /\ FrameSample
  /\ Delta # 0
  /\ ~Continues(anim, Delta)
  /\ anim' = AnimAt(anim, Delta)
  /\ opacity' = SetOn(opacity, actor, 255)
  /\ transform' = SetOn(transform, actor, Identity)
  /\ enabled' = FALSE
  /\ timeout_id' = 0
  /\ UNCHANGED <<actor, now, visible>>

NewFrame == NewFrameIdle \/ NewFrameStep \/ NewFrameDone

Next ==
  \/ \E e \in Advances : ClockAdvance(e)
  \/ \E a \in ActorOrNone : SetActor(a)
  \/ \E b \in BOOLEAN : SetEnabled(b)
  \/ Paint
  \/ NewFrame

Spec == Init /\ [][Next]_vars

\* GLib dispatches an armed timeout and time keeps passing; the host's own
\* calls (attach, enable, paint) are not assumed to happen.
FairSpec ==
  /\ Spec
  /\ WF_vars(NewFrame)
  /\ WF_vars(\E e \in Advances : ClockAdvance(e))

-----------------------------------------------------------------------------
TypeOK ==
  /\ actor \in ActorOrNone
  /\ enabled \in BOOLEAN
  /\ timeout_id \in {0, 1}
  /\ last_usecs \in ClockRange
  /\ now \in ClockRange
  /\ elapsed \in 0..MaxElapsed
  /\ anim \in 0..Duration
  /\ opacity \in [Actors -> 0..255]
  /\ transform \in [Actors -> {Identity} \cup 0..Duration]
  /\ visible \in [Actors -> BOOLEAN]
  /\ tick \in [delta : Int64Range, elapsed : 0..MaxElapsed]
  /\ min_tick_gap \in TickGaps

(***************************************************************************)
(* The delta new_frame hands to step() is the real time since the previous *)
(* frame, in whole ms, also on the frame where the monotonic counter       *)
(* wrapped past its maximum (the wraparound branch of new_frame).          *)
(***************************************************************************)
DeltaTracksElapsed ==
  /\ tick.delta * UsPerMs <= tick.elapsed
  /\ tick.elapsed <= (tick.delta + 1) * UsPerMs

(***************************************************************************)
(* The timeout is armed only while the effect is enabled: disabling it by  *)
(* hand (notify) or at the animation's end (new_frame) removes the source. *)
(***************************************************************************)
TimerImpliesEnabled == timeout_id # 0 => enabled

(***************************************************************************)
(* No frame fires against a detached effect: the source is removed before  *)
(* the effect leaves its actor (spec section 5).                           *)
(***************************************************************************)
TimerOnlyWhileAttached == timeout_id # 0 => actor # NoActor

(***************************************************************************)
(* After the animation ran to its end on an actor, and until the effect is *)
(* re-enabled or moved, that actor shows the identity transform at full    *)
(* opacity: neither a later paint nor a late frame undoes the reset that   *)
(* new_frame does before disabling the effect.                             *)
(***************************************************************************)
(* The fade-in never flickers: from one step to the next, while the timer  *)
(* stays armed on the same actor, that actor's opacity never decreases     *)
(* (new_frame sets it from the progress of a step by the computed delta).  *)
(***************************************************************************)
(* An effect that is enabled on an actor animates: eventually its          *)
(* animation ends, or the host disables or removes it.                     *)
(***************************************************************************)
EnabledEffectAnimates ==
  (actor # NoActor /\ enabled) ~> (anim = Duration \/ ~enabled \/ actor = NoActor)

(***************************************************************************)
(* An armed frame timer goes away: under GLib's dispatch and passing time, *)
(* new_frame runs the animation to its end and removes the source, unless  *)
(* the host disables the effect first, in every behaviour whose dispatches *)
(* come at least 1 ms after last_usecs was sampled (a 16 ms timeout).  No   *)
(* run of deltas (a wrap of the counter) keeps the animation from ending.  *)
(***************************************************************************)
ArmedTimerEnds == min_tick_gap >= UsPerMs => (timeout_id # 0 ~> timeout_id = 0)

=============================================================================
