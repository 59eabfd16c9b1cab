---------------------------- MODULE GridEffect ----------------------------
(***************************************************************************)
(* EndlessShellFXGrid (src/src/grid-effect.c): a ClutterDeformEffect that  *)
(* steps a grid animation from a 16 ms GLib timeout and deforms the        *)
(* actor's mesh relative to a cached copy of the actor's paint box.  The   *)
(* cache is refreshed when the effect is attached, when it is enabled and  *)
(* when a notify::x/y/width/height handler it connected fires.             *)
(*                                                                         *)
(* A paint box is abstracted to the actor it was read from and that        *)
(* actor's geometry version: two boxes are equal iff both agree.  Signal   *)
(* handlers are counted per (actor, property); all handlers of one pair    *)
(* run the same callback, so only their number matters.                   *)
(***************************************************************************)
EXTENDS Integers, FxTime

CONSTANTS
  Actors,       \* actors the effect can be added to (model values)
  NoActor,      \* NULL actor pointer
  Duration,     \* length of the grid animation, in ms
  Advances,     \* amounts (us) by which the monotonic clock moves in one step
  MaxElapsed,   \* bound on the us that pass between two frames
  MinTickGap,   \* least us between sampling last_usecs and the next dispatch
  MaxGeom,      \* bound on geometry changes per actor
  MaxHandlers   \* bound on handlers connected for one (actor, property)

ASSUME NoActor \notin Actors
ASSUME Duration \in Nat \ {0}
ASSUME Advances \subseteq Nat \ {0}
ASSUME MaxElapsed \in 1..MaxInt64
ASSUME MinTickGap \in 0..MaxElapsed
ASSUME MaxGeom \in Nat /\ MaxHandlers \in Nat \ {0}

\* The actor properties whose notify signals the effect connects to.
Props == {"x", "y", "width", "height"}

NoHandler == <<>>      \* a handler id of 0
NoBox == <<>>          \* cached_output_box before it is first computed

VARIABLES
  actor,              \* clutter_actor_meta_get_actor (meta), or NoActor
  enabled,            \* clutter_actor_meta_get_enabled (meta)
  timeout_id,         \* priv->timeout_id: 0, or 1 while the source is armed
  last_usecs,         \* priv->last_usecs
  now,                \* the value g_get_monotonic_time () would return
  elapsed,            \* ghost: real us since last_usecs was sampled
  anim,               \* position of the grid animation, in ms
  visible,            \* per actor: CLUTTER_ACTOR_IS_VISIBLE
  geom,               \* per actor: version of its position and size
  cached_output_box,  \* priv->cached_output_box
  handlers,           \* per (actor, property): connected notify handlers
  width_changed_id,   \* priv->width_changed_id, as the (actor, property) it names
  height_changed_id,  \* priv->height_changed_id, likewise
  completed           \* ghost: the animation ran to its end since the last
                      \* attach, detach or enable

vars == <<actor, enabled, timeout_id, last_usecs, now, elapsed, anim, visible,
          geom, cached_output_box, handlers, width_changed_id,
          height_changed_id, completed>>

ActorOrNone == Actors \cup {NoActor}

Boxes == [actor : Actors, geom : 0..MaxGeom]

HandlerIds == {NoHandler} \cup (Actors \X Props)

(***************************************************************************)
(* The animation library (external): step() moves the animation and says   *)
(* whether it still runs.                                                  *)
(***************************************************************************)
AnimAt(t, d) == IF t + d < 0 THEN 0 ELSE IF t + d > Duration THEN Duration ELSE t + d

Continues(t, d) == t + d < Duration

\* endless_shell_fx_get_best_known_paint_extents_box (a, &box), with a's
\* geometry as given.
BestKnownPaintExtents(a, g) == [actor |-> a, geom |-> g[a]]

-----------------------------------------------------------------------------
Init ==
  /\ actor = NoActor
  /\ enabled = TRUE                  \* ClutterActorMeta starts enabled
  /\ timeout_id = 0
  /\ last_usecs = 0
  /\ now \in ClockRange
  /\ elapsed = 0
  /\ anim = 0
  /\ visible \in [Actors -> BOOLEAN]
  /\ geom = [a \in Actors |-> 0]
  /\ cached_output_box = NoBox
  /\ handlers = [h \in Actors \X Props |-> 0]
  /\ width_changed_id = NoHandler
  /\ height_changed_id = NoHandler
  /\ completed = FALSE

\* The host's clock: time passes.
ClockAdvance(e) ==
  /\ now' = NextClock(now, e)
  /\ IF timeout_id # 0
       THEN elapsed + e <= MaxElapsed /\ elapsed' = elapsed + e
       ELSE UNCHANGED elapsed
  /\ UNCHANGED <<actor, enabled, timeout_id, last_usecs, anim, visible, geom,
                 cached_output_box, handlers, width_changed_id,
                 height_changed_id, completed>>

(***************************************************************************)
(* endless_shell_fx_grid_set_actor, called by the meta group when the      *)
(* effect is added to (a # NoActor) or removed from its actor.  It removes *)
(* the source, disconnects the two handler ids it kept on the previous     *)
(* actor, caches the new actor's box and connects four notify handlers,    *)
(* storing the y, x and width ids in the same field, and finally disables  *)
(* the effect (whose notify finds no source left to remove).               *)
(***************************************************************************)
Disconnected(h, ids) ==
  [k \in DOMAIN h |-> IF k \in ids /\ h[k] > 0 THEN h[k] - 1 ELSE h[k]]

Connected(h, a) ==
  [k \in DOMAIN h |-> IF k[1] = a THEN h[k] + 1 ELSE h[k]]

\* Mutant: set_actor does not end by disabling the effect.
SetActorKeepsEnabled(a) ==
  /\ (actor = NoActor) # (a = NoActor)
  /\ actor' = a
  /\ timeout_id' = 0
  /\ IF a = NoActor
       THEN /\ handlers' = Disconnected(handlers, {width_changed_id, height_changed_id})
            /\ width_changed_id' = NoHandler
            /\ height_changed_id' = NoHandler
            /\ UNCHANGED cached_output_box
       ELSE /\ \A p \in Props : handlers[<<a, p>>] < MaxHandlers
            /\ handlers' = Connected(handlers, a)
            /\ cached_output_box' = BestKnownPaintExtents(a, geom)
            /\ width_changed_id' = <<a, "width">>
            /\ height_changed_id' = <<a, "height">>
  /\ completed' = FALSE
  /\ UNCHANGED <<enabled, last_usecs, now, elapsed, anim, visible, geom>>

SetActor(a) ==
  /\ (actor = NoActor) # (a = NoActor)
  /\ actor' = a
  /\ timeout_id' = 0
  /\ IF a = NoActor
       THEN /\ handlers' = Disconnected(handlers, {width_changed_id, height_changed_id})
            /\ width_changed_id' = NoHandler
            /\ height_changed_id' = NoHandler
            /\ UNCHANGED cached_output_box
       ELSE /\ \A p \in Props : handlers[<<a, p>>] < MaxHandlers
            /\ handlers' = Connected(handlers, a)
            /\ cached_output_box' = BestKnownPaintExtents(a, geom)
            /\ width_changed_id' = <<a, "width">>
            /\ height_changed_id' = <<a, "height">>
  /\ enabled' = FALSE
  /\ completed' = FALSE
  /\ UNCHANGED <<last_usecs, now, elapsed, anim, visible, geom>>

(***************************************************************************)
(* clutter_actor_meta_set_enabled (returns early when the value does not   *)
(* change), endless_shell_fx_grid_notify and _ensure_timeline.  The host   *)
(* only enables an effect that is on an actor.                             *)
(***************************************************************************)
EnsureTimeline ==
  IF timeout_id = 0
    THEN /\ last_usecs' = now
         /\ elapsed' = 0
         /\ timeout_id' = 1
         /\ visible' = [visible EXCEPT ![actor] = TRUE]
         /\ cached_output_box' = BestKnownPaintExtents(actor, geom)
    ELSE UNCHANGED <<last_usecs, elapsed, timeout_id, visible, cached_output_box>>

SetEnabled(b) ==
  /\ b # enabled
  /\ b => actor # NoActor
  /\ enabled' = b
  /\ IF b THEN EnsureTimeline
          ELSE /\ timeout_id' = 0
               /\ UNCHANGED <<last_usecs, elapsed, visible, cached_output_box>>
  /\ completed' = FALSE
  /\ UNCHANGED <<actor, now, anim, geom, handlers, width_changed_id,
                 height_changed_id>>

(***************************************************************************)
(* The host moves or resizes actor a (any actor, attached or not); each    *)
(* handler connected to notify::p on it runs                               *)
(* endless_shell_fx_grid_geometry_changed, which re-reads a's box.         *)
(***************************************************************************)
GeometryChanged(a, p) ==
  /\ geom[a] < MaxGeom
  /\ geom' = [geom EXCEPT ![a] = @ + 1]
  /\ IF handlers[<<a, p>>] > 0
       THEN cached_output_box' = BestKnownPaintExtents(a, geom')
       ELSE UNCHANGED cached_output_box
  /\ UNCHANGED <<actor, enabled, timeout_id, last_usecs, now, elapsed, anim,
                 visible, handlers, width_changed_id, height_changed_id,
                 completed>>

(***************************************************************************)
(* endless_shell_fx_grid_new_frame, split by its three exits.              *)
(***************************************************************************)
Delta == MsecsDelta(last_usecs, now)

FrameSample ==
  /\ timeout_id # 0
  /\ elapsed >= MinTickGap
  /\ last_usecs' = now
  /\ elapsed' = 0

FrameKeeps == <<actor, now, visible, geom, cached_output_box, handlers,
                width_changed_id, height_changed_id>>

\* No time movement: return G_SOURCE_CONTINUE without stepping.
NewFrameIdle ==
  /\ FrameSample
  /\ Delta = 0
  /\ UNCHANGED <<enabled, timeout_id, anim, completed>>
  /\ UNCHANGED FrameKeeps

\* step() returned TRUE: set_enabled (TRUE) changes nothing; the mesh is
\* invalidated and repainted.
NewFrameStep ==
  /\ FrameSample
  /\ Delta # 0
  /\ Continues(anim, Delta)
  /\ anim' = AnimAt(anim, Delta)
  /\ UNCHANGED <<enabled, timeout_id, completed>>
  /\ UNCHANGED FrameKeeps

\* step() returned FALSE: disable the effect (its notify removes the
\* source) and return G_SOURCE_REMOVE.
NewFrameDone ==
  /\ FrameSample
  /\ Delta # 0
  /\ ~Continues(anim, Delta)
  /\ anim' = AnimAt(anim, Delta)
  /\ enabled' = FALSE
  /\ timeout_id' = 0
  /\ completed' = TRUE
  /\ UNCHANGED FrameKeeps

NewFrame == NewFrameIdle \/ NewFrameStep \/ NewFrameDone

Next ==
  \/ \E e \in Advances : ClockAdvance(e)
  \/ \E a \in ActorOrNone : SetActor(a)
  \/ \E b \in BOOLEAN : SetEnabled(b)
  \/ \E a \in Actors, p \in Props : GeometryChanged(a, p)
  \/ NewFrame

Spec == Init /\ [][Next]_vars

\* GLib dispatches an armed timeout and time keeps passing.
FairSpec ==
  /\ Spec
  /\ WF_vars(NewFrame)
  /\ WF_vars(\E e \in Advances : ClockAdvance(e))

-----------------------------------------------------------------------------
TypeOK ==
  /\ actor \in ActorOrNone
  /\ enabled \in BOOLEAN
  /\ timeout_id \in {0, 1}
  /\ last_usecs \in ClockRange
  /\ now \in ClockRange
  /\ elapsed \in 0..MaxElapsed
  /\ anim \in 0..Duration
  /\ visible \in [Actors -> BOOLEAN]
  /\ geom \in [Actors -> 0..MaxGeom]
  /\ cached_output_box \in {NoBox} \cup Boxes
  /\ handlers \in [Actors \X Props -> 0..MaxHandlers]
  /\ width_changed_id \in HandlerIds
  /\ height_changed_id \in HandlerIds
  /\ completed \in BOOLEAN

(***************************************************************************)
(* While the effect deforms its actor, the box deform_vertex subtracts is  *)
(* the attached actor's current paint box: re-attachment, enabling and the *)
(* notify handlers keep it fresh, and no other actor's moves reach it.     *)
(***************************************************************************)
CachedBoxTracksActor ==
  (actor # NoActor /\ enabled) =>
    cached_output_box = BestKnownPaintExtents(actor, geom)

(***************************************************************************)
(* Every geometry property of the attached actor is observed: however the *)
(* effect was moved between actors, the handler ids set_actor disconnects *)
(* never take away the handlers of the actor it is on.                     *)
(***************************************************************************)
(* The grid effect implements the effect life cycle of the spec: mapped to *)
(* Detached / Disabled / Running / Finished, its set_actor, notify and     *)
(* new_frame take only the abstract steps, the source is armed exactly     *)
(* while it runs, and a running effect eventually stops.                   *)
(***************************************************************************)
Phase ==
  IF actor = NoActor THEN "Detached"
  ELSE IF enabled THEN "Running"
  ELSE IF completed THEN "Finished"
  ELSE "Disabled"

Lifecycle == INSTANCE EffectLifecycle WITH phase <- Phase, armed <- timeout_id # 0

LifecycleRefined == Lifecycle!Spec

=============================================================================
