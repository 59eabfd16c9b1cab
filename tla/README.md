# TLA+ models of the Endless shell effects

These are the TLA+ modules and TLC configurations for the C effects in
`src/src/`:

- `EndlessShellFXAffine` (`affine-effect.c`): a transform effect with opacity.
- `EndlessShellFXGrid` (`grid-effect.c`): a mesh-deforming effect.
- The geometry helpers they share (`shell-fx-common.c`).
- The two GJS launchers, `run-js-test.c` and `gnome-shell-extension-prefs.c`.

Each effect drives an animation object from a 16 ms GLib timeout. It updates
its actor from that animation, and reports a paint volume large enough for
Clutter to cull and damage correctly while the animation runs.

## The system and its parts

| Part | Code | State | Operations |
|---|---|---|---|
| Frame clock | `*_new_frame`, `*_ensure_timeline` | `timeout_id`, `last_usecs` | arm the timeout; on each dispatch, sample `g_get_monotonic_time`, correct for wraparound, compute the ms delta, and step the animation |
| Affine effect | `affine-effect.c` | the above, plus the actor's opacity, transform and visibility | `notify::enabled`, `paint`, `new_frame` (idle / step / done), `get_paint_volume` |
| Grid effect | `grid-effect.c` | the above, plus `cached_output_box`, `width_changed_id`, `height_changed_id` and the notify handlers on actors | `set_actor`, `notify::enabled`, `geometry_changed`, `new_frame`, `get_paint_volume`, `deform_vertex` |
| Geometry utilities | `shell-fx-common.c` | none (pure) | untransformed paint box, corners and offset, extremes expansion, best-known paint extents |
| Life cycle | both effects | attached / enabled / timer | attach, detach, enable, disable, complete (spec section 5) |
| Launchers | `run-js-test.c`, `gnome-shell-extension-prefs.c` | `main`'s control point, the parsed options, `script`, `coverage`, the exit status | toolkit init, option parsing, defining `ARGV`, choosing the script, coverage, evaluation, exit |

How the parts interact:

1. The host (the shell's JS and Clutter) constructs an effect and adds it to
   an actor. Clutter's meta group then calls `set_actor`.
2. The host toggles `enabled`. `notify` arms or removes the timeout.
3. GLib dispatches `new_frame`, which steps the animation.
4. When `step()` returns FALSE, `new_frame` disables the effect itself. This
   runs `notify` re-entrantly.
5. Clutter calls `paint` / `deform_vertex` and `get_paint_volume` while the
   effect is enabled.
6. For the grid effect, Clutter emits `notify::x/y/width/height` on actors.
   These reach the handlers that `set_actor` connected.

## Modules

| Module | Models |
|---|---|
| `FxTime` | The time arithmetic of both `new_frame` callbacks. `gint64` is modelled at reduced width: `MaxInt64` and `Int64` give two's complement wrapping. `CDiv` is C's truncating `/`. `WrapCorrected` is the `last_usecs -= G_MAXINT64` branch. `MsecsDelta` is line 112. `ClockRange` / `NextClock` give the monotonic counter's two possible behaviours at its maximum: wrap to 0, or wrap as a `gint64` overflows. |
| `AffineEffect` | The affine effect with its host. One action per handler: `SetEnabled` (the `notify` vfunc with `ensure_timeline`), `Paint`, and `NewFrameIdle`/`NewFrameStep`/`NewFrameDone` (the three exits of `new_frame`). `NewFrameDone` includes the identity/opaque reset, the re-entrant disable and `timeout_id = 0`. Host actions are `SetActor` (Clutter's own `set_actor`, since the affine effect has no override) and `ClockAdvance`. |
| `GridEffect` | The grid effect with its host. `SetActor` models `endless_shell_fx_grid_set_actor` as a whole: remove the source, disconnect the two saved ids, cache the box, connect the four handlers, and disable. Also `SetEnabled`, `GeometryChanged` (a host move that runs every connected handler for that property) and the three `new_frame` exits. Handlers are counted per (actor, property). The two id fields hold the (actor, property) pair they name. A paint box is abstracted to the actor and geometry version it was read from. |
| `EffectLifecycle` | The abstract life cycle of spec section 5: Detached / Disabled / Running / Finished, with the timer armed exactly while Running, and Running eventually leaving (weak fairness on `Complete`). |
| `FxGeometry` | The pure operators of `shell-fx-common.c` and both `get_paint_volume`s, plus `deform_vertex`. Coordinates are integers in half units (`Unit == 2`), so `floor`/`ceil` of a fractional actor position do real work. Clutter's `union` and the setters' refusal of a negative extent are included. |
| `EffectObject` | The GObject life shared by both effects; `kind`, chosen in `Init`, selects the affine or grid code. It covers construction (`New`), `set_property` (`SetProperty`: `g_value_dup_object` plus `g_set_object`), the caller's and the actor's references to the effect, and the last `Unref` (`Dispose`, then `Finalize`, which removes the source). The grid's `set_actor` removes the source and disables the effect. `NewFrameDone` is the end-of-animation exit, in which the host's `notify::enabled` handler may destroy the actor. Reference counts are kept per animation. The effect is `"unborn"`, `"alive"` or `"freed"`. |
| `Launcher` | Both launchers' `main` as sequential programs: a `pc`, one action per group of statements, and each library call that can fail (`clutter_init`, `g_option_context_parse`, `gjs_context_define_string_array`, `g_file_get_contents`, `gjs_context_eval`) as a nondeterministic success or error path, which exits or aborts (`g_error`) as the code does. `argv` is abstracted to its length `argc`. `StrvRead` gives the elements `define_string_array` reads, where a negative length means "up to the first NULL". The ghost `argv_read` records them. `prog`, chosen in `Init`, selects the program. |
| `MCAffineEffect`, `MCGridEffect`, `MCFxGeometry`, `MCEffectObject` | The TLC instances. `MCFxGeometry` enumerates a family of inputs as its initial states. |

The animation library (`step`, `progress`, `extremes`) is external. The
models stand for it as follows:

- `AnimAt` / `Continues`: `step()` advances a position by the delta and
  reports whether the animation is still running.
  `AnimAt` clamps a negative delta to position 0 (a restart). What the
  library's `step()` does with a negative delta depends on its parameter
  type, which is outside this repository. Only the wraparound mutant's
  counterexamples depend on that choice.
- `ProgressOpacity`: the `(guint8)(progress * 255.0)` conversion.
- `AnimationExtremes(c, J)`: each corner moved by a displacement
  `J[i]`; the geometry harness chooses each displacement from a small set.

## Runs

| Run | Expect | What it shows |
|---|---|---|
| `affine` | pass | Affine effect, one actor, clock wrapping to 0, fair dispatch. Each behaviour fixes `min_tick_gap`: 0 (ticks that may come early, as a stale loop time allows) or 1 ms. Properties: `DeltaTracksElapsed` (each delta is the real time in whole ms, also across the wrap), `TimerImpliesEnabled`, `TypeOK` (opacity stays a `guint8`, also when an effect is re-enabled after its animation ended), and `ArmedTimerEnds`: in the behaviours whose frames come at least 1 ms apart, an armed timer is always removed in the end. Without the wraparound correction, each wrap sends the animation back and it can run for ever; with it, a wrap costs at most one bad frame. Tried with a counter that wraps like a `gint64`, the liveness property also holds. |
| `affine_wrap` | violation | With a counter that wraps like a `gint64`, the wraparound branch yields a negative delta. |
| `affine_detach` | violation | Attach, disable, enable, then detach: the source stays armed with no actor. The affine effect has no `set_actor` override. |
| `affine_live` | violation | Under fair dispatch, an effect attached while still enabled from construction never animates. No `notify::enabled` ever arms its timer. |
| `grid` | pass | Grid effect moved between two actors, with fair dispatch and frames at least 1 ms apart. `LifecycleRefined`: the grid effect implements `EffectLifecycle` (refinement mapping `Phase`), including its liveness. |
| `grid_reattach` | violation | Attach a1, detach, attach a2, enable, then move a1. The surviving a1 handlers write a1's box into the cache of an effect on a2. |
| `geometry` | pass | Positions include fractions, volumes are 1–4 half units, and each corner gets one of four jitters (49,152 inputs). The paint box pads the volume (`PaintBoxCoversVolume`). The grid volume covers every extreme of an unfolded deformation (`GridCoversUnfoldedExtremes`). An identity deformation grows the volume only by the padding (`GridIdentityWithinMargin`). |
| `geometry_affine` | violation | The same identity statement for the affine `get_paint_volume` fails: the extremes volume starts at the actor's position in actor coordinates. |
| `object` | pass | Both effect classes (`kind` is chosen in `Init`). Two animations, which the caller may set, replace and drop, with the caller's and the actor's references dropped in any order. `SourceDiesWithEffect`: the timeout (a bare pointer to the effect) never outlives the effect. For the grid this holds twice over, because `set_actor` and `finalize` both remove the source; the affine effect relies on `finalize` alone. `FrameFindsAnimation`: an armed timer always finds a set, live animation. |
| `object_write_after_free` | violation | The actor holds the last reference, and the host destroys it when the effect disables itself at the end of the animation. `new_frame` then stores `timeout_id = 0` into the freed effect. |
| `object_leak` | violation | The effect is freed and the caller drops the animation, but one reference remains: the one `g_value_dup_object` took. |
| `launcher_argv` | violation | `run-js-test` started with no script argument (`argc = 1`, the console branch) defines `ARGV` from `argv + 2` with length `argc - 2 = -1`. gjs takes -1 as "NULL-terminated", so `g_strv_length` starts reading past `argv[1] = NULL`. `ArgvWithinArgs` is violated in three steps. Checked on its own (`Programs = {"prefs"}`), the preferences launcher satisfies it: it passes `argc - 1` and `argv + 1`. |

Each property of a passing run has a mutant in `PROJECT.json`. A mutant is a
plausible bug in the mapped code, and TLC finds the property violated when
that mutant replaces the code.

## Findings

- **Wraparound** (`affine-effect.c:110`, `grid-effect.c:160`): the correction
  is right only if the counter wraps to 0.
- **Timer survives detach** (affine): frames keep running on a NULL actor.
- **Default-enabled effect never starts** (affine): `set_enabled(TRUE)`
  returns early.
- **Handler ids overwritten** (`grid-effect.c:274-293`): the x/y handlers
  leak, and they later corrupt `cached_output_box` after the effect moves to
  another actor.
- **Write after free** (`affine-effect.c:137`, `grid-effect.c:176`):
  `priv->timeout_id = 0` comes after the disable, which the code's own
  comment says may destroy the actor and, with it, the effect.
- **Animation reference leak** (`affine-effect.c:240`, `grid-effect.c:319`):
  `g_set_object` with the result of `g_value_dup_object` keeps one reference
  too many.
- **ARGV read past argv** (`run-js-test.c:97`): with no script argument,
  `argc - 2` is -1 and `argv + 2` lies past the NULL terminator, so `ARGV`
  holds whatever memory follows `argv` (on Linux, the environment).
- **Affine paint volume offset** (`shell-fx-common.c:152-155`): for an
  identity transform, the volume is stretched from 0 to the actor's position.

## Bounds and why they suffice

- **`MaxInt64 = 7`, `UsPerMs = 2`.** A wrap happens within three clock steps.
  Deltas of 0, 1 and more ms all occur, as do sub-ms remainders.
  `MaxElapsed = 5` caps the time between frames, which is enough to cross the
  wrap in one frame.
- **`Duration = 3` ms.** The animation takes one to three steps, so the step
  and done exits both fire, from several positions.
- **Actors.** One actor for the affine effect: its properties concern one
  attachment. Two actors for the grid effect: moving between actors is what
  its bugs need.
- **`MaxGeom = 1`, `MaxHandlers = 2`.** These allow one move per actor, and a
  re-attach to the same actor.
- **Object life: two animations, `MaxRefs = 5`.** Two animations let the
  setter replace one with another. Five references allow construction plus
  two more sets of the same animation.
- **Launchers: `MaxArgc = 3`, `Codes = {0, 2}`.** `argc` of 1, 2 and 3 gives
  no argument (the console), a script file, and a script with one argument
  of its own. A script status of 0 and one of non-zero separate the
  coverage statistics path and the exit status from the launcher's own 1.
- **Geometry positions.** These include -1, 0, 1 and 10 half units. A
  fractional position shows the rounding, and a large one separates actor
  from local coordinates.

All three `new_frame` exits, both `set_actor` branches, `Paint` and
`GeometryChanged` fire in the pass runs (TLC `-coverage`).

## Fairness

- `WF(NewFrame)`: GLib dispatches an armed, ready timeout.
- `WF(ClockAdvance)`: time passes.
- `ArmedTimerEnds` is stated for the behaviours with `min_tick_gap = UsPerMs`,
  and `affine_live` and `grid` use only that gap. The 16 ms interval means a
  dispatch never comes before 1 ms has passed. The `affine` run also explores
  gap 0, which allows the early dispatches a stale loop time can cause, for
  its safety properties. With early ticks, `last_usecs = usecs` drops each
  sub-ms remainder, and a run of such ticks would starve the animation.
- Host actions (attach, enable, paint, moves) are never assumed to happen.

## Not modelled

- The animation library (curves, matrices, deformation), which the spec
  excludes. The models stand for it with `AnimAt`, `Continues`,
  `ProgressOpacity` and `AnimationExtremes`.
- `class_init` and the GType boilerplate. These only register vfuncs. The one
  difference that matters, whether `set_actor` is overridden, is modelled as
  `kind` and as the two effects' `SetActor`.
- The headers: declarations with no state to model.
- In the launchers, the text of options, file names and scripts, the window
  title and locale calls, and what the JS does once evaluated. Only
  `ArgvWithinArgs` is stated for them. The coverage object, the statistics
  it writes for status 0 and the freeing of the script are left out: no
  property reads them, and the exit path on each error is a single guard of
  the code.
- A paint box that changes without a geometry notify. The grid model
  abstracts the paint box to the actor's geometry.
