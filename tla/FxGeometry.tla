---------------------------- MODULE FxGeometry ----------------------------
(***************************************************************************)
(* The paint-volume arithmetic of src/src/shell-fx-common.c and of the two *)
(* effects' get_paint_volume and deform_vertex.  Pure operators.           *)
(*                                                                         *)
(* Coordinates are floats in the code; here they are integers counting     *)
(* half units, so that floor and ceil do real work on fractional actor     *)
(* positions.  A paint volume is its origin and its three extents; a box   *)
(* is a ClutterActorBox (x1, y1, x2, y2); a point is an AnimationVector or *)
(* AnimationVector4D (w is never read).  Arrays indexed 0..3 in the code    *)
(* are sequences indexed 1..4 here.                                        *)
(***************************************************************************)
EXTENDS Integers

Unit == 2                        \* one float unit, in half units

PAINT_BOX_OFFSET == 1 * Unit

Floor(v) == (v \div Unit) * Unit
Ceil(v) == -Floor(-v)

Min2(a, b) == IF a <= b THEN a ELSE b
Max2(a, b) == IF a >= b THEN a ELSE b

\* The volume's far corner.
X2(v) == v.x + v.w
Y2(v) == v.y + v.h
Z2(v) == v.z + v.d

(***************************************************************************)
(* clutter_paint_volume_set_width/height/depth refuse a negative extent    *)
(* (g_return_if_fail) and leave the volume as it was.                      *)
(***************************************************************************)
SetExtent(v, f, e) == IF e >= 0 THEN [v EXCEPT ![f] = e] ELSE v

(***************************************************************************)
(* clutter_paint_volume_union: the smallest box holding both volumes.      *)
(***************************************************************************)
PaintVolumeUnion(v, o) ==
  [x |-> Min2(v.x, o.x), y |-> Min2(v.y, o.y), z |-> Min2(v.z, o.z),
   w |-> Max2(X2(v), X2(o)) - Min2(v.x, o.x),
   h |-> Max2(Y2(v), Y2(o)) - Min2(v.y, o.y),
   d |-> Max2(Z2(v), Z2(o)) - Min2(v.z, o.z)]

\* Mutant: the width rounded down instead of up.
UntransformedPaintBoxFloorWidth(ax, ay, v) ==
  LET x1 == Floor(v.x + ax) - PAINT_BOX_OFFSET
      y1 == Floor(v.y + ay) - PAINT_BOX_OFFSET
  IN  [x1 |-> x1, y1 |-> y1,
       x2 |-> x1 + Floor(v.w) + PAINT_BOX_OFFSET * 2,
       y2 |-> y1 + Ceil(v.h) + PAINT_BOX_OFFSET * 2]

(***************************************************************************)
(* endless_shell_fx_get_untransformed_paint_box_from_existing_volume: the  *)
(* volume placed at the actor's position (ax, ay), floored and padded.     *)
(***************************************************************************)
UntransformedPaintBox(ax, ay, v) ==
  LET x1 == Floor(v.x + ax) - PAINT_BOX_OFFSET
      y1 == Floor(v.y + ay) - PAINT_BOX_OFFSET
  IN  [x1 |-> x1, y1 |-> y1,
       x2 |-> x1 + Ceil(v.w) + PAINT_BOX_OFFSET * 2,
       y2 |-> y1 + Ceil(v.h) + PAINT_BOX_OFFSET * 2]

\* The corners of a box: top-left, top-right, bottom-left, bottom-right.
BoxCorners(b) ==
  << [x |-> b.x1, y |-> b.y1], [x |-> b.x2, y |-> b.y1],
     [x |-> b.x1, y |-> b.y2], [x |-> b.x2, y |-> b.y2] >>

(***************************************************************************)
(* endless_shell_fx_compute_corners_from_untransformed_paint_volume: the   *)
(* paint box's corners and its top-left's offset from the actor position.  *)
(***************************************************************************)
CornersFromUntransformedPaintVolume(ax, ay, v) ==
  LET b == UntransformedPaintBox(ax, ay, v)
  IN  [corners |-> BoxCorners(b), offset |-> [x |-> b.x1 - ax, y |-> b.y1 - ay]]

\* Mutant: y1 taken over the left corners instead of the top ones.
ExtremesBoundsLeftY(e) ==
  [x1 |-> Min2(e[1].x, e[3].x), y1 |-> Min2(e[1].y, e[3].y),
   x2 |-> Max2(e[2].x, e[4].x), y2 |-> Max2(e[3].y, e[4].y),
   z1 |-> Min2(Min2(e[1].z, e[2].z), Min2(e[3].z, e[4].z)),
   z2 |-> Max2(Max2(e[1].z, e[2].z), Max2(e[3].z, e[4].z))]

(***************************************************************************)
(* The per-axis bounds both effects take of the four extremes: x from the  *)
(* left/right corners, y from the top/bottom ones, z from all four.        *)
(***************************************************************************)
ExtremesBounds(e) ==
  [x1 |-> Min2(e[1].x, e[3].x), y1 |-> Min2(e[1].y, e[2].y),
   x2 |-> Max2(e[2].x, e[4].x), y2 |-> Max2(e[3].y, e[4].y),
   z1 |-> Min2(Min2(e[1].z, e[2].z), Min2(e[3].z, e[4].z)),
   z2 |-> Max2(Max2(e[1].z, e[2].z), Max2(e[3].z, e[4].z))]

(***************************************************************************)
(* A copy of volume v moved to origin (x, y, z) and given the extents      *)
(* (w, h, d), each through its clutter setter, then unioned into v.        *)
(***************************************************************************)
UnionWithCopy(v, x, y, z, w, h, d) ==
  LET moved == [v EXCEPT !.x = x, !.y = y, !.z = z]
  IN  PaintVolumeUnion(v, SetExtent(SetExtent(SetExtent(moved, "w", w), "h", h), "d", d))

(***************************************************************************)
(* endless_shell_fx_expand_paint_volume_with_extremes: the extremes'       *)
(* bounds, widened by the offset, unioned into the volume.                 *)
(***************************************************************************)
ExpandPaintVolumeWithExtremes(v, e, off) ==
  LET b == ExtremesBounds(e)
      x1 == b.x1 - off.x
      y1 == b.y1 - off.y
      x2 == b.x2 + off.x
      y2 == b.y2 + off.y
  IN  UnionWithCopy(v, x1, y1, b.z1, x2 - x1, y2 - y1, b.z2 - b.z1)

(***************************************************************************)
(* The animation library's extremes() (external): the four corners moved   *)
(* by the displacements J[i] = <<dx, dy, z>> the animation's current state *)
(* gives them.  Identity J is all zero.                                    *)
(***************************************************************************)
AnimationExtremes(c, J) ==
  [i \in 1..4 |-> [x |-> c[i].x + J[i][1], y |-> c[i].y + J[i][2], z |-> J[i][3]]]

(***************************************************************************)
(* endless_shell_fx_affine_get_paint_volume: with an animation and the     *)
(* effect enabled, the volume is grown by the extremes the transform       *)
(* animation (displacements J) reports for the paint box's corners.        *)
(***************************************************************************)
AffineGetPaintVolume(active, ax, ay, v, J) ==
  IF active
    THEN LET c == CornersFromUntransformedPaintVolume(ax, ay, v)
         IN  ExpandPaintVolumeWithExtremes(v, AnimationExtremes(c.corners, J), c.offset)
    ELSE v

\* Mutant: the extremes' box left in stage coordinates.
GridExtremesVolumeUnshifted(v, b, ax, ay) ==
  UnionWithCopy(v, b.x1, b.y1, b.z1,
                Max2(b.x2 - b.x1, Unit), Max2(b.y2 - b.y1, Unit), b.z2 - b.z1)

(***************************************************************************)
(* The grid's volume from the extremes' bounds b: moved back to actor      *)
(* coordinates, at least one unit wide and high, unioned into v.           *)
(***************************************************************************)
GridExtremesVolume(v, b, ax, ay) ==
  UnionWithCopy(v, b.x1 - ax, b.y1 - ay, b.z1,
                Max2(b.x2 - b.x1, Unit), Max2(b.y2 - b.y1, Unit), b.z2 - b.z1)

(***************************************************************************)
(* endless_shell_fx_grid_get_paint_volume: the extremes of the paint box's *)
(* corners, bounded per axis, made into a volume in actor coordinates.     *)
(***************************************************************************)
GridGetPaintVolume(active, ax, ay, v, J) ==
  IF active
    THEN GridExtremesVolume(
           v, ExtremesBounds(AnimationExtremes(BoxCorners(UntransformedPaintBox(ax, ay, v)), J)),
           ax, ay)
    ELSE v

(***************************************************************************)
(* endless_shell_fx_grid_deform_vertex: the deformed model-space point     *)
(* moved into the actor's paint coordinates by the cached box's corner.    *)
(***************************************************************************)
DeformVertex(deformed, cached_output_box) ==
  [x |-> deformed.x - cached_output_box.x1, y |-> deformed.y - cached_output_box.y1]

=============================================================================
