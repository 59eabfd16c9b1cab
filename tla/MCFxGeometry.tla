--------------------------- MODULE MCFxGeometry ---------------------------
(***************************************************************************)
(* Checks the FxGeometry operators over every input of a bounded family:   *)
(* an actor at a (possibly fractional) position with a small paint volume, *)
(* and extremes that move each corner of its paint box by one of a few     *)
(* jitters, the way a grid deformation moves corners independently.  The   *)
(* input is chosen by Init and never changes.                              *)
(***************************************************************************)
EXTENDS FxGeometry

VARIABLE input

\* Positions and sizes in half units; jitters are (dx, dy, z) of a corner.
Positions == {-1, 0, 1, 10}
Jitters == {<<0, 0, 0>>, <<-3, 0, 0>>, <<0, 3, 1>>, <<2, -2, 0>>}

Inputs ==
  [ax : Positions, ay : {0, 1}, ox : {0, 1}, oy : {0, 1},
   w : {1, 2, 4}, h : {1, 4}, jitter : [1..4 -> Jitters]]

Init == input \in Inputs
Next == UNCHANGED input
Spec == Init /\ [][Next]_input

\* The volume the parent class reports for the actor (a 2D actor: z = d = 0).
Vol == [x |-> input.ox, y |-> input.oy, z |-> 0, w |-> input.w, h |-> input.h, d |-> 0]

\* An animation that leaves every corner where it is.
NoJitter == [i \in 1..4 |-> <<0, 0, 0>>]

Contained(in, out) ==
  /\ out.x <= in.x /\ X2(in) <= X2(out)
  /\ out.y <= in.y /\ Y2(in) <= Y2(out)
  /\ out.z <= in.z /\ Z2(in) <= Z2(out)

\* v grown by m on each side in x and y.
Grow(v, m) == [v EXCEPT !.x = @ - m, !.y = @ - m, !.w = @ + 2 * m, !.h = @ + 2 * m]

PointIn(p, v) ==
  /\ v.x <= p.x /\ p.x <= X2(v)
  /\ v.y <= p.y /\ p.y <= Y2(v)
  /\ v.z <= p.z /\ p.z <= Z2(v)

\* The deformation does not fold the quad: left corners stay left of the
\* right ones and top corners above the bottom ones.
Unfolded(e) ==
  /\ e[1].x <= e[2].x /\ e[3].x <= e[4].x
  /\ e[1].y <= e[3].y /\ e[2].y <= e[4].y

-----------------------------------------------------------------------------
(***************************************************************************)
(* The untransformed paint box holds the actor's volume at its position,  *)
(* with at least PAINT_BOX_OFFSET to spare at the top and left and some    *)
(* room at the bottom and right, whatever the rounding of a fractional     *)
(* position (shell-fx-common.c, PAINT_BOX_OFFSET and floor/ceil).          *)
(***************************************************************************)
PaintBoxCoversVolume ==
  LET b == UntransformedPaintBox(input.ax, input.ay, Vol)
  IN  /\ b.x1 <= Vol.x + input.ax - PAINT_BOX_OFFSET
      /\ b.y1 <= Vol.y + input.ay - PAINT_BOX_OFFSET
      /\ b.x2 > X2(Vol) + input.ax
      /\ b.y2 > Y2(Vol) + input.ay

(***************************************************************************)
(* Grid effect, identity deformation: get_paint_volume returns the actor's *)
(* volume, grown by no more than the paint box's padding and rounding      *)
(* (spec section 8, end-to-end scenario).                                  *)
(***************************************************************************)
GridIdentityWithinMargin ==
  LET r == GridGetPaintVolume(TRUE, input.ax, input.ay, Vol, NoJitter)
  IN  Contained(Vol, r) /\ Contained(r, Grow(Vol, 2 * Unit))

(***************************************************************************)
(* Grid effect: when the deformation does not fold the quad, every extreme *)
(* the animation reports, in actor coordinates, lies inside the volume     *)
(* get_paint_volume returns, so the renderer never culls a deformed pixel. *)
(***************************************************************************)
GridCoversUnfoldedExtremes ==
  LET e == AnimationExtremes(BoxCorners(UntransformedPaintBox(input.ax, input.ay, Vol)),
                             input.jitter)
      r == GridGetPaintVolume(TRUE, input.ax, input.ay, Vol, input.jitter)
  IN  Unfolded(e) =>
        \A i \in 1..4 : PointIn([x |-> e[i].x - input.ax, y |-> e[i].y - input.ay,
                                 z |-> e[i].z], r)

(***************************************************************************)
(* Affine effect, identity transform: get_paint_volume returns the actor's *)
(* volume, grown by no more than the padding, as for the grid effect (spec *)
(* section 4.2: the union of the volume and the transformed extremal box). *)
(***************************************************************************)
AffineIdentityWithinMargin ==
  LET r == AffineGetPaintVolume(TRUE, input.ax, input.ay, Vol, NoJitter)
  IN  Contained(Vol, r) /\ Contained(r, Grow(Vol, 2 * Unit))

=============================================================================
