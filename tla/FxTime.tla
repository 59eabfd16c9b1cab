------------------------------ MODULE FxTime ------------------------------
(***************************************************************************)
(* The frame-timing arithmetic shared, line for line, by the two effects'  *)
(* new_frame callbacks (affine-effect.c and grid-effect.c).  Pure          *)
(* operators, no state.                                                    *)
(*                                                                         *)
(* The gint64 arithmetic is modelled at a reduced width: MaxInt64 stands   *)
(* for G_MAXINT64 and every gint64 result is wrapped to                    *)
(* MinInt64..MaxInt64.  Signed overflow is undefined in C; the build's     *)
(* compilers emit plain two's-complement add/sub for these statements, so  *)
(* wrapping is the outcome modelled.                                       *)
(***************************************************************************)
EXTENDS Integers

CONSTANTS
  MaxInt64,   \* the model's G_MAXINT64
  UsPerMs,    \* ms_to_us: microseconds per millisecond (1000 in the code)
  ClockWrap   \* how g_get_monotonic_time's counter passes its maximum:
              \* "ToZero" (0..MaxInt64) or "TwosComplement" (to MinInt64)

ASSUME MaxInt64 \in Nat \ {0}
ASSUME UsPerMs \in Nat \ {0}
ASSUME ClockWrap \in {"ToZero", "TwosComplement"}

MinInt64 == -MaxInt64 - 1

Int64Range == MinInt64..MaxInt64

\* Two's-complement wrap of an integer to the gint64 range.
Int64(v) == ((v - MinInt64) % (2 * (MaxInt64 + 1))) + MinInt64

\* C integer division: truncates toward zero (TLA+ \div floors).
CDiv(a, b) == IF a >= 0 THEN a \div b ELSE -((-a) \div b)

\* Mutant: the wraparound correction left out.
WrapCorrectedDropped(last_usecs, usecs) == last_usecs

\* "if (priv->last_usecs > usecs) priv->last_usecs -= G_MAXINT64;"
WrapCorrected(last_usecs, usecs) ==
  IF last_usecs > usecs THEN Int64(last_usecs - MaxInt64) ELSE last_usecs

\* "msecs_delta = (usecs - priv->last_usecs) / ms_to_us", after the
\* wraparound correction above.
MsecsDelta(last_usecs, usecs) ==
  CDiv(Int64(usecs - WrapCorrected(last_usecs, usecs)), UsPerMs)

\* The values the monotonic clock takes.
ClockRange == IF ClockWrap = "ToZero" THEN 0..MaxInt64 ELSE Int64Range

\* The monotonic counter moved on by e us, past its maximum if it must.
NextClock(t, e) ==
  IF ClockWrap = "ToZero" THEN (t + e) % (MaxInt64 + 1) ELSE Int64(t + e)

=============================================================================
