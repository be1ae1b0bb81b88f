--------------------------- MODULE MCFilterChain ---------------------------
(***************************************************************************)
(* FilterChain on a few component levels, for TLC, and what grayTrans:'s   *)
(* constant is named for.                                                  *)
(***************************************************************************)
EXTENDS FilterChain

MCLevels == {0, 63, 127, 128, 254, 255}
MCThresholds == {0, 1, 127, 128, 254, 255, 256}
\* Zeroed memory, a stale opaque pixel, and bytes that are no color at all.
MCGarbage == {[r |-> 0, g |-> 0, b |-> 0, a |-> 0],
              [r |-> 200, g |-> 90, b |-> 10, a |-> 255],
              [r |-> 255, g |-> 255, b |-> 255, a |-> 7]}

\* The Rec 709 luma of a color, rounded to an 8-bit level.
Rec709(c) == (2126 * c.r + 7152 * c.g + 722 * c.b + 5000) \div 10000

----------------------------------------------------------------------------
(* grayTrans: weighs red by 0.2126 and blue by 0.0722, as the constant it  *)
(* uses, "Rec 709 LUMA values for grayscale image conversion", says: the   *)
(* gray of an opaque color is its Rec 709 luma, give or take one level.    *)
GrayIsRec709 ==
  stage = "image" /\ filter.name = "gray" /\ arg.a = Opaque =>
    image.g \in Rec709(arg) - 1 .. Rec709(arg) + 1
=============================================================================
