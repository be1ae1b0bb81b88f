----------------------------- MODULE MCHelpers -----------------------------
(***************************************************************************)
(* Helpers on pictures of a few pixels, for TLC.                           *)
(***************************************************************************)
EXTENDS Helpers

\* Odd and even, wide and high, square, and too small for a scale of 3.
MCSizes == {<<2, 2>>, <<3, 1>>, <<3, 2>>, <<4, 6>>, <<6, 6>>}
MCRects == {<<1, 2>>, <<4, 1>>, <<2, 0>>}
=============================================================================
