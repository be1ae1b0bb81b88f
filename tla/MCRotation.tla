----------------------------- MODULE MCRotation -----------------------------
(***************************************************************************)
(* Rotation on pictures of a few pixels, for TLC.                          *)
(***************************************************************************)
EXTENDS Rotation

\* A pixel, a row, a column, a square, and two oblongs with a middle pixel.
MCSizes == {<<1, 1>>, <<3, 1>>, <<1, 2>>, <<2, 2>>, <<2, 3>>, <<3, 2>>}

\* Up to a full turn either way, and a quarter and a half beyond it.
MCAngles == -6 .. 6
=============================================================================
