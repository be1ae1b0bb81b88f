---------------------------- MODULE MCOrbitView ----------------------------
(***************************************************************************)
(* OrbitView, and with it OrbitControl, for TLC: two steps of pitch and    *)
(* three of yaw either way.                                                *)
(***************************************************************************)
EXTENDS OrbitView

\* A camera on the target, nearer than DistSpan, at DistSpan, and beyond.
MCPoints == {-2, 0, 5, 8}

\* Pitch in steps of 2, yaw in steps of 3, each give or take 1; the side view
\* is a quarter turn, and some neighbours share an angle.
MCAngle(d) ==
  CASE d = 0 -> Straight
    [] d \in {1, 2} -> <<<<4, 5>>, <<3, 5>>>>
    [] d = 3 -> <<<<12, 13>>, <<5, 13>>>>
    [] d \in {4, 5} -> <<<<3, 5>>, <<4, 5>>>>
    [] d \in {6, 7} -> <<Zero, One>>
    [] d \in {8, 9} -> <<<<-3, 5>>, <<4, 5>>>>
MCAngleOf ==
  [d \in -9 .. 9 |-> IF d < 0 THEN Opposite(MCAngle(-d)) ELSE MCAngle(d)]
MCAngles == {MCAngleOf[d] : d \in -9 .. 9}

MCLine == <<<<1, 3>>, <<-2, 3>>, <<2, 3>>>>
MCBase == <<Q(1), Q(4), Q(-2)>>
=============================================================================
