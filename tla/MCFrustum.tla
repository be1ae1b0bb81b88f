----------------------------- MODULE MCFrustum -----------------------------
(***************************************************************************)
(* Frustum, and with it Pose, for TLC: quarter turns and the angles of the *)
(* triangle 3, 4, 5 about every axis, and upright bodies before, on,       *)
(* between and behind the planes of three lenses.                          *)
(***************************************************************************)
EXTENDS Frustum

MCQuarters == {<<One, Zero>>, <<Zero, One>>, <<Q(-1), Zero>>, <<Zero, Q(-1)>>}
MCOblique == {<<<<s * 3, 5>>, <<t * 4, 5>>>> : s, t \in {-1, 1}} \union
             {<<<<s * 4, 5>>, <<t * 3, 5>>>> : s, t \in {-1, 1}}
MCAngles == MCQuarters \union MCOblique

MCDepths ==
  {Q(-101), Q(-100), Q(-4), Q(-3), Q(-2), Q(-1), <<-1, 10>>, <<-1, 20>>, Zero, Q(1)}
MCSides == {Q(-3), Q(-2), <<-1, 10>>, Zero, Q(1), Q(2)}

MCPoses ==
  ((MCAngles \X MCAngles \X MCAngles) \X {<<Q(2), Q(-3), Q(7)>>})
    \union
  ({<<Straight, Straight, Straight>>} \X (MCSides \X MCSides \X MCDepths))

\* The first has the parameters of roation:angle:, but for the tangent.
MCLenses ==
  {[aspect |-> <<1, 10>>, tanHalf |-> <<1, 2>>, near |-> <<1, 10>>, far |-> Q(100)],
   [aspect |-> Q(2), tanHalf |-> <<1, 2>>, near |-> Q(1), far |-> Q(4)],
   [aspect |-> <<3, 2>>, tanHalf |-> Q(1), near |-> Q(2), far |-> Q(3)]}
MCScales == {<<1, 3>>, Q(2)}
=============================================================================
