----------------------------- MODULE OrbitView -----------------------------
(***************************************************************************)
(* OrbitControl::getTransform: the matrix made of the camera's present     *)
(* state by the functions of MathUtilities, for every state that placing   *)
(* the camera and moving it lead to.                                       *)
(*                                                                         *)
(* OrbitControl counts angles in a unit and has places on a line; AngleOf  *)
(* gives the angles' cosines and sines, and the line lies in space.        *)
(***************************************************************************)
EXTENDS OrbitControl, MathUtilities

CONSTANTS
  AngleOf,      \* AngleOf[angle]: the angle as MathUtilities takes it
  Line,         \* the line's direction, a unit vector
  Base          \* a point of the line

ASSUME LineAssumption ==
  /\ Line \in [1 .. 3 -> Fractions] /\ length(Line) = One
  /\ Base \in [1 .. 3 -> Fractions]
ASSUME AngleOfAssumption ==
  /\ -YawLimit .. YawLimit \union -PitchLimit .. PitchLimit \subseteq DOMAIN AngleOf
  /\ \A d \in DOMAIN AngleOf :
       IsAngle(AngleOf[d]) /\ AngleOf[-d] = Opposite(AngleOf[d])
  /\ AngleOf[0] = Straight

\* The point of space that stands for point k of the line, and the vector
\* that leads k units along it.
Along(k) == Scaled(Q(k), Line)
At(k) == [i \in 1 .. 3 |-> Base[i] \oplus Along(k)[i]]

axisX == <<One, Zero, Zero>>
axisY4 == <<Zero, One, Zero, One>>

rotationPitch(p) == matrix_float4x4_rotation(axisX, AngleOf[p])

\* Mutant of upAxisY: the axis that the pitch did not turn.
axisYUnturned(p) == <<axisY4[1], axisY4[2], axisY4[3]>>

upAxisY(p) ==
  LET upAxisY4 == Apply(rotationPitch(p), axisY4)
  IN  <<upAxisY4[1], upAxisY4[2], upAxisY4[3]>>

rotationYaw(p, y) == matrix_float4x4_rotation(upAxisY(p), AngleOf[y])

\* rotationYaw * rotationPitch, for every pitch and yaw.
rotation ==
  [p \in -PitchLimit .. PitchLimit |->
     [y \in -YawLimit .. YawLimit |-> Product(rotationYaw(p, y), rotationPitch(p))]]

\* m_preTranslate as reset() left it: preTranslate says of which point.
preTranslateMatrix == matrix_float4x4_translation(Scaled(Q(-1), At(-preTranslate)))

\* Mutant of getTransform: turned before the target is taken to the origin.
TurnedFirst ==
  IF isInitted
  THEN Product(Product(matrix_float4x4_translation(Along(translateVector)),
                       preTranslateMatrix),
               rotation[pitch][yaw])
  ELSE Identity(4)

\* Where there is a direction from the camera to the target.
getTransform ==
  IF isInitted
  THEN Product(Product(matrix_float4x4_translation(Along(translateVector)),
                       rotation[pitch][yaw]),
               preTranslateMatrix)
  ELSE Identity(4)

----------------------------------------------------------------------------
\* Where a transform shows a point, and which way it shows the three axes.
Seen(transform, p) ==
  LET q == Apply(transform, <<p[1], p[2], p[3], One>>) IN <<q[1], q[2], q[3]>>
Turned(transform) == matrix_transform_extract(transform).rotate

HasView == isInitted /\ perDistTranslate # NaN

Cross(x, y) ==
  <<(x[2] \otimes y[3]) \ominus (x[3] \otimes y[2]),
    (x[3] \otimes y[1]) \ominus (x[1] \otimes y[3]),
    (x[1] \otimes y[2]) \ominus (x[2] \otimes y[1])>>

(* Whatever was turned, zoomed and placed anew, the camera looks at its    *)
(* target: it is seen dist away, where it was from the camera to begin     *)
(* with.  Straight ahead at the distance of the placement, the camera is   *)
(* where it was placed: its own place is seen at the origin.               *)
TargetAhead ==
  /\ HasView => Seen(getTransform, At(target)) = Along(translateVector)
  /\ HasView /\ pitch = 0 /\ yaw = 0 /\ dist = Length(target - camera) =>
       Seen(getTransform, At(camera)) = <<Zero, Zero, Zero>>

(* Nothing is stretched, sheared or mirrored: lengths, right angles and    *)
(* handedness stay, about whichever tilted axis the camera is turned.      *)
Rigid ==
  HasView =>
    LET axes == Turned(getTransform)
    IN  /\ \A i, j \in 1 .. 3 : Dot(axes[i], axes[j]) = IF i = j THEN One ELSE Zero
        /\ axes[3] = Cross(axes[1], axes[2])

(* The horizon stays level: the vertical never leans to a side, however    *)
(* pitch and yaw combine.  The yaw's axis has to be the one the pitch made *)
(* of the vertical.                                                        *)
NoRoll == HasView => Turned(getTransform)[2][1] = Zero

(* The picture neither deforms nor tips over.                              *)
Steady == Rigid /\ NoRoll
=============================================================================
