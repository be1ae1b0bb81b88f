-------------------------------- MODULE Pose --------------------------------
(***************************************************************************)
(* A pose held in turn as three angles and a translation, and as one       *)
(* transform: matrix_transform_compose makes the one of the other,         *)
(* matrix_transform_extract and matrix_eulerian_angle take it apart, and   *)
(* what they find is the next one's argument.                              *)
(***************************************************************************)
EXTENDS MathUtilities

CONSTANT Poses      \* those to begin with: <<three angles, a translation>>

ASSUME PosesAssumption ==
  Poses \subseteq (Angles \X Angles \X Angles) \X (Fractions \X Fractions \X Fractions)

VARIABLES
  given,        \* the pose as it was given: its transform
  angles,       \* about x, y and z
  translate,
  transform,    \* the latest one composed
  form          \* which of the two is current: "angles" or "transform"

poseVars == <<given, angles, translate, transform, form>>

Composed(v, t) == matrix_transform_compose(matrix_float3x3_rotation_xyz(v), t)

PoseInit ==
  /\ \E p \in Poses : angles = p[1] /\ translate = p[2]
  /\ transform = Composed(angles, translate)
  /\ given = transform
  /\ form = "transform"

Decompose ==
  /\ form = "transform"
  /\ form' = "angles"
  /\ translate' = matrix_transform_extract(transform).translate
  /\ angles' \in matrix_eulerian_angle(
       matrix_transform_compose(matrix_transform_extract(transform).rotate, translate'))
  /\ UNCHANGED <<given, transform>>

Compose ==
  /\ form = "angles"
  /\ form' = "transform"
  /\ transform' = Composed(angles, translate)
  /\ UNCHANGED <<given, angles, translate>>

PoseNext == Decompose \/ Compose

PoseSpec == PoseInit /\ [][PoseNext]_poseVars

----------------------------------------------------------------------------
Translations == {p[2] : p \in Poses}

(* Each variable holds what its declaration says.                          *)
PoseTypeOK ==
  /\ form \in {"angles", "transform"}
  /\ \A i \in 1 .. 3 : (cos(angles[i]) \otimes cos(angles[i])) \oplus
                         (sin(angles[i]) \otimes sin(angles[i])) = One
  /\ translate \in Translations

(* However often a pose is taken apart and put together it stays what it   *)
(* was.  The angles need not: they are not unique, and where the one about *)
(* y is a quarter turn, atan2 is asked about two zeros, and any answer of  *)
(* its for the first angle must be made up for by the others.              *)
PoseStands == transform = given

(* Both of these, whichever form the pose is in.                           *)
PoseInv == PoseTypeOK /\ PoseStands

(* Where the angle about y is less than a quarter turn either way, the     *)
(* three angles found in a transform are those it was composed from.       *)
AnglesFound ==
  [][Decompose /\ Less(Zero, cos(angles[2])) => angles' = angles]_poseVars
=============================================================================
