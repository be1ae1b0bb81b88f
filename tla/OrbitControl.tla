---------------------------- MODULE OrbitControl ----------------------------
(***************************************************************************)
(* The camera of Math/OrbitControl.cpp: it circles a target at a distance, *)
(* and each gesture moves one of pitch, yaw and distance by its velocity,  *)
(* as far as its range allows.                                             *)
(*                                                                         *)
(* The target and the camera are points of a line, all that distance and   *)
(* direction need.  Angles are counted in a unit small enough to hold      *)
(* what rounding does to them: each step of an angle may be off by as much *)
(* as Rounding.  Distances are exact, but for NaN.                         *)
(***************************************************************************)
EXTENDS Integers

CONSTANTS
  PitchVelocity, PitchLimit,    \* 1 and 60 degrees in the code
  YawVelocity, YawLimit,        \* 3 and 135 degrees
  Side,                         \* the yaw of the side views, 90 degrees
  Rounding,                     \* what a float sum of angles is off by at most
  DistVelocity, DistSpan,       \* 3 and 80
  Points,                       \* where targets and cameras are placed
  NaN                           \* not a number

ASSUME VelocityAssumption ==
  {PitchVelocity, YawVelocity, DistVelocity} \subseteq Nat \ {0}
ASSUME RangeAssumption ==
  /\ {PitchLimit, YawLimit, Side, DistSpan} \subseteq Nat
  /\ Side <= YawLimit
\* A step is more than its error.
ASSUME RoundingAssumption ==
  /\ Rounding \in Nat
  /\ Rounding < PitchVelocity /\ Rounding < YawVelocity
ASSUME PointsAssumption == Points \subseteq Int
ASSUME NaNAssumption == NaN \notin Int

VARIABLES
  isInitted, pitch, yaw, dist,
  distRange,       \* <<lower, upper>>
  target, camera,
  perDistTranslate,  \* the unit vector from camera to target: 1, -1 or NaN
  preTranslate       \* the translation that takes the target to the origin

vars == <<isInitted, pitch, yaw, dist, distRange, target, camera,
          perDistTranslate, preTranslate>>

Floats == Int \union {NaN}

\* Arithmetic in which NaN is contagious.
Plus(x, y) == IF NaN \in {x, y} THEN NaN ELSE x + y
Minus(x, y) == IF NaN \in {x, y} THEN NaN ELSE x - y
AtLeast(x, low) == IF NaN \in {x, low} THEN NaN ELSE IF x < low THEN low ELSE x
AtMost(x, high) == IF NaN \in {x, high} THEN NaN ELSE IF x > high THEN high ELSE x

Length(x) == IF x = NaN THEN NaN ELSE IF x < 0 THEN -x ELSE x
Normalize(x) == IF x = NaN \/ x = 0 THEN NaN ELSE IF x < 0 THEN -1 ELSE 1

\* reset() for a target and a camera that are t and c when it runs.
ResetTo(t, c) ==
  /\ pitch' = 0
  /\ yaw' = 0
  /\ dist' = Length(Minus(t, c))
  /\ distRange' = <<Minus(dist', DistSpan), Plus(dist', DistSpan)>>
  /\ perDistTranslate' = Normalize(Minus(t, c))
  /\ preTranslate' = Minus(0, t)

\* The constructor resets before anything gave target and camera a value.
Init ==
  /\ isInitted = FALSE
  /\ target \in Points \union {NaN}
  /\ camera \in Points \union {NaN}
  /\ pitch = 0
  /\ yaw = 0
  /\ dist = Length(Minus(target, camera))
  /\ distRange = <<Minus(dist, DistSpan), Plus(dist, DistSpan)>>
  /\ perDistTranslate = Normalize(Minus(target, camera))
  /\ preTranslate = Minus(0, target)

\* Mutant of init: reset() comes before the assignments.
initAfterReset(t, c) ==
  /\ ResetTo(target, camera)
  /\ target' = t
  /\ camera' = c
  /\ isInitted' = TRUE

init(t, c) ==
  /\ target' = t
  /\ camera' = c
  /\ ResetTo(target', camera')
  /\ isInitted' = TRUE

reset == ResetTo(target, camera) /\ UNCHANGED <<isInitted, target, camera>>

\* What no gesture touches.
Frame == UNCHANGED <<isInitted, distRange, target, camera,
                     perDistTranslate, preTranslate>>

\* What the float sum or difference of two angles may be.
Rounded(angle) == {angle + error : error \in -Rounding .. Rounding}

\* Mutant of rotateLeft: no clamp.
rotateLeftFree ==
  /\ yaw' \in Rounded(yaw - YawVelocity)
  /\ Frame /\ UNCHANGED <<pitch, dist>>

rotateLeft ==
  /\ \E newYaw \in Rounded(yaw - YawVelocity) : yaw' = AtLeast(newYaw, -YawLimit)
  /\ Frame /\ UNCHANGED <<pitch, dist>>

rotateRight ==
  /\ \E newYaw \in Rounded(yaw + YawVelocity) : yaw' = AtMost(newYaw, YawLimit)
  /\ Frame /\ UNCHANGED <<pitch, dist>>

rotateUp ==
  /\ \E newPitch \in Rounded(pitch - PitchVelocity) :
       pitch' = AtLeast(newPitch, -PitchLimit)
  /\ Frame /\ UNCHANGED <<yaw, dist>>

rotateDown ==
  /\ \E newPitch \in Rounded(pitch + PitchVelocity) :
       pitch' = AtMost(newPitch, PitchLimit)
  /\ Frame /\ UNCHANGED <<yaw, dist>>

\* Mutant of zoomIn: no clamp.
zoomInFree ==
  /\ dist' = Minus(dist, DistVelocity)
  /\ Frame /\ UNCHANGED <<pitch, yaw>>

zoomIn ==
  /\ dist' = AtLeast(Minus(dist, DistVelocity), distRange[1])
  /\ Frame /\ UNCHANGED <<pitch, yaw>>

zoomOut ==
  /\ dist' = AtMost(Plus(dist, DistVelocity), distRange[2])
  /\ Frame /\ UNCHANGED <<pitch, yaw>>

ToNearest(side) ==
  /\ pitch' = 0
  /\ yaw' = side
  /\ dist' = distRange[1]
  /\ Frame

toLeftNearest == ToNearest(-Side)
toRightNearest == ToNearest(Side)

Place == (\E t, c \in Points : init(t, c)) \/ reset
Rotate == rotateLeft \/ rotateRight \/ rotateUp \/ rotateDown
Zoom == zoomIn \/ zoomOut
Nearest == toLeftNearest \/ toRightNearest

Next == Place \/ Rotate \/ Zoom \/ Nearest

Spec == Init /\ [][Next]_vars

----------------------------------------------------------------------------
\* getTransform's translateVector: where the target lies from the camera.
\* Without init the code answers a constant matrix instead.
translateVector ==
  IF NaN \in {dist, perDistTranslate} THEN NaN ELSE dist * perDistTranslate

(* Each variable holds what its declaration says.                          *)
TypeOK ==
  /\ isInitted \in BOOLEAN
  /\ pitch \in Int
  /\ yaw \in Int
  /\ dist \in Floats
  /\ distRange \in Floats \X Floats
  /\ {target, camera} \subseteq Points \union {NaN}
  /\ perDistTranslate \in {-1, 1, NaN}
  /\ preTranslate \in Floats

(* No sequence of gestures, resets and new placements leaves a range: the  *)
(* side views, which set the yaw without looking at its range, included,   *)
(* and whatever the errors of the steps before have added up to.           *)
RangesKept ==
  /\ pitch \in -PitchLimit .. PitchLimit
  /\ yaw \in -YawLimit .. YawLimit
  /\ isInitted => dist \in distRange[1] .. distRange[2]

(* What reset() derived still belongs to the target and the camera that    *)
(* init() was last given, and not to the pair before them.                 *)
Coherent ==
  isInitted =>
    /\ target \in Int /\ camera \in Int
    /\ distRange = <<Length(target - camera) - DistSpan,
                      Length(target - camera) + DistSpan>>
    /\ perDistTranslate = Normalize(target - camera)
    /\ preTranslate = -target

(* A camera placed at least DistSpan from its target never passes through  *)
(* it and out on the other side, however far it zooms in.                  *)
KeepsSide ==
  isInitted /\ Length(target - camera) >= DistSpan /\ target # camera =>
    translateVector * (target - camera) >= 0
=============================================================================
