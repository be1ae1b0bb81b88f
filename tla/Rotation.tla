------------------------------ MODULE Rotation ------------------------------
(***************************************************************************)
(* The two ways ImageMisc turns a picture: roation:angle:, which draws it  *)
(* as the texture of a turned square, and image:rotation:, which draws it  *)
(* into a turned CoreGraphics context.  The result of one call may be the  *)
(* argument of the next.                                                   *)
(*                                                                         *)
(* Angles are quarter turns: for others the frame is never adapted.  What  *)
(* single precision makes of their sines moves no pixel.  Pictures are     *)
(* upright and of scale 1; the GPU finishes every draw.                    *)
(*                                                                         *)
(* A picture is [size |-> <<width, height>>, cell |-> ...], y downwards,   *)
(* each cell being the set of original pixels that show in it: one if all  *)
(* is well, several where the sampler blends, none where nothing is drawn. *)
(***************************************************************************)
EXTENDS Integers

CONSTANTS
  Sizes,          \* the sizes of the original pictures
  Angles,         \* the angles given to roation:angle:, in quarter turns
  Orientations,   \* the orientations given to image:rotation:
  MaxContexts     \* bound: image contexts left open before the run stops

ASSUME SizesAssumption == Sizes \subseteq (Nat \ {0}) \X (Nat \ {0})
ASSUME AnglesAssumption == Angles \subseteq Int
ASSUME OrientationsAssumption == Orientations \subseteq {"up", "left", "right", "down"}
ASSUME MaxContextsAssumption == MaxContexts \in Nat

VARIABLES
  original,    \* the size of the picture the chain of calls began with
  picture,     \* the picture the latest call returned
  contexts,    \* image contexts begun by image:rotation: and not ended
  turns,       \* history: the clockwise quarter turns asked for so far
  within       \* history: no angle so far was more than a full turn

vars == <<original, picture, contexts, turns, within>>

Pixels(size) == (0 .. size[1] - 1) \X (0 .. size[2] - 1)
Swapped(size) == <<size[2], size[1]>>
Source(size) == [size |-> size, cell |-> [p \in Pixels(size) |-> {p}]]

----------------------------------------------------------------------------
(* roation:angle:.  A coordinate of the target's square is a fraction      *)
(* <<n, d>> between -1 and 1, y upwards.                                   *)

Negative(x) == <<-x[1], x[2]>>

\* Where the center of pixel p of a target of that size lies.
Center(size, p) == <<<<2 * p[1] + 1 - size[1], size[1]>>,
                     <<size[2] - 2 * p[2] - 1, size[2]>>>>

\* Mutant of Unrotate: the rotation's matrix is taken the other way round.
UnrotateTransposed(angle, q) ==
  CASE angle % 4 = 0 -> q
    [] angle % 4 = 1 -> <<q[2], Negative(q[1])>>
    [] angle % 4 = 2 -> <<Negative(q[1]), Negative(q[2])>>
    [] angle % 4 = 3 -> <<Negative(q[2]), q[1]>>

\* The vertex of the square that the rotation takes to q.
Unrotate(angle, q) ==
  CASE angle % 4 = 0 -> q
    [] angle % 4 = 1 -> <<Negative(q[2]), q[1]>>
    [] angle % 4 = 2 -> <<Negative(q[1]), Negative(q[2])>>
    [] angle % 4 = 3 -> <<q[2], Negative(q[1])>>

\* Mutant of Covered: the second triangle is not drawn.
LowerTriangle(q) == q[1][1] * q[2][2] + q[2][1] * q[1][2] <= 0

\* The two triangles of quadVertices, either side of the line x + y = 0.
Covered(q) ==
  \/ q[1][1] * q[2][2] + q[2][1] * q[1][2] <= 0
  \/ q[1][1] * q[2][2] + q[2][1] * q[1][2] >= 0

\* The texels the linear sampler reads along an axis of n of them, at x: the
\* one that x hits, or the two it falls between, kept inside the texture.
Sampled(n, x) ==
  LET below == (n * (x[1] + x[2]) - x[2]) \div (2 * x[2])
      hit == (n * (x[1] + x[2]) - x[2]) % (2 * x[2]) = 0
  IN  {t \in 0 .. n - 1 : \/ t = below
                          \/ ~hit /\ t = below + 1}

\* The target has the sides exchanged for 90 and 270 degrees, either sign.
FrameSize(size, angle) ==
  IF angle \in {-3, -1, 1, 3} THEN Swapped(size) ELSE size

Drawn(p, angle) ==
  LET frame == FrameSize(p.size, angle)
      At(target) == Unrotate(angle, Center(frame, target))
  IN  [size |-> frame,
       cell |-> [target \in Pixels(frame) |->
         IF Covered(At(target))
         THEN UNION {p.cell[texel] : texel \in
                Sampled(p.size[1], At(target)[1])
                  \X Sampled(p.size[2], Negative(At(target)[2]))}
         ELSE {}]]

roation(angle) ==
  /\ picture' = Drawn(picture, angle)
  /\ turns' = (turns + angle) % 4
  /\ within' = (within /\ angle \in -4 .. 4)
  /\ UNCHANGED <<original, contexts>>

----------------------------------------------------------------------------
(* image:rotation:.  Points count from the lower left corner in half       *)
(* pixels, after the flip that comes first.                                *)

\* The case that sets rotate, in quarter turns to the left.
Rotate(orientation) ==
  CASE orientation = "left"  -> 1
    [] orientation = "right" -> 33
    [] orientation = "down"  -> 2
    [] orientation = "up"    -> 0

Rect(size, orientation) ==
  IF orientation \in {"left", "right"} THEN Swapped(size) ELSE size

Translate(rect, orientation) ==
  CASE orientation = "left"  -> <<0, -2 * rect[1]>>
    [] orientation = "right" -> <<-2 * rect[2], 0>>
    [] orientation = "down"  -> <<-2 * rect[1], -2 * rect[2]>>
    [] orientation = "up"    -> <<0, 0>>

RotateCTM(quarters, q) ==
  CASE quarters % 4 = 0 -> q
    [] quarters % 4 = 1 -> <<-q[2], q[1]>>
    [] quarters % 4 = 2 -> <<-q[1], -q[2]>>
    [] quarters % 4 = 3 -> <<q[2], -q[1]>>

\* Where pixel p of a picture of that size comes to lie: scaling fills the
\* sides of rect with those of the picture again.
Placed(size, orientation, p) ==
  LET q == <<2 * p[1] + 1, 2 * (size[2] - p[2]) - 1>>
      move == Translate(Rect(size, orientation), orientation)
  IN  RotateCTM(Rotate(orientation), <<q[1] + move[1], q[2] + move[2]>>)

InContext(p, orientation) ==
  LET rect == Rect(p.size, orientation)
  IN  [size |-> rect,
       cell |-> [target \in Pixels(rect) |->
         UNION {p.cell[texel] : texel \in
           {t \in Pixels(p.size) :
              Placed(p.size, orientation, t) =
                <<2 * target[1] + 1, 2 * (rect[2] - target[2]) - 1>>}}]]

\* The clockwise quarter turns an orientation stands for.
Clockwise(orientation) ==
  CASE orientation = "left"  -> 3
    [] orientation = "right" -> 1
    [] orientation = "down"  -> 2
    [] orientation = "up"    -> 0

\* The context that is begun is read while it is current, and not ended.
imageRotation(orientation) ==
  /\ contexts < MaxContexts
  /\ contexts' = contexts + 1
  /\ picture' = InContext(picture, orientation)
  /\ turns' = (turns + Clockwise(orientation)) % 4
  /\ UNCHANGED <<original, within>>

----------------------------------------------------------------------------
Init ==
  /\ original \in Sizes
  /\ picture = Source(original)
  /\ contexts = 0
  /\ turns = 0
  /\ within = TRUE

Next ==
  \/ \E angle \in Angles : roation(angle)
  \/ \E orientation \in Orientations : imageRotation(orientation)

Spec == Init /\ [][Next]_vars

----------------------------------------------------------------------------
\* The picture p turned clockwise: its size, and the pixel that comes to lie
\* at each position.
TurnedSize(size, q) == IF q % 2 = 0 THEN size ELSE Swapped(size)
Origin(size, q, at) ==
  CASE q = 0 -> at
    [] q = 1 -> <<at[2], size[2] - 1 - at[1]>>
    [] q = 2 -> <<size[1] - 1 - at[1], size[2] - 1 - at[2]>>
    [] q = 3 -> <<size[1] - 1 - at[2], at[1]>>
Turned(p, q) ==
  [size |-> TurnedSize(p.size, q),
   cell |-> [at \in Pixels(TurnedSize(p.size, q)) |-> p.cell[Origin(p.size, q, at)]]]

(* Each variable holds what its declaration says.                          *)
TypeOK ==
  /\ original \in Sizes
  /\ picture = [size |-> picture.size, cell |-> picture.cell]
  /\ picture.size \in {original, Swapped(original)}
  /\ picture.cell \in [Pixels(picture.size) -> SUBSET Pixels(original)]
  /\ contexts \in 0 .. MaxContexts
  /\ turns \in 0 .. 3
  /\ within \in BOOLEAN

(* However roation:angle: and image:rotation: are chained, with angles of  *)
(* at most a full turn, the result is the original turned by the sum of    *)
(* the turns: the pipeline's y axes, the matrix convention, the frame and  *)
(* the context's translations agree, so that nothing is mirrored, lost,    *)
(* blended or cut off.                                                     *)
TurnsAddUp == within => picture = Turned(Source(original), turns)

(* Whatever the angle, also where it is more than a full turn and the      *)
(* frame no longer fits, no pixel of the result is left without a part of  *)
(* the picture: the two triangles cover the frame, and the sampler stays   *)
(* inside the texture.                                                     *)
NoGaps == \A p \in Pixels(picture.size) : picture.cell[p] # {}

(* image:rotation: turns its context and draws the picture (the comment    *)
(* before CGContextDrawImage says "draw the picture"): each pixel of the   *)
(* original shows somewhere in the result.                                 *)
PictureIsDrawn ==
  within => UNION {picture.cell[p] : p \in Pixels(picture.size)} = Pixels(original)
=============================================================================
