------------------------------ MODULE Frustum ------------------------------
(***************************************************************************)
(* What matrix_float4x4_perspective makes of a body that stands where its  *)
(* pose has it: the projection that roation:angle: builds for its shader,  *)
(* with several lenses, in every state of Pose.  The camera is at the      *)
(* origin and looks along -z.                                              *)
(***************************************************************************)
EXTENDS Pose

CONSTANTS
  Lenses,        \* [aspect, tanHalf, near, far]
  Depths,        \* where a body may be moved to, along z
  Scales         \* the factors of matrix_float4x4_uniform_scale

ASSUME LensesAssumption ==
  /\ Lenses \subseteq [aspect : Fractions, tanHalf : Fractions,
                       near : Fractions, far : Fractions]
  /\ \A l \in Lenses : /\ Less(Zero, l.aspect) /\ Less(Zero, l.tanHalf)
                       /\ Less(Zero, l.near) /\ Less(l.near, l.far)

ASSUME DepthsAssumption == Depths \subseteq Fractions
ASSUME ScalesAssumption == \A k \in Scales : k \in Fractions /\ Less(Zero, k)

NotMore(a, b) == ~Less(b, a)
Within(a, bound) == NotMore(a, bound) /\ NotMore(Negative(bound), a)

\* The body's own origin: where it is, and where it is in the clip space of a
\* lens when the world is scaled.
Origin(body) == Apply(body, <<Zero, Zero, Zero, One>>)
Clip(l, scale, body) ==
  Apply(matrix_float4x4_perspective(l.aspect, l.tanHalf, l.near, l.far),
        Apply(matrix_float4x4_uniform_scale(scale), Origin(body)))
Depth(l, body) ==
  LET c == Clip(l, One, body) IN c[3] \oslash c[4]

Larger(l, k) == [l EXCEPT !.near = k \otimes @, !.far = k \otimes @]
MovedTo(body, z) ==
  Product(matrix_float4x4_translation(<<Zero, Zero, z \ominus Origin(body)[3]>>), body)

\* A frustum without a matrix: between near and far, and within both angles.
InFrustum(l, p) ==
  LET away == Negative(p[3])
  IN  /\ NotMore(l.near, away) /\ NotMore(away, l.far)
      /\ Within(p[2], away \otimes l.tanHalf)
      /\ Within(p[1], (away \otimes l.tanHalf) \otimes l.aspect)

----------------------------------------------------------------------------
(* The matrix keeps exactly what the lens' frustum holds: a body is inside *)
(* just when its clip coordinates are within -w .. w, bodies behind the    *)
(* camera and on the six planes included.                                  *)
KeepsFrustum ==
  \A l \in Lenses :
    LET c == Clip(l, One, transform)
    IN  InFrustum(l, Origin(transform)) <=> \A i \in 1 .. 3 : Within(c[i], c[4])

(* A world made larger, its planes with it, looks the same.                *)
ScaleUnseen ==
  \A l \in Lenses, k \in Scales :
    LET small == Clip(l, One, transform)
        large == Clip(Larger(l, k), k, transform)
    IN  \A i \in 1 .. 3 : small[i] \otimes large[4] = large[i] \otimes small[4]

(* A body that comes nearer, but not past the camera, loses depth: it      *)
(* hides what it was behind, and never the other way.                      *)
DepthKeepsOrder ==
  LET here == Origin(transform)[3]
  IN  \A z \in {d \in Depths : Less(here, d) /\ Less(d, Zero)} :
        LET nearer == MovedTo(transform, z)
        IN  \A l \in Lenses : Less(Depth(l, nearer), Depth(l, transform))

(* What a perspective projection has to do for every body there is.        *)
Projects == KeepsFrustum /\ ScaleUnseen /\ DepthKeepsOrder
=============================================================================
