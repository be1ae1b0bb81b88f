--------------------------- MODULE MathUtilities ---------------------------
(***************************************************************************)
(* The functions of Math/MathUtilities.cpp.  A float3 is a tuple of three  *)
(* numbers, a matrix a tuple of columns, an angle its cosine and sine.     *)
(* An argument that a function assigns is its value here.                  *)
(***************************************************************************)
EXTENDS Rationals

matrix_float4x4_translation(t) ==
  <<<<One, Zero, Zero, Zero>>, <<Zero, One, Zero, Zero>>,
    <<Zero, Zero, One, Zero>>, <<t[1], t[2], t[3], One>>>>

matrix_float4x4_uniform_scale(scale) ==
  <<<<scale, Zero, Zero, Zero>>, <<Zero, scale, Zero, Zero>>,
    <<Zero, Zero, scale, Zero>>, <<Zero, Zero, Zero, One>>>>

\* The rotation about a normalized axis.
matrix_float3x3_rotation(axis, angle) ==
  LET Along(i, j) == (axis[i] \otimes axis[j]) \otimes (One \ominus cos(angle))
      Diagonal(i) == (axis[i] \otimes axis[i]) \oplus
                       ((One \ominus (axis[i] \otimes axis[i])) \otimes cos(angle))
      Across(i) == axis[i] \otimes sin(angle)
  IN  <<<<Diagonal(1), Along(1, 2) \ominus Across(3), Along(1, 3) \oplus Across(2)>>,
        <<Along(1, 2) \oplus Across(3), Diagonal(2), Along(2, 3) \ominus Across(1)>>,
        <<Along(1, 3) \ominus Across(2), Along(2, 3) \oplus Across(1), Diagonal(3)>>>>

xAxis == <<One, Zero, Zero>>
yAxis == <<Zero, One, Zero>>
zAxis == <<Zero, Zero, One>>

\* The overload for three angles: about x first, about z last.
matrix_float3x3_rotation_xyz(v) ==
  Product(Product(matrix_float3x3_rotation(zAxis, v[3]),
                  matrix_float3x3_rotation(yAxis, v[2])),
          matrix_float3x3_rotation(xAxis, v[1]))

matrix_transform_compose(rotate, translate) ==
  <<<<rotate[1][1], rotate[1][2], rotate[1][3], Zero>>,
    <<rotate[2][1], rotate[2][2], rotate[2][3], Zero>>,
    <<rotate[3][1], rotate[3][2], rotate[3][3], Zero>>,
    <<translate[1], translate[2], translate[3], One>>>>

matrix_float4x4_rotation(axis, angle) ==
  matrix_transform_compose(matrix_float3x3_rotation(axis, angle), <<Zero, Zero, Zero>>)

matrix_transform_extract(transform) ==
  [rotate    |-> [j \in 1 .. 3 |-> <<transform[j][1], transform[j][2], transform[j][3]>>],
   translate |-> <<transform[4][1], transform[4][2], transform[4][3]>>]

\* Mutant of matrix_eulerian_angle: the last angle found on its own, from
\* two other entries.
eulerian_apart(M) ==
  UNION {
    LET e2 == atan2(Negative(M[1][3]),
                (M[1][1] \otimes cos(e1)) \oplus (M[1][2] \otimes sin(e1)))
        e3 == atan2(M[2][3], M[3][3])
    IN  {<<Opposite(z), Opposite(y), Opposite(e1)>> : y \in e2, z \in e3}
    : e1 \in atan2(M[1][2], M[1][1])}

\* Mutant of matrix_eulerian_angle: the angles of the transposed matrix.
eulerian_unsigned(M) ==
  UNION {
    LET e2 == atan2(Negative(M[1][3]),
                (M[1][1] \otimes cos(e1)) \oplus (M[1][2] \otimes sin(e1)))
        e3 == atan2((M[3][1] \otimes sin(e1)) \ominus (M[3][2] \otimes cos(e1)),
                (M[2][2] \otimes cos(e1)) \ominus (M[2][1] \otimes sin(e1)))
    IN  {<<z, y, e1>> : y \in e2, z \in e3}
    : e1 \in atan2(M[1][2], M[1][1])}

\* The angles about x, y and z that may be found in a rotation.
matrix_eulerian_angle(M) ==
  UNION {
    LET e2 == atan2(Negative(M[1][3]),
                (M[1][1] \otimes cos(e1)) \oplus (M[1][2] \otimes sin(e1)))
        e3 == atan2((M[3][1] \otimes sin(e1)) \ominus (M[3][2] \otimes cos(e1)),
                (M[2][2] \otimes cos(e1)) \ominus (M[2][1] \otimes sin(e1)))
    IN  {<<Opposite(z), Opposite(y), Opposite(e1)>> : y \in e2, z \in e3}
    : e1 \in atan2(M[1][2], M[1][1])}

\* Mutant of matrix_float4x4_perspective: near and far exchanged.
perspective_reversed(aspect, tanHalf, near, far) ==
  LET yScale == One \oslash tanHalf
      zRange == near \ominus far
  IN  <<<<yScale \oslash aspect, Zero, Zero, Zero>>,
        <<Zero, yScale, Zero, Zero>>,
        <<Zero, Zero, Negative(far \oplus near) \oslash zRange, Q(-1)>>,
        <<Zero, Zero, (Q(-2) \otimes far \otimes near) \oslash zRange, Zero>>>>

\* tanHalf is tan(fovy * 0.5).
matrix_float4x4_perspective(aspect, tanHalf, near, far) ==
  LET yScale == One \oslash tanHalf
      zRange == far \ominus near
  IN  <<<<yScale \oslash aspect, Zero, Zero, Zero>>,
        <<Zero, yScale, Zero, Zero>>,
        <<Zero, Zero, Negative(far \oplus near) \oslash zRange, Q(-1)>>,
        <<Zero, Zero, (Q(-2) \otimes far \otimes near) \oslash zRange, Zero>>>>
=============================================================================
