--------------------------- MODULE MCComputePass ---------------------------
(***************************************************************************)
(* ComputePass on pictures of a few texels, for TLC.                       *)
(***************************************************************************)
EXTENDS ComputePass

CONSTANTS gray                  \* the job
CONSTANTS red, blue             \* the colors of a source picture
CONSTANTS light, dark           \* what grayscale makes of them

MCTexels == {red, blue, light, dark}
MCKernel ==
  [job \in Jobs |-> [t \in MCTexels |->
     CASE t = red -> light [] t = blue -> dark [] OTHER -> t]]

\* A picture whose columns alternate between the two colors.
Striped(w, h) ==
  [size |-> <<w, h>>,
   texel |-> [p \in Pixels(<<w, h>>) |-> IF p[1] % 2 = 0 THEN red ELSE blue]]

\* Groups of 2 x 1, from a maximum that is no multiple of its width.
MCWidth == [job \in Jobs |-> 2]
MCThreads == [job \in Jobs |-> 3]

\* A group and a rest.
MCPictures == {Striped(3, 1)}
=============================================================================
