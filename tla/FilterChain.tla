---------------------------- MODULE FilterChain ----------------------------
(***************************************************************************)
(* One pixel of a picture handed from filter to filter: each call of       *)
(* grayTrans:, binaryTrans:Threshold: or roation:angle: unpacks it into    *)
(* bytes, uploads them as a texel, runs the shader and wraps the texel as  *)
(* a new image, which may be the argument of the next call.                *)
(***************************************************************************)
EXTENDS ImageKernels

CONSTANTS
  Levels,       \* the 8-bit component values pictures are made of
  Garbage,      \* what freshly allocated memory may hold for a pixel
  Thresholds    \* the thresholds binaryTrans:Threshold: is called with

ASSUME LevelsAssumption == Levels \subseteq 0 .. 255 /\ Thresholds \subseteq Nat
ASSUME GarbageAssumption ==
  Garbage \subseteq [{"r", "g", "b", "a"} -> 0 .. 255] /\ Garbage # {}

VARIABLES
  stage,    \* "image", "uploaded", "drawn"
  filter,   \* the filter of the latest call and its threshold
  arg,      \* the color it was given
  texel,    \* the bytes of the texture the latest step filled
  image     \* the color of the image the latest finished call returned

chainVars == <<stage, filter, arg, texel, image>>

Colors == {c \in [r : Levels, g : Levels, b : Levels, a : Levels] :
             c.r <= c.a /\ c.g <= c.a /\ c.b <= c.a}

Filters == [name : {"gray", "rotate"}, threshold : {0}] \union
           [name : {"binary"}, threshold : Thresholds]

ChainInit ==
  /\ stage = "image"
  /\ image \in Colors
  /\ arg = image
  /\ filter = [name |-> "rotate", threshold |-> 0]
  /\ texel = <<0, 0, 0, 0>>

Upload ==
  /\ stage = "image"
  /\ stage' = "uploaded"
  /\ filter' \in Filters
  /\ arg' = image
  /\ IF filter'.name = "rotate"
     THEN texel' = loadImage(image)
     ELSE \E garbage \in Garbage : texel' = getImageData(image, garbage)
  /\ UNCHANGED image

Draw ==
  /\ stage = "uploaded"
  /\ stage' = "drawn"
  /\ LET in == ReadTexel(texel)
         out == CASE filter.name = "gray"   -> grayscale(in)
                  [] filter.name = "binary" -> binaryscale(in, filter.threshold)
                  [] filter.name = "rotate" -> {samplingShader(in)}
     IN  texel' \in {WriteTexel(color) : color \in out}
  /\ UNCHANGED <<filter, arg, image>>

Wrap ==
  /\ stage = "drawn"
  /\ stage' = "image"
  /\ image' = imageFromBRGABytes(texel)
  /\ UNCHANGED <<filter, arg, texel>>

ChainNext == Upload \/ Draw \/ Wrap

ChainSpec == ChainInit /\ [][ChainNext]_chainVars

----------------------------------------------------------------------------
(* Bytes and colors stay in range, whatever the chain.                     *)
ChainTypeOK ==
  /\ stage \in {"image", "uploaded", "drawn"}
  /\ filter \in Filters
  /\ texel \in (0 .. 255) \X (0 .. 255) \X (0 .. 255) \X (0 .. 255)
  /\ {arg, image} \subseteq
       [r : 0 .. 255, g : 0 .. 255, b : 0 .. 255, a : 0 .. 255]

(* roation: uploads R, G, B, A bytes into a texture that reads B, G, R, A; *)
(* the swap in samplingShader makes up for it, and loadImage draws onto    *)
(* zeroed memory, so that turning a picture, any number of times, changes  *)
(* neither the color nor the alpha of a pixel, translucent ones included.  *)
RotateKeepsColor ==
  stage = "image" /\ filter.name = "rotate" => image = arg

(* Both of these, in every state of a chain.                               *)
ColorInv == ChainTypeOK /\ RotateKeepsColor

(* grayTrans: answers an opaque gray, and one that is opaque and gray      *)
(* already comes out as it went in: neither the byte orders, nor the half  *)
(* arithmetic and its rounding, nor the memory getImageData draws onto     *)
(* makes a picture drift when the filter is applied again.                 *)
GrayIsStable ==
  stage = "image" /\ filter.name = "gray" =>
    /\ image = Gray(image.g)
    /\ arg = Gray(arg.g) => image = arg

(* A picture that binaryTrans: has made black and white comes out of       *)
(* another call as it was, whichever threshold from 1 to 254 it is given   *)
(* (0 makes everything white, above 255 everything black).                 *)
BinaryIsStable ==
  stage = "image" /\ filter.name = "binary" =>
    /\ image \in {Gray(0), Gray(255)}
    /\ arg \in {Gray(0), Gray(255)} /\ filter.threshold \in 1 .. 254
         => image = arg
=============================================================================
