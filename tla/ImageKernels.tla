---------------------------- MODULE ImageKernels ----------------------------
(***************************************************************************)
(* One pixel on its way through ImageMisc: the byte orders CoreGraphics    *)
(* and Metal give it and the shaders of ImageMisc.metal.                   *)
(*                                                                         *)
(* A color has 8-bit components, premultiplied by its alpha.  A luma is    *)
(* counted in ten-thousandths of an 8-bit level.  The shaders compute it   *)
(* in half precision, in an order the compiler chooses: a result is any    *)
(* value within HalfError of the exact one.                                *)
(***************************************************************************)
EXTENDS Integers

Opaque == 255

\* For 8-bit components no order of the half operations errs by 0.4 levels.
HalfError == 4000

\* CGContextDrawImage lays color over what the bitmap's memory holds there.
Over(color, memory) ==
  [i \in {"r", "g", "b", "a"} |->
     color[i] + ((Opaque - color.a) * memory[i] + 127) \div 255]

\* 32Big with PremultipliedLast lays a pixel out as R, G, B, A.
RGBABytes(color) == <<color.r, color.g, color.b, color.a>>

\* getImageData draws into what malloc returned, loadImage into zeroes.
getImageData(color, garbage) == RGBABytes(Over(color, garbage))
loadImage(color) == RGBABytes(Over(color, [i \in {"r", "g", "b", "a"} |-> 0]))

\* A BGRA8Unorm texture reads and writes its bytes as B, G, R, A.
ReadTexel(bytes) ==
  [b |-> bytes[1], g |-> bytes[2], r |-> bytes[3], a |-> bytes[4]]
WriteTexel(color) == <<color.b, color.g, color.r, color.a>>

\* imageFromBRGABytes: 32Little with PremultipliedFirst reads B, G, R, A.
imageFromBRGABytes(bytes) ==
  [b |-> bytes[1], g |-> bytes[2], r |-> bytes[3], a |-> bytes[4]]

\* Mutant of Luma: blue weighs what Rec 601 gives it.
LumaMixed(color) == 2126 * color.r + 7152 * color.g + 1140 * color.b

\* dot(inColor.rgb, kRec709Luma), exactly
Luma(color) == 2126 * color.r + 7152 * color.g + 722 * color.b

Gray(level) == [r |-> level, g |-> level, b |-> level, a |-> Opaque]

\* A texture stores the nearest 8-bit level, 255 at most.
Stored(luma) ==
  LET level == (luma + 5000) \div 10000
  IN  IF level > 255 THEN 255 ELSE IF level < 0 THEN 0 ELSE level

\* The colors a kernel may write for inColor.
grayscale(inColor) ==
  {Gray(v) : v \in Stored(Luma(inColor) - HalfError)
                   .. Stored(Luma(inColor) + HalfError)}

\* Mutant of binaryscale: the comparison is turned around.
binaryscaleInverted(inColor, threshold) ==
  {Gray(outval) : outval \in
     {v \in {0, 255} :
        IF v = 0 THEN Luma(inColor) + HalfError >= 10000 * threshold
                 ELSE Luma(inColor) - HalfError < 10000 * threshold}}

\* threshold is the caller's, in 8-bit levels.
binaryscale(inColor, threshold) ==
  {Gray(outval) : outval \in
     {v \in {0, 255} :
        IF v = 255 THEN Luma(inColor) + HalfError >= 10000 * threshold
                   ELSE Luma(inColor) - HalfError < 10000 * threshold}}

\* Mutant of samplingShader: the return that is commented out in the code.
samplingShaderStraight(colorSample) == colorSample

\* samplingShader: the sampled color with red and blue exchanged.
samplingShader(colorSample) ==
  [colorSample EXCEPT !.r = colorSample.b, !.b = colorSample.r]
=============================================================================
