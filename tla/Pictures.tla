------------------------------ MODULE Pictures ------------------------------
(***************************************************************************)
(* Points and pixels: a UIImage has a size in points, turned as its        *)
(* orientation says and divided by its scale; its CGImage has a size in    *)
(* pixels.  The filters of ImageMisc.mm make textures of the one size and  *)
(* fill them from bytes of the other; the helpers mix the two as well.     *)
(* The result of one call is the argument of the next.                     *)
(***************************************************************************)
EXTENDS Integers

CONSTANTS
  Sizes,     \* sizes in pixels of the pictures to begin with
  Scales,    \* their scales
  Rects      \* sizes given to imageByCropToRect and imageByResizeToSize

ASSUME SizesAssumption == Sizes \subseteq (Nat \ {0}) \X (Nat \ {0})
ASSUME RectsAssumption == Rects \subseteq Nat \X Nat
ASSUME ScalesAssumption == Scales \subseteq Nat \ {0}

VARIABLES
  picture,   \* [pixels, scale, turned, space, content]
  by,        \* what made it: "file", "filter" or "helper"
  read,      \* the bytes that the latest upload read up to, and had
  ended      \* the process ended

vars == <<picture, by, read, ended>>

Swapped(size) == <<size[2], size[1]>>

\* [image size], in units of 1 / scale; turned by 90 degrees either way.
Size(p) == IF p.turned THEN Swapped(p.pixels) ELSE p.pixels

\* A CGFloat becomes a whole number by truncation, a context's by rounding up.
Points(p) == <<Size(p)[1] \div p.scale, Size(p)[2] \div p.scale>>
PointsUp(p) == <<(Size(p)[1] + p.scale - 1) \div p.scale,
                 (Size(p)[2] + p.scale - 1) \div p.scale>>

----------------------------------------------------------------------------
(* The upload of a filter                                                  *)

\* Mutant of BytesPerRow: the width of the CGImage.
BytesPerRowPixels(p, name) == 4 * p.pixels[1]

\* Mutant of BytesPerRow: rows begin at multiples of 16.
BytesPerRowAligned(p, name) == 16 * ((Points(p)[1] + 3) \div 4)

\* The compute filters take the texture's width, roation:angle: the image's,
\* which may be no whole number of points.
BytesPerRow(p, name) ==
  IF name = "rotate" THEN (4 * Size(p)[1]) \div p.scale ELSE 4 * Points(p)[1]

\* Texels of the texture, and where in the bytes each is read.
Texels(p) == (0 .. Points(p)[1] - 1) \X (0 .. Points(p)[2] - 1)
Offset(p, name, t) == t[2] * BytesPerRow(p, name) + 4 * t[1]

InPlace(p, name) ==
  /\ Points(p) = p.pixels
  /\ \A t \in Texels(p) : Offset(p, name, t) = 4 * (t[2] * p.pixels[1] + t[1])

\* loadImage asks for a context of four components in the picture's own color
\* space: for a gray one there is none, and its bytes stay 0.
Uploaded(p, name) ==
  IF name = "rotate" /\ p.space = "gray" THEN "blank"
  ELSE IF ~InPlace(p, name) THEN "skewed"
  ELSE IF p.turned /\ p.content = "kept" THEN "lying" ELSE p.content

\* Mutant of Wrapped: the image gets the scale of the argument.
WrappedScaled(size, content) ==
  [pixels |-> size, scale |-> picture.scale, turned |-> FALSE, space |-> "rgb",
   content |-> content]

\* imageFromBRGABytes: scale 1, upright, device RGB.
Wrapped(size, content) ==
  [pixels |-> size, scale |-> 1, turned |-> FALSE, space |-> "rgb",
   content |-> content]

Filter(name, frame) ==
  /\ ~ended
  /\ Texels(picture) # {}
  /\ picture' = Wrapped(frame, Uploaded(picture, name))
  /\ by' = "filter"
  /\ read' = [end |-> Offset(picture, name, <<Points(picture)[1], Points(picture)[2] - 1>>),
              have |-> 4 * picture.pixels[1] * picture.pixels[2]]
  /\ UNCHANGED ended

\* grayTrans: and binaryTrans:Threshold: treat sizes alike.
compute == Filter("compute", Points(picture))
roation == \E quarter \in BOOLEAN :
  Filter("rotate", IF quarter THEN Swapped(Points(picture)) ELSE Points(picture))

\* Metal makes no texture without a side, CoreGraphics no context.
EmptyTexture ==
  /\ ~ended
  /\ Texels(picture) = {}
  /\ ended' = TRUE
  /\ UNCHANGED <<picture, by, read>>

----------------------------------------------------------------------------
(* The helpers                                                             *)

Helper(p) ==
  /\ ~ended
  /\ picture' = p
  /\ by' = "helper"
  /\ UNCHANGED <<read, ended>>

\* What the rectangle, at the origin, has of the pixels; scale and orientation
\* are kept.  From an empty one nothing comes that could be passed on.
imageByCropToRect == \E rect \in Rects :
  LET Cut(i) == IF rect[i] < picture.pixels[i] THEN rect[i] ELSE picture.pixels[i]
  IN  /\ rect[1] > 0 /\ rect[2] > 0
      /\ Helper([picture EXCEPT !.pixels = <<Cut(1), Cut(2)>>])

\* UIKit draws the image upright, in pixels of its scale.
Resized(rect) ==
  [picture EXCEPT !.pixels = <<rect[1] * picture.scale, rect[2] * picture.scale>>,
                  !.turned = FALSE, !.space = "rgb"]

imageByResizeToSize == \E rect \in Rects :
  rect[1] > 0 /\ rect[2] > 0 /\ Helper(Resized(rect))

\* What CGContextDrawImage makes of a picture: it knows no orientation.
DrawnFlat(p) == IF p.turned /\ p.content = "kept" THEN "lying" ELSE p.content

convertImageToGrayScale ==
  /\ Texels(picture) # {}
  /\ Helper([pixels |-> Points(picture), scale |-> 1, turned |-> FALSE,
             space |-> "gray", content |-> DrawnFlat(picture)])

\* Turned to the right the picture is drawn beside its frame (see Rotation).
imageRotation == \E orientation \in {"up", "down", "left", "right"} :
  Helper([pixels |-> IF orientation \in {"left", "right"}
                     THEN Swapped(PointsUp(picture)) ELSE PointsUp(picture),
          scale |-> 1, turned |-> FALSE, space |-> "rgb",
          content |-> IF orientation = "right" THEN "blank" ELSE DrawnFlat(picture)])

----------------------------------------------------------------------------
Init ==
  /\ picture \in [pixels : Sizes, scale : Scales, turned : BOOLEAN,
                  space : {"rgb", "gray"}, content : {"kept"}]
  /\ by = "file"
  /\ read = [end |-> 0, have |-> 0]
  /\ ended = FALSE

Next ==
  \/ compute \/ roation \/ EmptyTexture
  \/ imageByCropToRect \/ imageByResizeToSize
  \/ convertImageToGrayScale \/ imageRotation

Spec == Init /\ [][Next]_vars

----------------------------------------------------------------------------
(* Each variable holds what its declaration says.                          *)
TypeOK ==
  /\ picture \in [pixels : (Nat \ {0}) \X (Nat \ {0}), scale : Scales \union {1},
                  turned : BOOLEAN, space : {"rgb", "gray"},
                  content : {"kept", "lying", "skewed", "blank"}]
  /\ by \in {"file", "filter", "helper"}
  /\ read \in [end : Nat, have : Nat]
  /\ ended \in BOOLEAN

(* Although texture and bytes have different sizes, and the rotation's     *)
(* rows a width that need not be whole, no upload reads past the bytes:    *)
(* at any scale and orientation, of whatever a chain of calls returned.    *)
ReadsInside == read.end <= read.have

(* Each pixel of an upright picture of scale 1 is read where it lies; only *)
(* the rotation of a gray one is lost.                                     *)
UprightKept ==
  [][by' = "filter" /\ picture.scale = 1 /\ ~picture.turned =>
       \/ picture'.content = picture.content
       \/ picture'.content = "blank" /\ picture.space = "gray"]_vars

(* Scale and orientation do their damage once: what a filter returned, the *)
(* next filter takes as it is, and with all its pixels.                    *)
FilteredKept ==
  [][by = "filter" /\ by' = "filter" =>
       /\ picture'.content = picture.content
       /\ picture'.pixels \in {picture.pixels, Swapped(picture.pixels)}]_vars
=============================================================================
