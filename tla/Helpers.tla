------------------------------ MODULE Helpers ------------------------------
(***************************************************************************)
(* The helpers of ImageMisc.mm, called one after another: the statements   *)
(* of GraphicsResources, and at the end of a call that was refused nothing *)
(* it needs, the picture of Pictures that it answers with.  The next call  *)
(* gets that picture; after an answer of nil it gets the same again.       *)
(***************************************************************************)
EXTENDS GraphicsResources, Pictures

HelpersInit == ResourcesInit /\ Init

Quiet == UNCHANGED vars

\* A filter whose textures have no side does not come to its end.
Begins ==
  /\ ~ended
  /\ \E h \in DOMAIN Program :
       /\ Call(h)
       /\ h = "imageFromBRGABytes" => Texels(picture) # {}
  /\ Quiet

NoTexture == Idle /\ EmptyTexture /\ UNCHANGED resourceVars

\* A context without a side is refused.
Granted ==
  /\ Obtain
  /\ helper = "convertImageToGrayScale" /\ This.obj = "context" => Texels(picture) # {}

Works ==
  /\ ~ended
  /\ \/ ResizeToNothing \/ Granted \/ Refuse \/ Skip \/ Stop
     \/ DrawInto \/ AnswerCopy \/ GiveAway \/ LetGo
     \/ BeginContext \/ DrawIntoCurrent \/ AnswerOfCurrent \/ EndContext
  /\ Quiet

\* The picture that a finished helper answers with; imageFromBRGABytes is the
\* end of a filter.
Makes(h) ==
  \/ h = "imageByCropToRect" /\ imageByCropToRect
  \/ h = "imageByResizeToSize" /\ imageByResizeToSize
  \/ h = "convertImageToGrayScale" /\ convertImageToGrayScale
  \/ h = "imageRotation" /\ imageRotation
  \/ h = "imageFromBRGABytes" /\ (compute \/ roation)

\* The others answer with bytes or a texture.
Makers == {"imageByCropToRect", "imageByResizeToSize", "convertImageToGrayScale",
           "imageRotation", "imageFromBRGABytes"}

Returns ==
  /\ Return
  /\ IF result = "picture" /\ helper \in Makers THEN Makes(helper) ELSE Quiet

HelpersNext == Begins \/ NoTexture \/ Works \/ Returns

HelpersSpec == HelpersInit /\ [][HelpersNext]_<<resourceVars, vars>>
=============================================================================
