------------------------- MODULE GraphicsResources -------------------------
(***************************************************************************)
(* Who owns what in the helpers of ImageMisc.mm and MetalContext.mm that   *)
(* work with CoreGraphics, CoreVideo and malloc, where nothing is released *)
(* unless a statement says so.  A helper is the sequence of its statements *)
(* about such objects; a thread runs one helper after another.  What the   *)
(* helpers do to a picture is the module Pictures, and Helpers runs both.  *)
(*                                                                         *)
(* Any object may be refused.  Of contents the model keeps whether the     *)
(* picture was drawn into them.  CGBitmapContextCreateImage copies, as do  *)
(* NSData and replaceRegion:.  UIKit's stack of image contexts gets an     *)
(* entry also for a context it cannot make.  malloc does not fail; the one *)
(* allocation the code checks, calloc, may.                                *)
(***************************************************************************)
EXTENDS Integers, Sequences

CONSTANT MaxLeft    \* bound: objects and contexts left over by earlier calls

ASSUME MaxLeftAssumption == MaxLeft \in Nat

VARIABLES
  helper,     \* the helper that runs, or "none"
  at,         \* its next statement
  object,     \* object[o]: "unset", "null", "live", "released" or "garbage"
  onBytes,    \* the objects of this call whose memory is its bytes
  drawn,      \* the memory of this call that holds the picture
  contexts,   \* UIKit's stack of image contexts, the current one last
  result,     \* what the latest call answered
  left,       \* left[o]: objects that finished calls did not release
  refused,    \* history: something was refused in the latest call
  turned,     \* history: calls of image:rotation:
  uncached,   \* history: textures refused by a cache that was there
  stopped     \* the process ended

call == <<helper, at>>
memory == <<object, onBytes, drawn>>
history == <<refused, turned, uncached>>
resourceVars == <<call, memory, contexts, result, left, history, stopped>>

Objects == {"colorSpace", "context", "imageRef", "bytes", "data",
            "textureCache", "metalTextureRef"}

----------------------------------------------------------------------------
(* Statements: what is done, to which object, which objects it takes, and  *)
(* which must be there for it to be reached.                               *)

Statement(do, o, takes) == [do |-> do, obj |-> o, takes |-> takes, given |-> {}]
If(o, s) == [s EXCEPT !.given = {o}]

Create(o, takes) == Statement("create", o, takes)   \* or a NULL in its place
CreateOver(o, takes) == Statement("createOver", o, takes)   \* on the bytes, if any
Malloc(o) == Statement("malloc", o, {})             \* memory, not cleared
Draw(o) == Statement("draw", o, {})                 \* the picture, into o
Release(o) == Statement("release", o, {})           \* accepts NULL
CFRelease(o) == Statement("CFRelease", o, {})       \* does not
Answer(o) == Statement("answer", o, {})             \* a copy of what o holds
HandOver(o) == Statement("handOver", o, {})         \* the caller owns o
Begin == Statement("begin", "context", {})          \* an image context
DrawCurrent == Statement("drawCurrent", "context", {})
AnswerCurrent == Statement("answerCurrent", "context", {})
End == Statement("end", "context", {})

\* Mutant of cropStatements: the image it made is not released.
cropUnreleased == <<Create("imageRef", {}), Draw("imageRef"), Answer("imageRef")>>

cropStatements ==
  <<Create("imageRef", {}), Draw("imageRef"), Answer("imageRef"), Release("imageRef")>>

\* Mutant of resizeStatements: the context is ended and then read.
resizeEndedFirst == <<Begin, DrawCurrent, End, AnswerCurrent>>

resizeStatements == <<Begin, DrawCurrent, AnswerCurrent, End>>

grayScaleStatements ==
  <<Create("colorSpace", {}), Create("context", {"colorSpace"}), Draw("context"),
    Create("imageRef", {"context"}), Answer("imageRef"),
    Release("colorSpace"), Release("context"), CFRelease("imageRef")>>

pixelsStatements == <<Create("data", {}), Draw("data"), HandOver("data")>>

\* getImageData and getGrayImageData, and the callers that free their bytes.
dataStatements ==
  <<Create("colorSpace", {}), Malloc("bytes"), CreateOver("context", {"colorSpace"}),
    Draw("context"), Release("colorSpace"), Release("context"),
    Answer("bytes"), Release("bytes")>>

\* Mutant of wrapStatements: the bytes go before the context over them.
imageFreedFirst ==
  <<Malloc("bytes"), Draw("bytes"), Create("colorSpace", {}),
    CreateOver("context", {"colorSpace"}), Create("imageRef", {"context"}),
    Release("bytes"), Release("context"), Release("colorSpace"),
    Answer("imageRef"), Release("imageRef")>>

\* The end of all three filters: getBytes: fills what malloc gave, an image
\* is made of it, the bytes are freed.
wrapStatements ==
  <<Malloc("bytes"), Draw("bytes"), Create("colorSpace", {}),
    CreateOver("context", {"colorSpace"}), Create("imageRef", {"context"}),
    Release("context"), Release("colorSpace"),
    Answer("imageRef"), Release("imageRef"), Release("bytes")>>

\* The bytes that roation:angle: uploads and frees if there are any.
loadStatements ==
  <<Create("bytes", {}), CreateOver("context", {}), Draw("context"),
    Release("context"), Answer("bytes"), If("bytes", Release("bytes"))>>

turnStatements == <<Begin, DrawCurrent, AnswerCurrent>>

\* Mutant of textureStatements: what a success leaves is released always.
textureAlwaysReleased ==
  <<Create("textureCache", {}), Create("metalTextureRef", {"textureCache"}),
    Draw("metalTextureRef"), Answer("metalTextureRef"),
    CFRelease("metalTextureRef"), CFRelease("textureCache")>>

textureStatements ==
  <<Create("textureCache", {}), Create("metalTextureRef", {"textureCache"}),
    Draw("metalTextureRef"), Answer("metalTextureRef"),
    If("metalTextureRef", CFRelease("metalTextureRef")),
    If("metalTextureRef", CFRelease("textureCache"))>>

Program ==
  [imageByCropToRect |-> cropStatements,
   imageByResizeToSize |-> resizeStatements,
   convertImageToGrayScale |-> grayScaleStatements,
   CopyImagePixels |-> pixelsStatements,
   getImageNSData |-> dataStatements,
   imageFromBRGABytes |-> wrapStatements,
   loadImage |-> loadStatements,
   imageRotation |-> turnStatements,
   textureFromPixelBuffer |-> textureStatements]

----------------------------------------------------------------------------
ResourcesInit ==
  /\ helper = "none" /\ at = 1
  /\ object = [o \in Objects |-> "unset"]
  /\ onBytes = {} /\ drawn = {}
  /\ contexts = <<>>
  /\ result = "none"
  /\ left = [o \in Objects |-> 0]
  /\ refused = FALSE /\ turned = 0 /\ uncached = 0
  /\ stopped = FALSE

Idle == helper = "none" /\ ~stopped

Call(h) ==
  /\ Idle
  /\ turned + uncached < MaxLeft
  /\ helper' = h /\ at' = 1
  /\ object' = [o \in Objects |-> "unset"]
  /\ onBytes' = {} /\ drawn' = {}
  /\ result' = "none"
  /\ refused' = FALSE
  /\ UNCHANGED <<contexts, left, turned, uncached, stopped>>

\* imageByResizeToSize with a side that is not above 0.
ResizeToNothing ==
  /\ Idle
  /\ result' = "nil" /\ refused' = TRUE
  /\ UNCHANGED <<call, memory, contexts, left, turned, uncached, stopped>>

Running == ~stopped /\ helper # "none" /\ at <= Len(Program[helper])
This == Program[helper][at]
Reached == \A o \in This.given : object[o] \notin {"unset", "null"}

Does(do) == Running /\ Reached /\ This.do = do
Goes == at' = at + 1 /\ UNCHANGED <<helper, stopped>>

Skip ==
  /\ Running /\ ~Reached
  /\ Goes
  /\ UNCHANGED <<memory, contexts, result, left, history>>

\* Where the memory of an object is.
Memory(o) == IF o \in onBytes THEN "bytes" ELSE o

Becomes(o, what) == object' = [object EXCEPT ![o] = what]

Obtain ==
  /\ \E do \in {"create", "createOver", "malloc"} : Does(do)
  /\ \A o \in This.takes : object[o] \in {"live", "garbage"}
  /\ Becomes(This.obj, "live")
  /\ onBytes' = IF This.do = "createOver" /\ object["bytes"] = "live"
                THEN onBytes \union {This.obj} ELSE onBytes
  \* An image holds what the context held that it is taken from.
  /\ drawn' = IF \E o \in This.takes : Memory(o) \in drawn
              THEN drawn \union {This.obj} ELSE drawn
  /\ Goes
  /\ UNCHANGED <<contexts, result, left, history>>

\* The status of the texture cache goes unchecked: without a cache, its
\* variable holds NULL or what the stack held there.
Refuse ==
  /\ Does("create") \/ Does("createOver")
  /\ \/ Becomes(This.obj, "null")
     \/ This.obj = "textureCache" /\ Becomes(This.obj, "garbage")
  /\ refused' = TRUE
  /\ uncached' = IF This.obj = "metalTextureRef" /\ object["textureCache"] = "live"
                 THEN uncached + 1 ELSE uncached
  /\ Goes
  /\ UNCHANGED <<onBytes, drawn, contexts, result, left, turned>>

\* Drawing into NULL does nothing.
DrawInto ==
  /\ Does("draw")
  /\ drawn' = IF object[This.obj] = "live" THEN drawn \union {Memory(This.obj)} ELSE drawn
  /\ Goes
  /\ UNCHANGED <<object, onBytes, contexts, result, left, history>>

\* What NULL is made into is nil.
AnswerCopy ==
  /\ Does("answer")
  /\ result' = CASE object[This.obj] = "null" -> "nil"
                 [] object[This.obj] = "live" ->
                      IF Memory(This.obj) \in drawn THEN "picture" ELSE "undrawn"
                 [] OTHER -> "dangling"
  /\ Goes
  /\ UNCHANGED <<memory, contexts, left, history>>

GiveAway ==
  /\ Does("handOver")
  /\ result' = IF object[This.obj] = "live" THEN "picture" ELSE "nil"
  /\ Becomes(This.obj, "released")
  /\ Goes
  /\ UNCHANGED <<onBytes, drawn, contexts, left, history>>

LetGo ==
  /\ Does("release") \/ Does("CFRelease")
  /\ \/ object[This.obj] = "live" /\ Becomes(This.obj, "released")
     \/ object[This.obj] = "null" /\ This.do = "release" /\ UNCHANGED object
     \/ object[This.obj] = "garbage" /\ UNCHANGED object
  /\ Goes
  /\ UNCHANGED <<onBytes, drawn, contexts, result, left, history>>

\* CFRelease(NULL), a second release, and the use of a pointer nobody set.
Stop ==
  /\ Running /\ Reached
  /\ \/ This.do = "CFRelease" /\ object[This.obj] # "live"
     \/ This.do = "release" /\ object[This.obj] \notin {"live", "null"}
     \/ \E o \in This.takes : object[o] = "garbage"
  /\ stopped' = TRUE
  /\ UNCHANGED <<call, memory, contexts, result, left, history>>

BeginContext ==
  /\ Does("begin")
  /\ \/ /\ contexts' = Append(contexts, [made |-> TRUE, own |-> TRUE, drawn |-> FALSE])
        /\ UNCHANGED refused
     \/ /\ contexts' = Append(contexts, [made |-> FALSE, own |-> TRUE, drawn |-> FALSE])
        /\ refused' = TRUE
  /\ turned' = IF helper = "imageRotation" THEN turned + 1 ELSE turned
  /\ Goes
  /\ UNCHANGED <<memory, result, left, uncached>>

Top == contexts[Len(contexts)]

DrawIntoCurrent ==
  /\ Does("drawCurrent")
  /\ contexts' = [contexts EXCEPT ![Len(contexts)].drawn = Top.made]
  /\ Goes
  /\ UNCHANGED <<memory, result, left, history>>

AnswerOfCurrent ==
  /\ Does("answerCurrent")
  /\ result' = CASE contexts = <<>> \/ ~Top.made -> "nil"
                 [] ~Top.own -> "another's"
                 [] OTHER -> IF Top.drawn THEN "picture" ELSE "undrawn"
  /\ Goes
  /\ UNCHANGED <<memory, contexts, left, history>>

EndContext ==
  /\ Does("end")
  /\ contexts' = SubSeq(contexts, 1, Len(contexts) - 1)
  /\ Goes
  /\ UNCHANGED <<memory, result, left, history>>

Return ==
  /\ ~stopped /\ helper # "none" /\ at > Len(Program[helper])
  /\ helper' = "none"
  /\ left' = [o \in Objects |-> IF object[o] = "live" THEN left[o] + 1 ELSE left[o]]
  /\ contexts' = [i \in DOMAIN contexts |-> [contexts[i] EXCEPT !.own = FALSE]]
  /\ UNCHANGED <<at, memory, result, history, stopped>>

ResourcesNext ==
  \/ \E h \in DOMAIN Program : Call(h)
  \/ ResizeToNothing \/ Return \/ Skip \/ Stop
  \/ Obtain \/ Refuse \/ DrawInto \/ AnswerCopy \/ GiveAway \/ LetGo
  \/ BeginContext \/ DrawIntoCurrent \/ AnswerOfCurrent \/ EndContext

ResourcesSpec == ResourcesInit /\ [][ResourcesNext]_resourceVars

----------------------------------------------------------------------------
(* Each variable holds what its declaration says.                          *)
ResourcesTypeOK ==
  /\ helper \in DOMAIN Program \union {"none"}
  /\ at \in 1 .. 11
  /\ object \in [Objects -> {"unset", "null", "live", "released", "garbage"}]
  /\ onBytes \subseteq Objects /\ drawn \subseteq Objects
  /\ contexts \in Seq([made : BOOLEAN, own : BOOLEAN, drawn : BOOLEAN])
  /\ Len(contexts) \in 0 .. MaxLeft + 1
  /\ result \in {"none", "nil", "picture", "undrawn", "dangling", "another's"}
  /\ left \in [Objects -> Nat]
  /\ refused \in BOOLEAN /\ turned \in Nat /\ uncached \in Nat
  /\ stopped \in BOOLEAN

(* Whatever is refused on the way, a call leaves nothing behind but what   *)
(* is known to stay: one image context for each image:rotation:, one cache *)
(* for each texture that a cache refused.                                  *)
OnlyKnownLeaks ==
  Idle =>
    /\ left = [o \in Objects |-> IF o = "textureCache" THEN uncached ELSE 0]
    /\ Len(contexts) = turned

(* Bytes are freed only after the context that draws on them is gone.      *)
NoDangling ==
  \A o \in onBytes : object[o] = "live" => object["bytes"] = "live"

(* The memory is well-typed, and nothing in it dangles.                    *)
MemoryInv == ResourcesTypeOK /\ NoDangling

(* A call answers with the picture unless something was refused to it, and *)
(* never with another call's, whatever contexts were left on the stack.    *)
OwnPicture ==
  Idle => /\ result \in {"none", "nil", "picture", "undrawn"}
          /\ result \in {"nil", "undrawn"} => refused

(* The process ends in two places alone: where CFRelease is given the      *)
(* image that CoreGraphics refused to a gray conversion, and where a       *)
(* texture cache is used that was never made.                              *)
StopsOnlyOnRefusal ==
  stopped => \/ helper = "convertImageToGrayScale" /\ object["imageRef"] = "null"
             \/ helper = "textureFromPixelBuffer" /\ object["textureCache"] = "garbage"
=============================================================================
