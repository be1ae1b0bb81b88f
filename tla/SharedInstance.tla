--------------------------- MODULE SharedInstance ---------------------------
(***************************************************************************)
(* The two singletons, [ImageMisc sharedInstance] and [MetalContext        *)
(* shareMetalContext]: each is built by the first thread to ask for it,    *)
(* inside dispatch_once, and the one's initializer asks for the other.     *)
(* Metal may refuse any object it is asked for; a message to nil answers   *)
(* nil, so what depends on a refused object is refused too.                *)
(*                                                                         *)
(* An object is modelled by the set of its fields that are not nil, and an *)
(* instance by the number of objects allocated by then, 0 being nil.       *)
(***************************************************************************)
EXTENDS Integers

CONSTANT Callers    \* the threads that ask for a singleton

Onces == {"misc", "context"}

\* The statements of the initializers, by the label their thread stands at.
ContextInit == {"device", "library", "queue"}
MiscInit == {"fields", "gray", "binary", "render", "vertices", "commandQueue"}
Labels == {"out", "miscOnce", "contextOnce"} \union ContextInit \union MiscInit

VARIABLES
  pc,         \* pc[c]: where thread c stands; "out" between calls
  asked,      \* asked[c]: the singleton c's latest call is for
  once,       \* once[o]: "fresh", "running" or "done"
  context,    \* the fields of the MetalContext that are not nil
  misc,       \* the fields of the ImageMisc that are not nil
  made,       \* made[o]: how many objects of the class were allocated
  instance,   \* instance[o]: the static variable that holds the singleton
  got         \* got[c]: what c's latest finished sharedInstance answered

vars == <<pc, asked, once, context, misc, made, instance, got>>

ContextFields == {"device", "library", "queue"}
MiscFields == ContextFields \union {"gray", "binary", "render", "vertices"}

Init ==
  /\ pc = [c \in Callers |-> "out"]
  /\ asked = [c \in Callers |-> "none"]
  /\ once = [o \in Onces |-> "fresh"]
  /\ context = {}
  /\ misc = {}
  /\ made = [o \in Onces |-> 0]
  /\ instance = [o \in Onces |-> 0]
  /\ got = [c \in Callers |-> 0]

Goto(c, from, to) == pc[c] = from /\ pc' = [pc EXCEPT ![c] = to]

\* Mutant of BeginOnce: the block runs while the singleton is nil.
BeginIfNil(o) ==
  /\ instance[o] = 0 /\ once[o] # "running"
  /\ once' = [once EXCEPT ![o] = "running"]

\* Mutant of EndOnce: returning nil leaves the block unfinished.
EndUnlessNil(o, object) ==
  /\ once' = [once EXCEPT ![o] = IF object = 0 THEN @ ELSE "done"]
  /\ instance' = [instance EXCEPT ![o] = object]

\* dispatch_once: the first thread to come runs the block, the others wait.
BeginOnce(o) == once[o] = "fresh" /\ once' = [once EXCEPT ![o] = "running"]
EndOnce(o, object) ==
  /\ once' = [once EXCEPT ![o] = "done"]
  /\ instance' = [instance EXCEPT ![o] = object]

Allocate(o) == made' = [made EXCEPT ![o] = @ + 1]

\* What an object may look like after Metal was asked for one more field: it
\* refuses at will, and always when something the field needs is nil.
Obtain(object, field, needed) ==
  IF needed \subseteq object THEN {object, object \union {field}} ELSE {object}

----------------------------------------------------------------------------
(* MetalContext.  shareMetalContext is public, but in the app it is called *)
(* from initImageMisc alone: AskContext is a caller the header allows.     *)

AskContext(c) ==
  /\ Goto(c, "out", "contextOnce")
  /\ asked' = [asked EXCEPT ![c] = "context"]
  /\ UNCHANGED <<once, context, misc, made, instance, got>>

BeginContext(c) ==
  /\ Goto(c, "contextOnce", "device")
  /\ BeginOnce("context")
  /\ Allocate("context")
  /\ context' = {}
  /\ UNCHANGED <<asked, misc, instance, got>>

CreateSystemDefaultDevice(c) ==
  /\ Goto(c, "device", "library")
  /\ context' \in Obtain(context, "device", {})
  /\ UNCHANGED <<asked, once, misc, made, instance, got>>

NewDefaultLibrary(c) ==
  /\ Goto(c, "library", "queue")
  /\ context' \in Obtain(context, "library", {"device"})
  /\ UNCHANGED <<asked, once, misc, made, instance, got>>

\* The last statement of the block: the context is published whatever Metal
\* refused, and its fields are not looked at.
NewCommandQueue(c) ==
  /\ Goto(c, "queue", "contextOnce")
  /\ context' \in Obtain(context, "queue", {"device"})
  /\ EndOnce("context", made["context"])
  /\ UNCHANGED <<asked, misc, made, got>>

\* shareMetalContext returns, to a caller or to initImageMisc.
ReturnContext(c) ==
  /\ once["context"] = "done"
  /\ Goto(c, "contextOnce", IF asked[c] = "misc" THEN "fields" ELSE "out")
  /\ UNCHANGED <<asked, once, context, misc, made, instance, got>>

----------------------------------------------------------------------------
(* ImageMisc                                                               *)

AskMisc(c) ==
  /\ Goto(c, "out", "miscOnce")
  /\ asked' = [asked EXCEPT ![c] = "misc"]
  /\ UNCHANGED <<once, context, misc, made, instance, got>>

BeginMisc(c) ==
  /\ Goto(c, "miscOnce", "contextOnce")
  /\ BeginOnce("misc")
  /\ Allocate("misc")
  /\ misc' = {}
  /\ UNCHANGED <<asked, context, instance, got>>

CopyDeviceAndLibrary(c) ==
  /\ Goto(c, "fields", "gray")
  /\ misc' = misc \union (context \intersect {"device", "library"})
  /\ UNCHANGED <<asked, once, context, made, instance, got>>

\* Mutant of ComputePipeline: the result is not looked at.
PipelineUnchecked(c, field, next) ==
  /\ misc' \in Obtain(misc, field, {"device", "library"})
  /\ Goto(c, field, next)
  /\ UNCHANGED <<asked, once, context, made, instance, got>>

\* A compute pipeline that Metal refuses ends the initializer with nil, and
\* the block with it.
ComputePipeline(c, field, next) ==
  /\ \/ /\ {"device", "library"} \subseteq misc
        /\ misc' = misc \union {field}
        /\ Goto(c, field, next)
        /\ UNCHANGED <<once, instance>>
     \/ /\ UNCHANGED misc
        /\ Goto(c, field, "miscOnce")
        /\ EndOnce("misc", 0)
  /\ UNCHANGED <<asked, context, made, got>>

GrayPipeline(c) == ComputePipeline(c, "gray", "binary")
BinaryPipeline(c) == ComputePipeline(c, "binary", "render")

\* The error is passed as NULL: a refused render pipeline goes unnoticed.
setupRenderPipeline(c) ==
  /\ Goto(c, "render", "vertices")
  /\ misc' \in Obtain(misc, "render", {"device", "library"})
  /\ UNCHANGED <<asked, once, context, made, instance, got>>

setupVertex(c) ==
  /\ Goto(c, "vertices", "commandQueue")
  /\ misc' \in Obtain(misc, "vertices", {"device"})
  /\ UNCHANGED <<asked, once, context, made, instance, got>>

CopyCommandQueue(c) ==
  /\ Goto(c, "commandQueue", "miscOnce")
  /\ misc' = misc \union (context \intersect {"queue"})
  /\ EndOnce("misc", made["misc"])
  /\ UNCHANGED <<asked, context, made, got>>

ReturnMisc(c) ==
  /\ once["misc"] = "done"
  /\ Goto(c, "miscOnce", "out")
  /\ got' = [got EXCEPT ![c] = instance["misc"]]
  /\ UNCHANGED <<asked, once, context, misc, made, instance>>

----------------------------------------------------------------------------
ContextStep(c) ==
  \/ BeginContext(c)
  \/ CreateSystemDefaultDevice(c)
  \/ NewDefaultLibrary(c)
  \/ NewCommandQueue(c)
  \/ ReturnContext(c)

MiscStep(c) ==
  \/ BeginMisc(c)
  \/ CopyDeviceAndLibrary(c)
  \/ GrayPipeline(c)
  \/ BinaryPipeline(c)
  \/ setupRenderPipeline(c)
  \/ setupVertex(c)
  \/ CopyCommandQueue(c)
  \/ ReturnMisc(c)

Ask(c) == AskMisc(c) \/ AskContext(c)

Next == \E c \in Callers : Ask(c) \/ ContextStep(c) \/ MiscStep(c)

\* A call that can go on goes on; nothing makes a thread call.
Fairness == \A c \in Callers : WF_vars(ContextStep(c) \/ MiscStep(c))

Spec == Init /\ [][Next]_vars /\ Fairness

----------------------------------------------------------------------------
(* Each variable holds what its declaration says.                          *)
TypeOK ==
  /\ pc \in [Callers -> Labels]
  /\ asked \in [Callers -> Onces \union {"none"}]
  /\ once \in [Onces -> {"fresh", "running", "done"}]
  /\ context \subseteq ContextFields
  /\ misc \subseteq MiscFields
  /\ made \in [Onces -> 0 .. 1]
  /\ instance \in [Onces -> 0 .. 1]
  /\ got \in [Callers -> 0 .. 1]

(* A thread that was handed an ImageMisc can run both compute filters on   *)
(* it: initialization is over, neither pipeline is missing, and device,    *)
(* library and queue are those of the shared context.  It is the only one  *)
(* there is: however many threads ask at once, no class is allocated twice.*)
HandedOutIsReady ==
  /\ \A o \in Onces : made[o] <= 1
  /\ \A c \in Callers : got[c] # 0 =>
       /\ \A d \in Callers : pc[d] \notin MiscInit
       /\ {"gray", "binary"} \subseteq misc
       /\ misc \intersect ContextFields = context

(* Once the block has run its outcome stands: no later call, by whichever  *)
(* thread, changes the singleton or its fields, and one that failed to     *)
(* come up is nil for good.                                                *)
OutcomeStands ==
  [][once["misc"] = "done" =>
       /\ UNCHANGED <<misc, context>>
       /\ instance' = instance
       /\ \A c \in Callers : got'[c] \in {got[c], instance["misc"]}]_vars

(* Whatever Metal refuses, and although the one initializer waits for the  *)
(* other's, every call returns: the two blocks wait in one order only.     *)
EveryAskReturns == \A c \in Callers : pc[c] # "out" ~> pc[c] = "out"
=============================================================================
