----------------------------- MODULE RenderPass -----------------------------
(***************************************************************************)
(* How roation:angle: of ImageMisc.mm gets its result: the calling thread  *)
(* loads the picture into a texture, encodes one render pass into a new    *)
(* target, commits, waits and reads the target back, while the GPU clears  *)
(* and shades the target's pixels in any order.  Callers share the command *)
(* queue and an ImageMisc whose render pipeline, vertex buffer or queue    *)
(* may have been refused without a word when it was made.                  *)
(*                                                                         *)
(* What the pass draws where is the matter of Rotation; here a pixel drawn *)
(* holds what the texture was loaded with.  Textures are not refused.      *)
(***************************************************************************)
EXTENDS Integers, FiniteSets

CONSTANTS
  Callers,       \* threads that call the shared ImageMisc instance
  Frames,        \* the sizes their targets have
  QueueLimit     \* command buffers the queue can have unfinished

ASSUME FramesAssumption == Frames # {} /\ Frames \subseteq (Nat \ {0}) \X (Nat \ {0})
ASSUME QueueAssumption == QueueLimit \in Nat \ {0}

VARIABLES
  misc,        \* which of pipeline, vertices and queue ImageMisc has
  pc,          \* pc[c]: where the call of c stands; "idle" between calls
  frame,       \* frame[c]: the size of the target of c's latest call
  source,      \* source[c]: what its texture was loaded with
  target,      \* target[c]: what each pixel of its target holds
  shaded,      \* shaded[c]: the pixels the GPU is done with
  status,      \* status[c]: the status of its command buffer, if any
  outimg,      \* outimg[c]: the picture the latest finished call returned
  aborted      \* Metal ended the process

vars == <<misc, pc, frame, source, target, shaded, status, outimg, aborted>>

MiscFields == {"render", "vertices", "queue"}

\* "none" before the first call.  "blank": loadImage got no context for the
\* picture's color space.  "old": it got no memory, and nothing was loaded.
Loads == {"picture", "blank", "old"}

Pixels(size) == (0 .. size[1] - 1) \X (0 .. size[2] - 1)
Filled(size, value) == [p \in Pixels(size) |-> value]

Init ==
  /\ misc \in SUBSET MiscFields
  /\ pc = [c \in Callers |-> "idle"]
  /\ frame = [c \in Callers |-> CHOOSE size \in Frames : TRUE]
  /\ source = [c \in Callers |-> "none"]
  /\ target = [c \in Callers |-> Filled(frame[c], "old")]
  /\ shaded = [c \in Callers |-> {}]
  /\ status = [c \in Callers |-> "none"]
  /\ outimg = [c \in Callers |-> [size |-> frame[c], pixel |-> target[c]]]
  /\ aborted = FALSE

Moves(c, from, to) ==
  /\ ~aborted
  /\ pc[c] = from
  /\ pc' = [pc EXCEPT ![c] = to]

----------------------------------------------------------------------------
(* The calling thread                                                      *)

Start(c) ==
  /\ Moves(c, "idle", "loaded")
  /\ \E size \in Frames, load \in Loads :
       /\ frame' = [frame EXCEPT ![c] = size]
       /\ source' = [source EXCEPT ![c] = load]
       /\ target' = [target EXCEPT ![c] = Filled(size, "old")]
  /\ shaded' = [shaded EXCEPT ![c] = {}]
  /\ status' = [status EXCEPT ![c] = "none"]
  /\ UNCHANGED <<misc, outimg, aborted>>

Unfinished == {c \in Callers : status[c] \in {"notEnqueued", "committed"}}

\* commandBuffer blocks while every place of the queue is taken.
CommandBuffer(c) ==
  /\ "queue" \in misc
  /\ Cardinality(Unfinished) < QueueLimit
  /\ Moves(c, "loaded", "begun")
  /\ status' = [status EXCEPT ![c] = "notEnqueued"]
  /\ UNCHANGED <<misc, frame, source, target, shaded, outimg, aborted>>

\* Without a queue the command buffer is nil, and so is all that it is asked.
NoCommandBuffer(c) ==
  /\ "queue" \notin misc
  /\ Moves(c, "loaded", "begun")
  /\ UNCHANGED <<misc, frame, source, target, shaded, status, outimg, aborted>>

\* Mutant of passDescriptor: what the target held is not cleared.
passUncleared == [loadAction |-> "dontCare", storeAction |-> "store"]

passDescriptor == [loadAction |-> "clear", storeAction |-> "store"]

Encode(c) ==
  /\ Moves(c, "begun", "encoded")
  /\ UNCHANGED <<misc, frame, source, target, shaded, status, outimg, aborted>>

\* Metal may end a process that encodes a draw without a pipeline.
Abort(c) ==
  /\ ~aborted
  /\ pc[c] = "begun" /\ status[c] # "none" /\ "render" \notin misc
  /\ aborted' = TRUE
  /\ UNCHANGED <<misc, pc, frame, source, target, shaded, status, outimg>>

Commit(c) ==
  /\ Moves(c, "encoded", "waiting")
  /\ status' = [status EXCEPT ![c] = IF @ = "none" THEN @ ELSE "committed"]
  /\ UNCHANGED <<misc, frame, source, target, shaded, outimg, aborted>>

\* Mutant of WaitUntilCompleted: waitUntilScheduled in its place.
WaitUntilScheduled(c) ==
  /\ Moves(c, "waiting", "completed")
  /\ UNCHANGED <<misc, frame, source, target, shaded, status, outimg, aborted>>

\* Mutant of WaitUntilCompleted: waits for success.
WaitUntilSucceeded(c) ==
  /\ status[c] = "completed"
  /\ Moves(c, "waiting", "completed")
  /\ UNCHANGED <<misc, frame, source, target, shaded, status, outimg, aborted>>

\* Returns on success and failure alike, and at once for nil.
WaitUntilCompleted(c) ==
  /\ status[c] \in {"none", "completed", "error"}
  /\ Moves(c, "waiting", "completed")
  /\ UNCHANGED <<misc, frame, source, target, shaded, status, outimg, aborted>>

GetBytes(c) ==
  /\ Moves(c, "completed", "idle")
  /\ outimg' = [outimg EXCEPT ![c] = [size |-> frame[c], pixel |-> target[c]]]
  /\ UNCHANGED <<misc, frame, source, target, shaded, status, aborted>>

----------------------------------------------------------------------------
(* The GPU                                                                 *)

\* Without a pipeline, or without vertices, a draw draws nothing.
Draws == {"render", "vertices"} \subseteq misc

\* What a pixel holds when the GPU is done with it.
Shade(c, p) ==
  IF Draws THEN source[c]
  ELSE IF passDescriptor.loadAction = "clear" THEN "clear" ELSE target[c][p]

ShadePixel(c, p) ==
  /\ ~aborted
  /\ status[c] = "committed"
  /\ p \in Pixels(frame[c]) \ shaded[c]
  /\ shaded' = [shaded EXCEPT ![c] = @ \union {p}]
  /\ target' = [target EXCEPT ![c][p] =
       IF passDescriptor.storeAction = "store" THEN Shade(c, p) ELSE @]
  /\ UNCHANGED <<misc, pc, frame, source, status, outimg, aborted>>

Complete(c) ==
  /\ ~aborted
  /\ status[c] = "committed"
  /\ shaded[c] = Pixels(frame[c])
  /\ status' = [status EXCEPT ![c] = "completed"]
  /\ UNCHANGED <<misc, pc, frame, source, target, shaded, outimg, aborted>>

Fail(c) ==
  /\ ~aborted
  /\ status[c] = "committed"
  /\ status' = [status EXCEPT ![c] = "error"]
  /\ UNCHANGED <<misc, pc, frame, source, target, shaded, outimg, aborted>>

----------------------------------------------------------------------------
Step(c) ==
  \/ NoCommandBuffer(c) \/ Encode(c) \/ Abort(c)
  \/ Commit(c) \/ WaitUntilCompleted(c) \/ GetBytes(c)
Device(c) ==
  \/ \E p \in Pixels(frame[c]) : ShadePixel(c, p)
  \/ Complete(c) \/ Fail(c)

Next == \E c \in Callers : Start(c) \/ CommandBuffer(c) \/ Step(c) \/ Device(c)

\* As in ComputePass.
Fairness ==
  \A c \in Callers :
    SF_vars(CommandBuffer(c)) /\ WF_vars(Step(c)) /\ WF_vars(Device(c))

Spec == Init /\ [][Next]_vars /\ Fairness

----------------------------------------------------------------------------
(* Each variable holds what its declaration says.                          *)
Values == Loads \union {"clear"}
TypeOK ==
  /\ misc \subseteq MiscFields
  /\ pc \in [Callers -> {"idle", "loaded", "begun", "encoded", "waiting", "completed"}]
  /\ frame \in [Callers -> Frames]
  /\ source \in [Callers -> Loads \union {"none"}]
  /\ status \in [Callers ->
        {"none", "notEnqueued", "committed", "completed", "error"}]
  /\ DOMAIN target = Callers /\ DOMAIN shaded = Callers /\ DOMAIN outimg = Callers
  /\ \A c \in Callers :
       /\ target[c] \in [Pixels(frame[c]) -> Values]
       /\ shaded[c] \subseteq Pixels(frame[c])
       /\ outimg[c] = [size |-> outimg[c].size, pixel |-> outimg[c].pixel]
       /\ outimg[c].pixel \in [Pixels(outimg[c].size) -> Values]
  /\ aborted \in BOOLEAN

\* What the pixels of a finished call's result may hold.
Expected(c) ==
  CASE status[c] = "completed" -> {IF Draws THEN source[c] ELSE "clear"}
    [] status[c] = "error"     -> {IF Draws THEN source[c] ELSE "clear", "old"}
    [] OTHER                   -> {"old"}

(* A finished call's picture has the target's size, and shows in every     *)
(* pixel what was loaded.  Without a pipeline or vertices it is all of the *)
(* clear color, never the target's old contents; only a GPU failure leaves *)
(* some of those, and only a missing queue all of them.                    *)
ResultCorrect ==
  \A c \in Callers : pc[c] = "idle" /\ source[c] # "none" =>
    /\ outimg[c].size = frame[c]
    /\ \A p \in Pixels(frame[c]) : outimg[c].pixel[p] \in Expected(c)
    /\ status[c] = "none" => "queue" \notin misc

(* Once a call has returned the GPU writes its target no more.             *)
ReadbackIsFinal ==
  [][\A c \in Callers : pc[c] = "idle" /\ pc'[c] = "idle" =>
        target'[c] = target[c]]_vars

(* Every call returns unless Metal ends the process: also without a queue, *)
(* without a pipeline, and when the GPU fails.                             *)
EveryCallReturns == \A c \in Callers : pc[c] # "idle" ~> pc[c] = "idle" \/ aborted

=============================================================================
