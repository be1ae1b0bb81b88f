---------------------------- MODULE ComputePass ----------------------------
(***************************************************************************)
(* grayTrans: and binaryTrans:Threshold: of ImageMisc.mm with the compute  *)
(* kernels of ImageMisc.metal: the calling thread uploads the picture into *)
(* two textures, encodes one dispatch, commits it, waits, and copies the   *)
(* result back, while the GPU runs the dispatch's threads in any order,    *)
(* also between the steps of other callers of the shared instance, which   *)
(* share its command queue and the few command buffers that can give out.  *)
(*                                                                         *)
(* A picture is [size |-> <<width, height>>, texel |-> ...].  Its size is  *)
(* both [srcImg size] and the size of its CGImage (scale 1, upright), and  *)
(* is not empty.  Textures that Metal refuses to allocate are left out.    *)
(***************************************************************************)
EXTENDS Integers, FiniteSets

CONSTANTS
  Callers,          \* threads that call the shared ImageMisc instance
  Texels,           \* values of one texel
  Pictures,         \* the pictures they pass
  Jobs,             \* the operations, a threshold being part of the operation
  Kernel,           \* Kernel[job][t]: what the kernel writes where it reads t
  ExecutionWidth,   \* per job, the pipeline's threadExecutionWidth
  MaxThreads,       \* per job, its maxTotalThreadsPerThreadgroup
  QueueLimit        \* command buffers the queue can have unfinished

Pixels(size) == (0 .. size[1] - 1) \X (0 .. size[2] - 1)

IsPicture(p) ==
  /\ p = [size |-> p.size, texel |-> p.texel]
  /\ p.size \in (Nat \ {0}) \X (Nat \ {0})
  /\ p.texel \in [Pixels(p.size) -> Texels]

ASSUME PicturesAssumption == Pictures # {} /\ \A p \in Pictures : IsPicture(p)
ASSUME KernelAssumption == Jobs # {} /\ Kernel \in [Jobs -> [Texels -> Texels]]
\* Metal reports a maximum that holds at least one row of the execution width.
ASSUME PipelineAssumption ==
  /\ ExecutionWidth \in [Jobs -> Nat \ {0}]
  /\ MaxThreads \in [Jobs -> Nat \ {0}]
  /\ \A job \in Jobs : MaxThreads[job] >= ExecutionWidth[job]

\* newCommandQueue leaves the limit to Metal, which sets it to 64.
ASSUME QueueAssumption == QueueLimit \in Nat \ {0}

VARIABLES
  pc,            \* pc[c]: where the call of c stands; "idle" between calls
  call,          \* call[c]: the arguments of c's latest call
  srcTexture,    \* srcTexture[c], destTexture[c]: the textures of that call
  destTexture,
  status,        \* status[c]: the status of its command buffer, if any
  ran,           \* ran[c]: the threads of its dispatch that have run
  outimg         \* outimg[c]: the picture the latest finished call returned

vars == <<pc, call, srcTexture, destTexture, status, ran, outimg>>

----------------------------------------------------------------------------
(* The dispatch: groups of GroupShape threads, enough to cover the picture *)

\* Mutant of CeilDiv: a last, partial group is left out.
CeilDivDown(n, d) == n \div d

CeilDiv(n, d) == (n + d - 1) \div d

GroupShape(job) ==
  <<ExecutionWidth[job], MaxThreads[job] \div ExecutionWidth[job]>>

Groups(job, size) ==
  LET g == GroupShape(job)
  IN  (0 .. CeilDiv(size[1], g[1]) - 1) \X (0 .. CeilDiv(size[2], g[2]) - 1)

Lanes(job) ==
  LET g == GroupShape(job) IN (0 .. g[1] - 1) \X (0 .. g[2] - 1)

Dispatch(job, size) == Groups(job, size) \X Lanes(job)

\* thread_position_in_grid of thread t = <<group, lane>>.
Gid(job, t) ==
  LET g == GroupShape(job)
  IN  <<t[1][1] * g[1] + t[2][1], t[1][2] * g[2] + t[2][2]>>

\* One kernel invocation: only a position inside outTexture is written.
RunKernel(job, gid, inTexture, outTexture) ==
  IF gid \in DOMAIN outTexture
  THEN [outTexture EXCEPT ![gid] = Kernel[job][inTexture[gid]]]
  ELSE outTexture

----------------------------------------------------------------------------
Init ==
  LET job == CHOOSE j \in Jobs : TRUE
      picture == CHOOSE p \in Pictures : TRUE
  IN  /\ pc = [c \in Callers |-> "idle"]
      /\ call = [c \in Callers |-> [job |-> job, picture |-> picture]]
      /\ srcTexture = [c \in Callers |-> picture.texel]
      /\ destTexture = [c \in Callers |-> picture.texel]
      /\ status = [c \in Callers |-> "none"]
      /\ ran = [c \in Callers |-> {}]
      /\ outimg = [c \in Callers |-> picture]

Moves(c, from, to) == pc[c] = from /\ pc' = [pc EXCEPT ![c] = to]

\* Mutant of Upload: the destination keeps what its memory held.
UploadSource(c, picture) ==
  /\ srcTexture' = [srcTexture EXCEPT ![c] = picture.texel]
  /\ destTexture' = [destTexture EXCEPT ![c] =
       [p \in Pixels(picture.size) |-> CHOOSE t \in Texels : TRUE]]

\* Both textures receive the source picture before the dispatch is encoded.
Upload(c, picture) ==
  /\ srcTexture' = [srcTexture EXCEPT ![c] = picture.texel]
  /\ destTexture' = [destTexture EXCEPT ![c] = picture.texel]

Start(c) ==
  /\ Moves(c, "idle", "uploaded")
  /\ \E job \in Jobs, picture \in Pictures :
        /\ call' = [call EXCEPT ![c] = [job |-> job, picture |-> picture]]
        /\ Upload(c, picture)
  /\ status' = [status EXCEPT ![c] = "none"]
  /\ ran' = [ran EXCEPT ![c] = {}]
  /\ UNCHANGED outimg

\* The command buffers that take a place of the queue.
Unfinished == {c \in Callers : status[c] \in {"notEnqueued", "committed"}}

\* [_commandQueue commandBuffer] blocks while every place is taken.
Encode(c) ==
  /\ Cardinality(Unfinished) < QueueLimit
  /\ Moves(c, "uploaded", "encoded")
  /\ status' = [status EXCEPT ![c] = "notEnqueued"]
  /\ UNCHANGED <<call, srcTexture, destTexture, ran, outimg>>

Commit(c) ==
  /\ Moves(c, "encoded", "waiting")
  /\ status' = [status EXCEPT ![c] = "committed"]
  /\ UNCHANGED <<call, srcTexture, destTexture, ran, outimg>>

\* Mutant of WaitUntilCompleted: waitUntilScheduled in its place.
WaitUntilScheduled(c) ==
  /\ status[c] \in {"committed", "completed", "error"}
  /\ Moves(c, "waiting", "completed")
  /\ UNCHANGED <<call, srcTexture, destTexture, status, ran, outimg>>

\* Mutant of WaitUntilCompleted: waits for success.
WaitUntilSucceeded(c) ==
  /\ status[c] = "completed"
  /\ Moves(c, "waiting", "completed")
  /\ UNCHANGED <<call, srcTexture, destTexture, status, ran, outimg>>

\* waitUntilCompleted returns on success and on failure alike, and the code
\* does not look at which of the two it was.
WaitUntilCompleted(c) ==
  /\ status[c] \in {"completed", "error"}
  /\ Moves(c, "waiting", "completed")
  /\ UNCHANGED <<call, srcTexture, destTexture, status, ran, outimg>>

GetBytes(c) ==
  /\ Moves(c, "completed", "idle")
  /\ outimg' = [outimg EXCEPT ![c] = [size |-> call[c].picture.size,
                                      texel |-> destTexture[c]]]
  /\ UNCHANGED <<call, srcTexture, destTexture, status, ran>>

----------------------------------------------------------------------------
(* The GPU: the threads of a committed dispatch run in any order; it may   *)
(* also fail a command buffer at any point before its completion.          *)

Threads(c) == Dispatch(call[c].job, call[c].picture.size)

RunThread(c, t) ==
  /\ status[c] = "committed"
  /\ t \in Threads(c) \ ran[c]
  /\ ran' = [ran EXCEPT ![c] = @ \union {t}]
  /\ destTexture' =
       [destTexture EXCEPT ![c] =
          RunKernel(call[c].job, Gid(call[c].job, t), srcTexture[c], @)]
  /\ UNCHANGED <<pc, call, srcTexture, status, outimg>>

Complete(c) ==
  /\ status[c] = "committed"
  /\ ran[c] = Threads(c)
  /\ status' = [status EXCEPT ![c] = "completed"]
  /\ UNCHANGED <<pc, call, srcTexture, destTexture, ran, outimg>>

Fail(c) ==
  /\ status[c] = "committed"
  /\ status' = [status EXCEPT ![c] = "error"]
  /\ UNCHANGED <<pc, call, srcTexture, destTexture, ran, outimg>>

Step(c) == Commit(c) \/ WaitUntilCompleted(c) \/ GetBytes(c)
Device(c) == (\E t \in Threads(c) : RunThread(c, t)) \/ Complete(c) \/ Fail(c)

Next == \E c \in Callers : Start(c) \/ Encode(c) \/ Step(c) \/ Device(c)

\* A started call goes on, the GPU finishes or fails what was committed, and
\* the queue gives a place that came free to whoever has waited for it;
\* nothing makes a thread start a call.
Fairness ==
  \A c \in Callers : SF_vars(Encode(c)) /\ WF_vars(Step(c)) /\ WF_vars(Device(c))

Spec == Init /\ [][Next]_vars /\ Fairness

----------------------------------------------------------------------------
(* Each variable holds what its declaration says.                          *)
TypeOK ==
  /\ pc \in [Callers -> {"idle", "uploaded", "encoded", "waiting", "completed"}]
  /\ call \in [Callers -> [job : Jobs, picture : Pictures]]
  /\ status \in [Callers ->
        {"none", "notEnqueued", "committed", "completed", "error"}]
  /\ DOMAIN srcTexture = Callers /\ DOMAIN destTexture = Callers
  /\ DOMAIN ran = Callers /\ DOMAIN outimg = Callers
  /\ \A c \in Callers :
       /\ srcTexture[c] \in [Pixels(call[c].picture.size) -> Texels]
       /\ destTexture[c] \in [Pixels(call[c].picture.size) -> Texels]
       /\ ran[c] \subseteq Threads(c)
       /\ IsPicture(outimg[c])

(* The picture a finished call returned has the size of the one it was     *)
(* given, and every texel of it went through the kernel, those that the    *)
(* thread groups only partly cover at the right and lower edges included;  *)
(* if the command buffer failed, each texel is processed or untouched.     *)
ResultCorrect ==
  \A c \in Callers : pc[c] = "idle" /\ status[c] # "none" =>
    LET source == call[c].picture
        K == Kernel[call[c].job]
    IN  /\ outimg[c].size = source.size
        /\ \A p \in Pixels(source.size) :
             outimg[c].texel[p] \in IF status[c] = "completed"
                                    THEN {K[source.texel[p]]}
                                    ELSE {K[source.texel[p]], source.texel[p]}

(* Once a call has returned the GPU writes its texture no more: nothing is *)
(* lost between the readback and the last thread of the dispatch.          *)
ReadbackIsFinal ==
  [][\A c \in Callers : pc[c] = "idle" /\ pc'[c] = "idle" =>
        destTexture'[c] = destTexture[c]]_vars

(* Every call returns, whether the GPU completes its work or gives up, and *)
(* however few command buffers the callers have to share.                  *)
EveryCallReturns == \A c \in Callers : pc[c] # "idle" ~> pc[c] = "idle"

(* The calls are those of ImageOp: busy from upload to readback, and       *)
(* healthy until the command buffer fails.                                 *)
Abs == INSTANCE ImageOp WITH
  phase   <- [c \in Callers |-> IF pc[c] = "idle" THEN "idle" ELSE "busy"],
  request <- call,
  healthy <- [c \in Callers |-> status[c] # "error"],
  reply   <- outimg

RefinesImageOp == Abs!OpSpec
=============================================================================
