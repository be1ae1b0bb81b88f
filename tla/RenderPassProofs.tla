-------------------------- MODULE RenderPassProofs --------------------------
(***************************************************************************)
(* RenderPass' types, results and readback, for any callers, any sizes of  *)
(* the target and any part of ImageMisc missing.                           *)
(***************************************************************************)
EXTENDS RenderPass, TLAPS

\* Where the caller stands tells what its command buffer may have become; a
\* call in flight has loaded its texture, and gone without a command buffer
\* only where there is no queue.
Waited ==
  \A c \in Callers :
    /\ pc[c] = "loaded" => status[c] = "none"
    /\ pc[c] \in {"begun", "encoded"} => status[c] \in {"none", "notEnqueued"}
    /\ pc[c] = "waiting" => status[c] \in {"none", "committed", "completed", "error"}
    /\ pc[c] \in {"completed", "idle"} => status[c] \in {"none", "completed", "error"}
    /\ pc[c] # "idle" => source[c] # "none"
    /\ status[c] = "none" /\ source[c] # "none" /\ pc[c] # "loaded" => "queue" \notin misc

\* What the GPU leaves in a pixel it is done with.
Left(c) == IF Draws THEN source[c] ELSE "clear"

\* The pixels the GPU is done with hold what it leaves, the others what was
\* there before; a completed buffer is done with all, one never committed with
\* none.
Shaded ==
  \A c \in Callers :
    /\ \A p \in Pixels(frame[c]) :
         target[c][p] = IF p \in shaded[c] THEN Left(c) ELSE "old"
    /\ status[c] = "completed" => shaded[c] = Pixels(frame[c])
    /\ status[c] \in {"none", "notEnqueued"} => shaded[c] = {}

\* What a finished call returned is its target.
Returned ==
  \A c \in Callers : pc[c] = "idle" /\ source[c] # "none" =>
    outimg[c] = [size |-> frame[c], pixel |-> target[c]]

PassInv == TypeOK /\ Waited /\ Shaded /\ Returned

----------------------------------------------------------------------------
LEMMA InitPassInv == Init => PassInv
<1> SUFFICES ASSUME Init PROVE PassInv  OBVIOUS
<1> DEFINE size == CHOOSE s \in Frames : TRUE
<1>1. size \in Frames  BY FramesAssumption
<1>2. /\ misc \subseteq MiscFields
      /\ pc = [c \in Callers |-> "idle"]
      /\ frame = [c \in Callers |-> size]
      /\ source = [c \in Callers |-> "none"]
      /\ shaded = [c \in Callers |-> {}]
      /\ status = [c \in Callers |-> "none"]
      /\ aborted = FALSE
  BY DEF Init
<1>3. /\ target = [c \in Callers |-> Filled(frame[c], "old")]
      /\ outimg = [c \in Callers |-> [size |-> frame[c], pixel |-> target[c]]]
  BY DEF Init
<1> HIDE DEF size
<1>4. TypeOK
  <2>1. ASSUME NEW c \in Callers
        PROVE  /\ target[c] \in [Pixels(frame[c]) -> Values]
               /\ outimg[c] = [size |-> outimg[c].size, pixel |-> outimg[c].pixel]
               /\ outimg[c].pixel \in [Pixels(outimg[c].size) -> Values]
    BY <1>2, <1>3 DEF Filled, Values, Loads
  <2> QED  BY <1>1, <1>2, <1>3, <2>1 DEF TypeOK
<1>5. Shaded  BY <1>2, <1>3 DEF Shaded, Filled
<1>6. Waited /\ Returned  BY <1>2 DEF Waited, Returned
<1> QED  BY <1>4, <1>5, <1>6 DEF PassInv

(* A step that touches neither textures nor results keeps what is said of  *)
(* them.                                                                   *)
LEMMA TexturesKept ==
  ASSUME PassInv, UNCHANGED <<misc, frame, source, target, shaded, outimg, aborted>>,
         pc' \in [Callers -> {"idle", "loaded", "begun", "encoded", "waiting", "completed"}],
         status' \in [Callers ->
           {"none", "notEnqueued", "committed", "completed", "error"}]
  PROVE  TypeOK'
BY DEF PassInv, TypeOK

(* Every step keeps the invariant.                                         *)
LEMMA PassInvStep == PassInv /\ [Next]_vars => PassInv'
<1> SUFFICES ASSUME PassInv, [Next]_vars
             PROVE  TypeOK' /\ Waited' /\ Shaded' /\ Returned'
  BY DEF PassInv
<1> USE DEF PassInv, Moves
<1>1. ASSUME NEW c \in Callers, Start(c)
      PROVE  TypeOK' /\ Waited' /\ Shaded' /\ Returned'
  <2>1. PICK size \in Frames, load \in Loads :
          /\ frame' = [frame EXCEPT ![c] = size]
          /\ source' = [source EXCEPT ![c] = load]
          /\ target' = [target EXCEPT ![c] = Filled(size, "old")]
    BY <1>1 DEF Start
  <2>2. Filled(size, "old") \in [Pixels(size) -> Values]
        /\ \A p \in Pixels(size) : Filled(size, "old")[p] = "old"
    BY DEF Filled, Values, Loads
  <2>3. load # "none"  BY DEF Loads
  <2>4. TypeOK'
    <3>1. ASSUME NEW d \in Callers
          PROVE  /\ target'[d] \in [Pixels(frame'[d]) -> Values]
                 /\ shaded'[d] \subseteq Pixels(frame'[d])
                 /\ outimg'[d] = [size |-> outimg'[d].size, pixel |-> outimg'[d].pixel]
                 /\ outimg'[d].pixel \in [Pixels(outimg'[d].size) -> Values]
      <4>1. CASE d = c  BY <1>1, <2>1, <2>2, <4>1 DEF Start, TypeOK
      <4>2. CASE d # c  BY <1>1, <2>1, <4>2 DEF Start, TypeOK
      <4> QED  BY <4>1, <4>2
    <3>2. frame' \in [Callers -> Frames] /\ source' \in [Callers -> Loads \union {"none"}]
      BY <2>1 DEF TypeOK
    <3> QED  BY <1>1, <2>1, <3>1, <3>2 DEF Start, TypeOK
  <2>5. Waited'  BY <1>1, <2>1, <2>3 DEF Start, Waited, TypeOK
  <2>6. Shaded'
    <3>1. ASSUME NEW d \in Callers
          PROVE  /\ \A p \in Pixels(frame'[d]) :
                      target'[d][p] = IF p \in shaded'[d] THEN Left(d)' ELSE "old"
                 /\ status'[d] = "completed" => shaded'[d] = Pixels(frame'[d])
                 /\ status'[d] \in {"none", "notEnqueued"} => shaded'[d] = {}
      <4>1. CASE d = c  BY <1>1, <2>1, <2>2, <4>1 DEF Start, TypeOK
      <4>2. CASE d # c
        BY <1>1, <2>1, <4>2 DEF Start, TypeOK, Shaded, Left, Draws
      <4> QED  BY <4>1, <4>2
    <3> QED  BY <3>1 DEF Shaded
  <2>7. Returned'  BY <1>1, <2>1 DEF Start, Returned, TypeOK
  <2> QED  BY <2>4, <2>5, <2>6, <2>7
<1>2. ASSUME NEW c \in Callers,
             CommandBuffer(c) \/ NoCommandBuffer(c) \/ Encode(c) \/ Commit(c)
             \/ WaitUntilCompleted(c)
      PROVE  TypeOK' /\ Waited' /\ Shaded' /\ Returned'
  <2> USE <1>2 DEF CommandBuffer, NoCommandBuffer, Encode, Commit, WaitUntilCompleted
  <2>1. TypeOK'
    <3>1. pc' \in [Callers -> {"idle", "loaded", "begun", "encoded", "waiting", "completed"}]
          /\ status' \in [Callers ->
               {"none", "notEnqueued", "committed", "completed", "error"}]
      BY DEF TypeOK
    <3> QED  BY <3>1, TexturesKept
  <2>2. Waited'  BY DEF Waited, TypeOK
  <2>3. Shaded'  BY DEF Shaded, Waited, TypeOK, Left, Draws
  <2>4. Returned'
    <3>1. outimg' = outimg /\ frame' = frame /\ source' = source /\ target' = target
          /\ \A d \in Callers : pc'[d] = "idle" => pc[d] = "idle"
      BY DEF TypeOK
    <3> QED  BY <3>1 DEF Returned
  <2> QED  BY <2>1, <2>2, <2>3, <2>4
<1>3. ASSUME NEW c \in Callers, Abort(c)
      PROVE  TypeOK' /\ Waited' /\ Shaded' /\ Returned'
  BY <1>3 DEF Abort, TypeOK, Waited, Shaded, Returned, Left, Draws
<1>4. ASSUME NEW c \in Callers, GetBytes(c)
      PROVE  TypeOK' /\ Waited' /\ Shaded' /\ Returned'
  <2>1. TypeOK'
    <3>1. ASSUME NEW d \in Callers
          PROVE  /\ outimg'[d] = [size |-> outimg'[d].size, pixel |-> outimg'[d].pixel]
                 /\ outimg'[d].pixel \in [Pixels(outimg'[d].size) -> Values]
      <4>1. CASE d = c  BY <1>4, <4>1 DEF GetBytes, TypeOK
      <4>2. CASE d # c  BY <1>4, <4>2 DEF GetBytes, TypeOK
      <4> QED  BY <4>1, <4>2
    <3> QED  BY <1>4, <3>1 DEF GetBytes, TypeOK
  <2>2. Waited'  BY <1>4 DEF GetBytes, Waited, TypeOK
  <2>3. Shaded'  BY <1>4 DEF GetBytes, Shaded, Left, Draws
  <2>4. Returned'  BY <1>4 DEF GetBytes, Returned, TypeOK
  <2> QED  BY <2>1, <2>2, <2>3, <2>4
<1>5. ASSUME NEW c \in Callers, NEW p \in Pixels(frame[c]), ShadePixel(c, p)
      PROVE  TypeOK' /\ Waited' /\ Shaded' /\ Returned'
  <2>1. pc[c] = "waiting" /\ source[c] \in Loads
    BY <1>5 DEF ShadePixel, Waited, TypeOK
  <2>2. target' = [target EXCEPT ![c][p] = Left(c)]
    BY <1>5 DEF ShadePixel, Shade, passDescriptor, Left
  <2>3. Left(c) \in Values  BY <2>1 DEF Left, Values
  <2>4. target'[c] \in [Pixels(frame[c]) -> Values]
        /\ \A q \in Pixels(frame[c]) :
             target'[c][q] = IF q = p THEN Left(c) ELSE target[c][q]
    BY <2>2, <2>3 DEF TypeOK
  <2>5. \A d \in Callers : d # c => target'[d] = target[d] /\ shaded'[d] = shaded[d]
    BY <1>5, <2>2 DEF ShadePixel, TypeOK
  <2>6. shaded'[c] = shaded[c] \union {p}  BY <1>5 DEF ShadePixel, TypeOK
  <2>7. TypeOK'
    <3>1. ASSUME NEW d \in Callers
          PROVE  target'[d] \in [Pixels(frame[d]) -> Values]
                 /\ shaded'[d] \subseteq Pixels(frame[d])
      BY <1>5, <2>4, <2>5, <2>6 DEF TypeOK
    <3>2. DOMAIN target' = Callers /\ DOMAIN shaded' = Callers
      BY <1>5, <2>2 DEF ShadePixel, TypeOK
    <3> QED  BY <1>5, <3>1, <3>2 DEF ShadePixel, TypeOK
  <2>8. Waited'  BY <1>5 DEF ShadePixel, Waited
  <2>9. Shaded'
    <3>1. ASSUME NEW d \in Callers
          PROVE  /\ \A q \in Pixels(frame[d]) :
                      target'[d][q] = IF q \in shaded'[d] THEN Left(d) ELSE "old"
                 /\ status[d] = "completed" => shaded'[d] = Pixels(frame[d])
                 /\ status[d] \in {"none", "notEnqueued"} => shaded'[d] = {}
      <4>1. CASE d = c
        <5>1. status[c] = "committed"  BY <1>5 DEF ShadePixel
        <5>2. \A q \in Pixels(frame[c]) :
                target[c][q] = IF q \in shaded[c] THEN Left(c) ELSE "old"
          BY DEF Shaded
        <5> QED  BY <4>1, <5>1, <5>2, <2>4, <2>6
      <4>2. CASE d # c  BY <4>2, <2>5 DEF Shaded
      <4> QED  BY <4>1, <4>2
    <3>2. /\ frame' = frame /\ status' = status
          /\ \A d \in Callers : Left(d)' = Left(d)
      BY <1>5 DEF ShadePixel, Left, Draws
    <3> QED  BY <3>1, <3>2 DEF Shaded
  <2>10. Returned'  BY <1>5, <2>1, <2>5 DEF ShadePixel, Returned
  <2> QED  BY <2>7, <2>8, <2>9, <2>10
<1>6. ASSUME NEW c \in Callers, Complete(c) \/ Fail(c)
      PROVE  TypeOK' /\ Waited' /\ Shaded' /\ Returned'
  <2> USE <1>6 DEF Complete, Fail
  <2>1. TypeOK'
    <3>1. pc' = pc /\ status' \in [Callers ->
            {"none", "notEnqueued", "committed", "completed", "error"}]
      BY DEF TypeOK
    <3> QED  BY <3>1, TexturesKept DEF TypeOK
  <2>2. pc[c] = "waiting"  BY DEF Waited, TypeOK
  <2>3. Waited'  BY <2>2 DEF Waited, TypeOK
  <2>4. Shaded'  BY DEF Shaded, TypeOK, Left, Draws
  <2>5. Returned'
    <3>1. outimg' = outimg /\ frame' = frame /\ source' = source /\ target' = target
          /\ pc' = pc
      OBVIOUS
    <3> QED  BY <3>1 DEF Returned
  <2> QED  BY <2>1, <2>3, <2>4, <2>5
<1>7. CASE UNCHANGED vars
  BY <1>7 DEF vars, TypeOK, Waited, Shaded, Returned, Left, Draws
<1> QED  BY <1>1, <1>2, <1>3, <1>4, <1>5, <1>6, <1>7 DEF Next, Step, Device

LEMMA PassInvHolds == Spec => []PassInv
<1> QED  BY InitPassInv, PassInvStep, PTL DEF Spec

----------------------------------------------------------------------------
(* Each variable holds what its declaration says.                          *)
THEOREM TypeCorrect == Spec => []TypeOK
<1>1. PassInv => TypeOK  BY DEF PassInv
<1> QED  BY <1>1, PassInvHolds, PTL

(* A finished call's picture has the target's size and shows what was      *)
(* loaded, or the clear color; the target's old contents only where the    *)
(* GPU failed or there was no queue.                                       *)
THEOREM ResultAlwaysCorrect == Spec => []ResultCorrect
<1>1. PassInv => ResultCorrect
  <2> SUFFICES ASSUME PassInv, NEW c \in Callers, pc[c] = "idle", source[c] # "none"
               PROVE  /\ outimg[c].size = frame[c]
                      /\ \A p \in Pixels(frame[c]) : outimg[c].pixel[p] \in Expected(c)
                      /\ status[c] = "none" => "queue" \notin misc
    BY DEF ResultCorrect
  <2>1. outimg[c] = [size |-> frame[c], pixel |-> target[c]]
    BY DEF PassInv, Returned
  <2>2. status[c] \in {"none", "completed", "error"}
        /\ (status[c] = "none" => "queue" \notin misc)
    BY DEF PassInv, Waited
  <2>3. ASSUME NEW p \in Pixels(frame[c]) PROVE target[c][p] \in Expected(c)
    <3>1. target[c][p] = IF p \in shaded[c] THEN Left(c) ELSE "old"
      BY DEF PassInv, Shaded
    <3>2. CASE status[c] = "completed"
      BY <3>1, <3>2 DEF PassInv, Shaded, Expected, Left
    <3>3. CASE status[c] = "error"  BY <3>1, <3>3 DEF Expected, Left
    <3>4. CASE status[c] = "none"
      BY <3>1, <3>4 DEF PassInv, Shaded, Expected
    <3> QED  BY <2>2, <3>2, <3>3, <3>4
  <2> QED  BY <2>1, <2>2, <2>3
<1> QED  BY <1>1, PassInvHolds, PTL

(* Once a call has returned the GPU writes its target no more.             *)
THEOREM ReadbackAlwaysFinal == Spec => ReadbackIsFinal
<1> DEFINE Final == \A c \in Callers : pc[c] = "idle" /\ pc'[c] = "idle" =>
                      target'[c] = target[c]
<1>1. PassInv /\ [Next]_vars => [Final]_vars
  <2> SUFFICES ASSUME PassInv, NEW d \in Callers, NEW c \in Callers,
                      pc[c] = "idle", pc'[c] = "idle",
                      Start(d) \/ CommandBuffer(d) \/ Step(d) \/ Device(d)
               PROVE  target'[c] = target[c]
    BY DEF Next
  <2> USE DEF PassInv, TypeOK, Moves
  <2>1. CASE d # c
    BY <2>1 DEF Start, CommandBuffer, Step, NoCommandBuffer, Encode, Abort, Commit,
         WaitUntilCompleted, GetBytes, Device, ShadePixel, Complete, Fail
  <2>2. CASE d = c
    BY <2>2 DEF Start, CommandBuffer, Step, NoCommandBuffer, Encode, Abort, Commit,
         WaitUntilCompleted, GetBytes, Device, ShadePixel, Complete, Fail, Waited
  <2> QED  BY <2>1, <2>2
<1> QED  BY <1>1, PassInvHolds, PTL DEF Spec, ReadbackIsFinal
=============================================================================
