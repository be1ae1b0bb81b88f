------------------------ MODULE SharedInstanceProofs ------------------------
(***************************************************************************)
(* For any number of threads: an ImageMisc that was handed out is ready,   *)
(* and the outcome of its initialization stands.                           *)
(***************************************************************************)
EXTENDS SharedInstance, TLAPS

(* The threads inside the block of a dispatch_once.                        *)
InContext(c) == pc[c] \in ContextInit
InMisc(c) ==
  \/ pc[c] \in MiscInit
  \/ asked[c] = "misc" /\ pc[c] \in ContextInit \union {"contextOnce"}

(* A block is being run by one thread, and only while it is "running"; the *)
(* context is complete before initImageMisc looks at it.                   *)
OneRunner ==
  \A c \in Callers :
    /\ InContext(c) => /\ once["context"] = "running"
                       /\ \A d \in Callers : InContext(d) => d = c
    /\ InMisc(c) => /\ once["misc"] = "running"
                    /\ \A d \in Callers : InMisc(d) => d = c
    /\ pc[c] \in MiscInit => once["context"] = "done"
    /\ pc[c] \in MiscInit \union {"miscOnce"} => asked[c] = "misc"

(* What has become of the singletons, by the state of their blocks.        *)
Outcome ==
  /\ \A o \in Onces : once[o] = "fresh" => made[o] = 0
  /\ \A o \in Onces : once[o] # "done" => instance[o] = 0
  /\ once["misc"] = "done" => once["context"] = "done"
  /\ \A c \in Callers : got[c] # 0 => instance["misc"] # 0

(* How far the fields are filled, by the label of the thread at work.      *)
Progress ==
  /\ \A c \in Callers :
       /\ pc[c] = "fields" => misc = {}
       /\ pc[c] = "gray" =>
            misc = context \intersect {"device", "library"}
       /\ pc[c] = "binary" =>
            misc = (context \intersect {"device", "library"}) \union {"gray"}
       /\ pc[c] \in {"render", "vertices", "commandQueue"} =>
            /\ {"gray", "binary"} \subseteq misc
            /\ misc \intersect ContextFields = context \intersect {"device", "library"}
       /\ InMisc(c) /\ pc[c] \notin MiscInit => misc = {}
  /\ instance["misc"] # 0 =>
       {"gray", "binary"} \subseteq misc /\ misc \intersect ContextFields = context

OnceInv == TypeOK /\ OneRunner /\ Outcome /\ Progress

LEMMA OnceInvInit == Init => OnceInv
  BY DEF Init, OnceInv, TypeOK, OneRunner, Outcome, Progress, InContext, InMisc,
         Labels, Onces, ContextInit, MiscInit

LEMMA OnceInvStep == OnceInv /\ [Next]_vars => OnceInv'
<1> SUFFICES ASSUME OnceInv, [Next]_vars PROVE OnceInv'  OBVIOUS
<1> USE DEF OnceInv, TypeOK, Goto, Labels, Onces, ContextInit, MiscInit,
            ContextFields, MiscFields, InContext, InMisc
<1>1. ASSUME NEW c \in Callers, AskContext(c) PROVE OnceInv'
  <2>1. TypeOK'  BY <1>1 DEF AskContext, Outcome
  <2>2. OneRunner'  BY <1>1 DEF AskContext, OneRunner, Outcome
  <2>3. Outcome'  BY <1>1 DEF AskContext, OneRunner, Outcome
  <2>4. Progress'  BY <1>1 DEF AskContext, OneRunner, Outcome, Progress
  <2> QED  BY <2>1, <2>2, <2>3, <2>4
<1>2. ASSUME NEW c \in Callers, BeginContext(c) PROVE OnceInv'
  <2>1. TypeOK'  BY <1>2 DEF BeginContext, BeginOnce, Allocate, Outcome
  <2>2. OneRunner'  BY <1>2 DEF BeginContext, BeginOnce, Allocate, OneRunner, Outcome
  <2>3. Outcome'  BY <1>2 DEF BeginContext, BeginOnce, Allocate, OneRunner, Outcome
  <2>4. Progress'  BY <1>2 DEF BeginContext, BeginOnce, Allocate, OneRunner, Outcome, Progress
  <2> QED  BY <2>1, <2>2, <2>3, <2>4
<1>3. ASSUME NEW c \in Callers, CreateSystemDefaultDevice(c) PROVE OnceInv'
  <2>1. TypeOK'  BY <1>3 DEF CreateSystemDefaultDevice, Obtain, Outcome
  <2>2. OneRunner'  BY <1>3 DEF CreateSystemDefaultDevice, Obtain, OneRunner, Outcome
  <2>3. Outcome'  BY <1>3 DEF CreateSystemDefaultDevice, Obtain, OneRunner, Outcome
  <2>4. Progress'  BY <1>3 DEF CreateSystemDefaultDevice, Obtain, OneRunner, Outcome, Progress
  <2> QED  BY <2>1, <2>2, <2>3, <2>4
<1>4. ASSUME NEW c \in Callers, NewDefaultLibrary(c) PROVE OnceInv'
  <2>1. TypeOK'  BY <1>4 DEF NewDefaultLibrary, Obtain, Outcome
  <2>2. OneRunner'  BY <1>4 DEF NewDefaultLibrary, Obtain, OneRunner, Outcome
  <2>3. Outcome'  BY <1>4 DEF NewDefaultLibrary, Obtain, OneRunner, Outcome
  <2>4. Progress'  BY <1>4 DEF NewDefaultLibrary, Obtain, OneRunner, Outcome, Progress
  <2> QED  BY <2>1, <2>2, <2>3, <2>4
<1>5. ASSUME NEW c \in Callers, NewCommandQueue(c) PROVE OnceInv'
  <2>1. TypeOK'  BY <1>5 DEF NewCommandQueue, Obtain, EndOnce, Outcome
  <2>2. OneRunner'  BY <1>5 DEF NewCommandQueue, Obtain, EndOnce, OneRunner, Outcome
  <2>3. Outcome'  BY <1>5 DEF NewCommandQueue, Obtain, EndOnce, OneRunner, Outcome
  <2>4. Progress'  BY <1>5 DEF NewCommandQueue, Obtain, EndOnce, OneRunner, Outcome, Progress
  <2> QED  BY <2>1, <2>2, <2>3, <2>4
<1>6. ASSUME NEW c \in Callers, ReturnContext(c) PROVE OnceInv'
  <2>1. TypeOK'  BY <1>6 DEF ReturnContext, Outcome
  <2>2. OneRunner'  BY <1>6 DEF ReturnContext, OneRunner, Outcome
  <2>3. Outcome'  BY <1>6 DEF ReturnContext, OneRunner, Outcome
  <2>4. Progress'  BY <1>6 DEF ReturnContext, OneRunner, Outcome, Progress
  <2> QED  BY <2>1, <2>2, <2>3, <2>4
<1>7. ASSUME NEW c \in Callers, AskMisc(c) PROVE OnceInv'
  <2>1. TypeOK'  BY <1>7 DEF AskMisc, Outcome
  <2>2. OneRunner'  BY <1>7 DEF AskMisc, OneRunner, Outcome
  <2>3. Outcome'  BY <1>7 DEF AskMisc, OneRunner, Outcome
  <2>4. Progress'  BY <1>7 DEF AskMisc, OneRunner, Outcome, Progress
  <2> QED  BY <2>1, <2>2, <2>3, <2>4
<1>8. ASSUME NEW c \in Callers, BeginMisc(c) PROVE OnceInv'
  <2>1. TypeOK'  BY <1>8 DEF BeginMisc, BeginOnce, Allocate, Outcome
  <2>2. OneRunner'  BY <1>8 DEF BeginMisc, BeginOnce, Allocate, OneRunner, Outcome
  <2>3. Outcome'  BY <1>8 DEF BeginMisc, BeginOnce, Allocate, OneRunner, Outcome
  <2>4. Progress'  BY <1>8 DEF BeginMisc, BeginOnce, Allocate, OneRunner, Outcome, Progress
  <2> QED  BY <2>1, <2>2, <2>3, <2>4
<1>9. ASSUME NEW c \in Callers, CopyDeviceAndLibrary(c) PROVE OnceInv'
  <2>1. TypeOK'  BY <1>9 DEF CopyDeviceAndLibrary, Outcome
  <2>2. OneRunner'  BY <1>9 DEF CopyDeviceAndLibrary, OneRunner, Outcome
  <2>3. Outcome'  BY <1>9 DEF CopyDeviceAndLibrary, OneRunner, Outcome
  <2>4. Progress'
    <3>1. misc' = context \intersect {"device", "library"} /\ context' = context
      BY <1>9 DEF CopyDeviceAndLibrary, Progress
    <3>2. \A d \in Callers : InMisc(d) => d = c
      BY <1>9 DEF CopyDeviceAndLibrary, OneRunner
    <3>3. \A d \in Callers : d # c => ~InMisc(d)'
      BY <1>9, <3>2 DEF CopyDeviceAndLibrary
    <3>4. pc'[c] = "gray"  BY <1>9 DEF CopyDeviceAndLibrary
    <3>5. instance'["misc"] = 0
      BY <1>9 DEF CopyDeviceAndLibrary, OneRunner, Outcome
    <3> QED  BY <3>1, <3>3, <3>4, <3>5 DEF Progress
  <2> QED  BY <2>1, <2>2, <2>3, <2>4
<1>10. ASSUME NEW c \in Callers, GrayPipeline(c) PROVE OnceInv'
  <2>1. TypeOK'
    <3>1. pc' \in [Callers -> Labels] /\ misc' \subseteq MiscFields
      BY <1>10 DEF GrayPipeline, ComputePipeline
    <3>2. /\ once' \in [Onces -> {"fresh", "running", "done"}]
          /\ instance' \in [Onces -> 0 .. 1]
      BY <1>10 DEF GrayPipeline, ComputePipeline, EndOnce
    <3>3. UNCHANGED <<asked, context, made, got>>
      BY <1>10 DEF GrayPipeline, ComputePipeline
    <3> QED  BY <3>1, <3>2, <3>3
  <2>2. OneRunner'  BY <1>10 DEF GrayPipeline, ComputePipeline, EndOnce, OneRunner, Outcome
  <2>3. Outcome'  BY <1>10 DEF GrayPipeline, ComputePipeline, EndOnce, OneRunner, Outcome
  <2>4. Progress'  BY <1>10 DEF GrayPipeline, ComputePipeline, EndOnce, OneRunner, Outcome, Progress
  <2> QED  BY <2>1, <2>2, <2>3, <2>4
<1>11. ASSUME NEW c \in Callers, BinaryPipeline(c) PROVE OnceInv'
  <2>1. TypeOK'
    <3>1. pc' \in [Callers -> Labels] /\ misc' \subseteq MiscFields
      BY <1>11 DEF BinaryPipeline, ComputePipeline
    <3>2. /\ once' \in [Onces -> {"fresh", "running", "done"}]
          /\ instance' \in [Onces -> 0 .. 1]
      BY <1>11 DEF BinaryPipeline, ComputePipeline, EndOnce
    <3>3. UNCHANGED <<asked, context, made, got>>
      BY <1>11 DEF BinaryPipeline, ComputePipeline
    <3> QED  BY <3>1, <3>2, <3>3
  <2>2. OneRunner'  BY <1>11 DEF BinaryPipeline, ComputePipeline, EndOnce, OneRunner, Outcome
  <2>3. Outcome'  BY <1>11 DEF BinaryPipeline, ComputePipeline, EndOnce, OneRunner, Outcome
  <2>4. Progress'  BY <1>11 DEF BinaryPipeline, ComputePipeline, EndOnce, OneRunner, Outcome, Progress
  <2> QED  BY <2>1, <2>2, <2>3, <2>4
<1>12. ASSUME NEW c \in Callers, setupRenderPipeline(c) PROVE OnceInv'
  <2>1. TypeOK'  BY <1>12 DEF setupRenderPipeline, Obtain, Outcome
  <2>2. OneRunner'  BY <1>12 DEF setupRenderPipeline, Obtain, OneRunner, Outcome
  <2>3. Outcome'  BY <1>12 DEF setupRenderPipeline, Obtain, OneRunner, Outcome
  <2>4. Progress'  BY <1>12 DEF setupRenderPipeline, Obtain, OneRunner, Outcome, Progress
  <2> QED  BY <2>1, <2>2, <2>3, <2>4
<1>13. ASSUME NEW c \in Callers, setupVertex(c) PROVE OnceInv'
  <2>1. TypeOK'  BY <1>13 DEF setupVertex, Obtain, Outcome
  <2>2. OneRunner'  BY <1>13 DEF setupVertex, Obtain, OneRunner, Outcome
  <2>3. Outcome'  BY <1>13 DEF setupVertex, Obtain, OneRunner, Outcome
  <2>4. Progress'  BY <1>13 DEF setupVertex, Obtain, OneRunner, Outcome, Progress
  <2> QED  BY <2>1, <2>2, <2>3, <2>4
<1>14. ASSUME NEW c \in Callers, CopyCommandQueue(c) PROVE OnceInv'
  <2>1. TypeOK'  BY <1>14 DEF CopyCommandQueue, EndOnce, Outcome
  <2>2. OneRunner'  BY <1>14 DEF CopyCommandQueue, EndOnce, OneRunner, Outcome
  <2>3. Outcome'  BY <1>14 DEF CopyCommandQueue, EndOnce, OneRunner, Outcome
  <2>4. Progress'
    <3>1. /\ {"gray", "binary"} \subseteq misc
          /\ misc \intersect ContextFields = context \intersect {"device", "library"}
      BY <1>14 DEF CopyCommandQueue, Progress
    <3>2. misc' = misc \union (context \intersect {"queue"}) /\ context' = context
      BY <1>14 DEF CopyCommandQueue
    <3>3. {"gray", "binary"} \subseteq misc' /\ misc' \intersect ContextFields = context'
      BY <3>1, <3>2
    <3>4. \A d \in Callers : ~InMisc(d)'
      BY <1>14 DEF CopyCommandQueue, OneRunner
    <3> QED  BY <3>3, <3>4 DEF Progress
  <2> QED  BY <2>1, <2>2, <2>3, <2>4
<1>15. ASSUME NEW c \in Callers, ReturnMisc(c) PROVE OnceInv'
  <2>1. TypeOK'  BY <1>15 DEF ReturnMisc, Outcome
  <2>2. OneRunner'  BY <1>15 DEF ReturnMisc, OneRunner, Outcome
  <2>3. Outcome'  BY <1>15 DEF ReturnMisc, OneRunner, Outcome
  <2>4. Progress'  BY <1>15 DEF ReturnMisc, OneRunner, Outcome, Progress
  <2> QED  BY <2>1, <2>2, <2>3, <2>4
<1>16. CASE UNCHANGED vars
  BY <1>16 DEF vars, OneRunner, Outcome, Progress
<1> QED
  BY <1>1, <1>2, <1>3, <1>4, <1>5, <1>6, <1>7, <1>8, <1>9, <1>10, <1>11, <1>12, <1>13, <1>14, <1>15, <1>16 DEF Next, Ask, ContextStep, MiscStep

LEMMA OnceInvHolds == Spec => []OnceInv
  BY OnceInvInit, OnceInvStep, PTL DEF Spec

(* Each variable holds what its declaration says.                          *)
THEOREM TypeCorrect == Spec => []TypeOK
<1>1. OnceInv => TypeOK  BY DEF OnceInv
<1> QED  BY <1>1, OnceInvHolds, PTL

(* An ImageMisc that any thread was handed out has both pipelines and the  *)
(* fields of the shared context, nobody is still initializing it, and no   *)
(* class was allocated twice.                                              *)
THEOREM AlwaysReady == Spec => []HandedOutIsReady
<1>1. OnceInv => HandedOutIsReady
  <2>0. OnceInv => \A o \in Onces : made[o] <= 1  BY DEF OnceInv, TypeOK
  <2> SUFFICES ASSUME OnceInv, NEW c \in Callers, got[c] # 0
               PROVE  /\ \A d \in Callers : pc[d] \notin MiscInit
                      /\ {"gray", "binary"} \subseteq misc
                      /\ misc \intersect ContextFields = context
    BY <2>0 DEF HandedOutIsReady
  <2>1. instance["misc"] # 0  BY DEF OnceInv, Outcome
  <2>2. once["misc"] = "done"  BY <2>1 DEF OnceInv, TypeOK, Outcome, Onces
  <2>3. \A d \in Callers : pc[d] \notin MiscInit
    BY <2>2 DEF OnceInv, OneRunner, InMisc
  <2> QED  BY <2>1, <2>3 DEF OnceInv, Progress
<1> QED  BY <1>1, OnceInvHolds, PTL

(* Once the block of ImageMisc is over, a step only asks or returns.       *)
LEMMA SettledStep ==
  OnceInv /\ [Next]_vars /\ once["misc"] = "done" =>
    /\ UNCHANGED <<once, context, misc, made, instance>>
    /\ \A c \in Callers : got'[c] \in {got[c], instance["misc"]}
<1> SUFFICES ASSUME OnceInv, Next, once["misc"] = "done"
             PROVE  /\ UNCHANGED <<once, context, misc, made, instance>>
                    /\ \A c \in Callers : got'[c] \in {got[c], instance["misc"]}
  BY DEF vars
<1>1. PICK c \in Callers : Ask(c) \/ ContextStep(c) \/ MiscStep(c)  BY DEF Next
<1>2. once["context"] = "done" /\ ~InContext(c) /\ ~InMisc(c)
  BY DEF OnceInv, Outcome, OneRunner
<1>3. Ask(c) \/ ReturnContext(c) \/ ReturnMisc(c)
  BY <1>1, <1>2 DEF ContextStep, MiscStep, BeginContext, BeginMisc, BeginOnce,
       CreateSystemDefaultDevice, NewDefaultLibrary, NewCommandQueue,
       CopyDeviceAndLibrary, GrayPipeline, BinaryPipeline, ComputePipeline,
       setupRenderPipeline, setupVertex, CopyCommandQueue, Goto,
       InContext, InMisc, ContextInit, MiscInit
<1> QED
  BY <1>3 DEF Ask, AskMisc, AskContext, ReturnContext, ReturnMisc,
       OnceInv, TypeOK

(* After the block has run nothing changes the singleton or its fields,    *)
(* and nothing but the singleton is answered.                              *)
THEOREM OutcomeAlwaysStands == Spec => OutcomeStands
<1>1. OnceInv /\ [Next]_vars =>
        [once["misc"] = "done" =>
           /\ UNCHANGED <<misc, context>>
           /\ instance' = instance
           /\ \A c \in Callers : got'[c] \in {got[c], instance["misc"]}]_vars
  BY SettledStep
<1> QED  BY <1>1, OnceInvHolds, PTL DEF Spec, OutcomeStands
=============================================================================
