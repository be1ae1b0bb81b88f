------------------------ MODULE ViewControllerProofs ------------------------
(***************************************************************************)
(* For any number of taps, whatever Metal refuses and wherever the GPU     *)
(* fails: what is shown is what the button promises, or has its reason.    *)
(* Of the singletons the proofs use what SharedInstanceProofs shows for    *)
(* any threads.                                                            *)
(***************************************************************************)
EXTENDS ViewController, TLAPS

Shared == INSTANCE SharedInstanceProofs WITH Callers <- {"main"}

(* Where the main thread stands, in the application and in sharedInstance. *)
MainThread ==
  /\ pc["main"] # "out" => stage \in {"loading", "asking"}
  /\ stage # "launch" =>
       /\ asked["main"] = "misc"
       /\ pc["main"] = "out" => once["misc"] = "done" /\ got["main"] = instance["misc"]
  /\ stage \notin {"launch", "loading"} => once["misc"] = "done"
  /\ stage \in {"launch", "loading"} => current = 0 /\ shown.tap = 0
  /\ stage \in {"asking", "filtered", "network"} => current > 0

AppInv ==
  /\ Shared!OnceInv
  /\ TypeOK
  /\ MainThread
  /\ ShownHasReason
  /\ stage = "filtered" => Explained(current, result)
----------------------------------------------------------------------------
(* What the main thread does with the singletons is a step of theirs.      *)
LEMMA AskIsShared == Single!AskMisc("main") => Shared!Next
  BY DEF Single!AskMisc, Single!Goto, Shared!Next, Shared!Ask, Shared!AskMisc,
         Shared!Goto

(* In the initializer of MetalContext.                                     *)
LEMMA ContextStepIsShared == Single!ContextStep("main") => Shared!Next
<1> SUFFICES ASSUME Single!ContextStep("main") PROVE Shared!ContextStep("main")
  BY DEF Shared!Next
<1> QED
  BY DEF Single!ContextStep, Shared!ContextStep, Single!BeginContext,
         Shared!BeginContext, Single!CreateSystemDefaultDevice,
         Shared!CreateSystemDefaultDevice, Single!NewDefaultLibrary,
         Shared!NewDefaultLibrary, Single!NewCommandQueue,
         Shared!NewCommandQueue, Single!ReturnContext, Shared!ReturnContext,
         Single!Goto, Shared!Goto, Single!BeginOnce, Shared!BeginOnce,
         Single!EndOnce, Shared!EndOnce, Single!Allocate, Shared!Allocate,
         Single!Obtain, Shared!Obtain

(* In sharedInstance and the initializer of ImageMisc.                     *)
LEMMA MiscStepIsShared == Single!MiscStep("main") => Shared!Next
<1> SUFFICES ASSUME Single!MiscStep("main") PROVE Shared!MiscStep("main")
  BY DEF Shared!Next
<1> QED
  BY DEF Single!MiscStep, Shared!MiscStep, Single!BeginMisc, Shared!BeginMisc,
         Single!CopyDeviceAndLibrary, Shared!CopyDeviceAndLibrary,
         Single!GrayPipeline, Shared!GrayPipeline, Single!BinaryPipeline,
         Shared!BinaryPipeline, Single!ComputePipeline,
         Shared!ComputePipeline, Single!setupRenderPipeline,
         Shared!setupRenderPipeline, Single!setupVertex, Shared!setupVertex,
         Single!CopyCommandQueue, Shared!CopyCommandQueue, Single!ReturnMisc,
         Shared!ReturnMisc, Single!Goto, Shared!Goto, Single!BeginOnce,
         Shared!BeginOnce, Single!EndOnce, Shared!EndOnce, Single!Allocate,
         Shared!Allocate, Single!Obtain, Shared!Obtain

(* To the singletons every other step of the application is a stuttering.  *)
LEMMA SharedStep == [Next]_vars => [Shared!Next]_(Shared!vars)
<1>1. UNCHANGED single => UNCHANGED Shared!vars
  BY DEF single, Shared!vars
<1>2. viewDidLoad \/ TouchUp => Shared!Next
  BY AskIsShared DEF viewDidLoad, TouchUp
<1>3. InSharedInstance => Shared!Next
  BY ContextStepIsShared, MiscStepIsShared DEF InSharedInstance
<1> QED
  BY <1>1, <1>2, <1>3 DEF Next, Handler, Loaded, Filter, FilterFails, FilterAborts, setImage,
     RunInferenceOnImage, InferenceAborts, Display, Tap, vars

(* So their invariant is the application's.                                *)
LEMMA SharedInvStep == AppInv /\ [Next]_vars => Shared!OnceInv'
  BY SharedStep, Shared!OnceInvStep!: DEF AppInv

(* Once viewDidLoad is over, the singletons are what they will be.         *)
LEMMA SettledForGood ==
  AppInv /\ [Next]_vars /\ once["misc"] = "done" =>
    UNCHANGED <<once, context, misc, made, instance>>
  BY SharedStep, Shared!SettledStep!: DEF AppInv
----------------------------------------------------------------------------
(* Every variable keeps its type.                                          *)
LEMMA TypesStep == AppInv /\ [Next]_vars => TypeOK'
<1> SUFFICES ASSUME AppInv, [Next]_vars PROVE TypeOK'  OBVIOUS
<1> USE MaxTapsAssumption
<1>1. Single!TypeOK'
  BY SharedInvStep DEF Shared!OnceInv,
     Shared!TypeOK, Single!TypeOK, Shared!Labels, Single!Labels,
     Shared!Onces, Single!Onces, Shared!ContextInit, Single!ContextInit,
     Shared!MiscInit, Single!MiscInit, Shared!ContextFields,
     Single!ContextFields, Shared!MiscFields, Single!MiscFields
<1>2. TypeOK  BY DEF AppInv
<1>3. /\ taps' \in Seq(Buttons) /\ Len(taps') <= MaxTaps
      /\ current' \in 0 .. Len(taps')
      /\ failed' \subseteq 1 .. current'
      /\ current <= current'
  <2>0. /\ taps \in Seq(Buttons) /\ Len(taps) \in Nat /\ Len(taps) <= MaxTaps
        /\ current \in 0 .. Len(taps) /\ failed \subseteq 1 .. current
    BY <1>2 DEF TypeOK
  <2>1. ASSUME NEW button \in Buttons, Tap(button)
        PROVE  /\ taps' \in Seq(Buttons) /\ Len(taps') = Len(taps) + 1
               /\ Len(taps) < MaxTaps /\ UNCHANGED <<current, failed>>
    BY <2>0, <2>1 DEF Tap
  <2>2. CASE TouchUp  BY <2>0, <2>2 DEF TouchUp
  <2>3. CASE FilterFails
    <3>1. current > 0  BY <2>3 DEF AppInv, MainThread, FilterFails, Moves
    <3> QED  BY <2>0, <2>3, <3>1 DEF FilterFails
  <2>4. CASE UNCHANGED queue  BY <2>0, <2>4 DEF queue
  <2>5. CASE \E button \in Buttons : Tap(button)
    <3>1. PICK button \in Buttons : Tap(button)  BY <2>5
    <3>2. /\ taps' \in Seq(Buttons) /\ Len(taps') = Len(taps) + 1
          /\ Len(taps) < MaxTaps /\ UNCHANGED <<current, failed>>
      BY <2>1, <3>1
    <3> HIDE <3>1
    <3> QED  BY <2>0, <3>2
  <2> QED
    BY <2>2, <2>3, <2>4, <2>5 DEF Next, Handler, viewDidLoad,
       InSharedInstance, Loaded, Filter, FilterFails, FilterAborts, setImage,
       RunInferenceOnImage, InferenceAborts, Display, vars
<1>5. stage' \in Stages /\ ended' \in BOOLEAN
  BY <1>2 DEF TypeOK, Stages, Moves, After, Next, Handler, viewDidLoad,
     InSharedInstance, Loaded, TouchUp, Filter, FilterFails, FilterAborts, setImage,
     RunInferenceOnImage, InferenceAborts, Display, Tap, vars
<1>6. result' \in Pictures
  <2>1. CASE Filter
    <3>1. stage = "asking"  BY <2>1 DEF Filter, Moves
    <3>2. current \in 1 .. Len(taps)  BY <1>2, <3>1 DEF AppInv, MainThread, TypeOK
    <3>3. taps[current] \in Buttons  BY <1>2, <3>2 DEF TypeOK
    <3> QED
      BY <2>1, <3>3 DEF Filter, Answer, Buttons, FilterOf, Makes, Pictures
  <2>2. CASE FilterFails  BY <2>2 DEF FilterFails, Pictures
  <2>3. CASE result' = result  BY <1>2, <2>3 DEF TypeOK
  <2> QED
    BY <2>1, <2>2, <2>3 DEF Next, Handler, viewDidLoad, InSharedInstance,
       Loaded, TouchUp, FilterAborts, setImage, RunInferenceOnImage,
       InferenceAborts, Display, Tap, vars
<1>7. {shown', screen'} \subseteq [tap : 0 .. current', picture : Pictures]
  <2>0. \A p \in [tap : 0 .. current, picture : Pictures] :
          p \in [tap : 0 .. current', picture : Pictures]
    BY <1>2, <1>3 DEF TypeOK
  <2>1. CASE viewDidLoad
    BY <1>2, <1>3, <2>0, <2>1 DEF viewDidLoad, Apple, TypeOK, Pictures
  <2>2. CASE setImage
    BY <1>2, <2>0, <2>2 DEF setImage, TypeOK, queue
  <2>3. CASE shown' = shown /\ screen' \in {shown, screen}
    BY <1>2, <2>0, <2>3 DEF TypeOK
  <2> QED
    BY <2>1, <2>2, <2>3 DEF Next, Handler, InSharedInstance, Loaded,
       TouchUp, Filter, FilterFails, FilterAborts, RunInferenceOnImage, InferenceAborts,
       Display, Tap, vars, view
<1> QED  BY <1>1, <1>3, <1>5, <1>6, <1>7 DEF TypeOK
----------------------------------------------------------------------------
(* Only the main thread asks, always for ImageMisc, and it waits for the   *)
(* answer: where it stands in the one module fits the other.               *)
LEMMA MainThreadStep == AppInv /\ [Next]_vars => MainThread'
<1> SUFFICES ASSUME AppInv, [Next]_vars PROVE MainThread'  OBVIOUS
<1>1. /\ MainThread
      /\ pc \in [{"main"} -> Shared!Labels]
      /\ asked \in [{"main"} -> Shared!Onces \union {"none"}]
      /\ got \in [{"main"} -> 0 .. 1]
  BY DEF AppInv, Shared!OnceInv, Shared!TypeOK
<1>2. CASE viewDidLoad
  BY <1>1, <1>2 DEF viewDidLoad, Moves, MainThread, Single!AskMisc, Single!Goto, Apple, queue
<1>3. CASE TouchUp
  <2>1. current \in Nat  BY DEF AppInv, TypeOK
  <2> QED
    BY <1>1, <1>3, <2>1 DEF TouchUp, Moves, MainThread, Single!AskMisc, Single!Goto
<1>4. CASE InSharedInstance
  <2>1. UNCHANGED <<stage, current, shown>>  BY <1>4 DEF InSharedInstance, queue, view
  <2>2. pc["main"] # "out" /\ asked' = asked
    BY <1>4 DEF InSharedInstance, Single!ContextStep, Single!BeginContext,
       Single!CreateSystemDefaultDevice, Single!NewDefaultLibrary,
       Single!NewCommandQueue, Single!ReturnContext, Single!MiscStep,
       Single!BeginMisc, Single!CopyDeviceAndLibrary, Single!GrayPipeline,
       Single!BinaryPipeline, Single!ComputePipeline,
       Single!setupRenderPipeline, Single!setupVertex,
       Single!CopyCommandQueue, Single!ReturnMisc, Single!Goto
  <2>3. stage \in {"loading", "asking"} /\ asked["main"] = "misc"
    BY <1>1, <2>2 DEF MainThread
  <2>4. pc'["main"] = "out" => once'["misc"] = "done" /\ got'["main"] = instance'["misc"]
    BY <1>1, <1>4, <2>3 DEF InSharedInstance, Single!ContextStep, Single!BeginContext,
       Single!CreateSystemDefaultDevice, Single!NewDefaultLibrary,
       Single!NewCommandQueue, Single!ReturnContext, Single!MiscStep,
       Single!BeginMisc, Single!CopyDeviceAndLibrary, Single!GrayPipeline,
       Single!BinaryPipeline, Single!ComputePipeline,
       Single!setupRenderPipeline, Single!setupVertex,
       Single!CopyCommandQueue, Single!ReturnMisc, Single!Goto
  <2>5. once["misc"] = "done" => once' = once  BY SettledForGood
  <2> QED  BY <1>1, <2>1, <2>2, <2>3, <2>4, <2>5 DEF MainThread
<1>5. CASE /\ UNCHANGED <<pc, asked, once, instance, got, current>>
           /\ \/ UNCHANGED <<stage, shown>>
              \/ Loaded \/ Filter \/ FilterFails \/ setImage \/ RunInferenceOnImage
  BY <1>1, <1>5 DEF MainThread, Loaded, Filter, FilterFails, setImage, RunInferenceOnImage,
     Moves, Answered, After, view
<1> QED
  BY <1>2, <1>3, <1>4, <1>5 DEF Next, Handler, Loaded, Filter, FilterFails, FilterAborts,
     setImage, RunInferenceOnImage, InferenceAborts, Display, Tap, vars, single,
     queue, view
----------------------------------------------------------------------------
(* The n-th tap was the n-th tap, and its reason remains one.              *)
LEMMA ExplainedForGood ==
  ASSUME AppInv, [Next]_vars, stage \notin {"launch", "loading"},
         NEW n \in 1 .. current, NEW picture, Explained(n, picture)
  PROVE  Explained(n, picture)'
<1>1. once["misc"] = "done"  BY DEF AppInv, MainThread
<1>2. UNCHANGED <<misc, instance>>  BY <1>1, SettledForGood
<1>3. taps \in Seq(Buttons) /\ n \in 1 .. Len(taps)  BY DEF AppInv, TypeOK
<1>4. taps'[n] = taps[n]
  <2>1. ASSUME NEW button \in Buttons, Tap(button) PROVE taps'[n] = taps[n]
    BY <1>3, <2>1 DEF Tap
  <2> QED
    BY <2>1 DEF Next, Handler, viewDidLoad, InSharedInstance, Loaded, TouchUp,
       Filter, FilterFails, FilterAborts, setImage, RunInferenceOnImage,
       InferenceAborts, Display, vars, queue
<1>5. failed \subseteq failed'
  BY DEF Next, Handler, viewDidLoad, InSharedInstance, Loaded, TouchUp, Filter,
     FilterFails, FilterAborts, setImage, RunInferenceOnImage, InferenceAborts,
     Display, Tap, vars, queue
<1> QED  BY <1>2, <1>4, <1>5 DEF Explained

(* The filter a handler calls is the one its button promises: what it      *)
(* answers has its reason.                                                 *)
LEMMA AnswerExplained ==
  ASSUME AppInv, stage = "asking", Answered
  PROVE  Explained(current, Answer(FilterOf[taps[current]]))
<1>1. got["main"] = instance["misc"]
  BY DEF AppInv, MainThread, Answered
<1>2. current \in 1 .. Len(taps) /\ taps \in Seq(Buttons)
  BY DEF AppInv, MainThread, TypeOK
<1>3. taps[current] \in {"gray", "rotate", "binary"}  BY <1>2 DEF Buttons
<1> QED
  BY <1>1, <1>3 DEF Answer, HasQueue, FilterOf, Makes, Explained, Promised

(* What a filter hands to setImage: has its reason already.                *)
LEMMA FilteredStep ==
  AppInv /\ [Next]_vars => (stage = "filtered" => Explained(current, result))'
<1> SUFFICES ASSUME AppInv, [Next]_vars, stage' = "filtered"
             PROVE  Explained(current, result)'
  OBVIOUS
<1>1. CASE Filter
  <2>1. /\ stage = "asking" /\ Answered
        /\ result' = Answer(FilterOf[taps[current]])
        /\ UNCHANGED <<misc, instance, current, taps, failed>>
    BY <1>1 DEF Filter, Moves, single, queue
  <2>2. Explained(current, result')  BY <2>1, AnswerExplained
  <2> QED  BY <2>1, <2>2 DEF Explained
<1>2. CASE FilterFails
  BY <1>2 DEF FilterFails, Explained
<1>3. CASE stage = "filtered" /\ UNCHANGED <<result, current>>
  <2>1. Explained(current, result)  BY <1>3 DEF AppInv
  <2>2. current \in 1 .. current
    BY <1>3 DEF AppInv, MainThread, TypeOK
  <2>3. \A n \in 1 .. current, picture \in {result} :
          Explained(n, picture) => Explained(n, picture)'
    BY <1>3, ExplainedForGood
  <2> QED  BY <1>3, <2>1, <2>2, <2>3 DEF Explained
<1> QED
  BY <1>1, <1>2, <1>3 DEF Next, Handler, viewDidLoad, InSharedInstance, Loaded,
     TouchUp, FilterAborts, setImage, RunInferenceOnImage, InferenceAborts,
     Display, Tap, Moves, After, vars, queue

(* What is shown has its reason, and no later step takes it away.          *)
LEMMA ReasonStep == AppInv /\ [Next]_vars => ShownHasReason'
<1> SUFFICES ASSUME AppInv, [Next]_vars PROVE ShownHasReason'  OBVIOUS
<1>1. /\ ShownHasReason /\ MainThread
      /\ current \in Nat /\ shown.tap \in 0 .. current
  BY DEF AppInv, TypeOK
<1>2. ASSUME NEW n \in {shown.tap}, NEW picture \in {shown.picture}, n > 0
      PROVE  Explained(n, picture)'
  <2>1. stage \notin {"launch", "loading"}  BY <1>1, <1>2 DEF MainThread
  <2>2. Explained(n, picture)  BY <1>1, <1>2 DEF ShownHasReason
  <2>3. n \in 1 .. current  BY <1>1, <1>2
  <2> QED  BY <2>1, <2>2, <2>3, ExplainedForGood
<1>3. CASE viewDidLoad
  BY <1>1, <1>3 DEF viewDidLoad, Moves, Apple, ShownHasReason, MainThread, queue
<1>4. CASE TouchUp
  <2>1. /\ stage = "idle" /\ stage' = "asking" /\ shown' = shown
        /\ current' = current + 1
    BY <1>4 DEF TouchUp, Moves, view
  <2>2. shown.tap = current  BY <1>1, <2>1 DEF ShownHasReason
  <2> QED  BY <1>1, <1>2, <2>1, <2>2 DEF ShownHasReason, Explained
<1>5. CASE setImage
  <2>1. /\ stage = "filtered" /\ stage' \in {"network", "idle"}
        /\ shown' = [tap |-> current, picture |-> result]
        /\ UNCHANGED <<current, taps, failed, misc, instance>>
    BY <1>5 DEF setImage, Moves, After, queue, single
  <2>2. Explained(current, result)  BY <2>1 DEF AppInv
  <2> QED  BY <2>1, <2>2 DEF ShownHasReason, Explained
<1>6. CASE /\ UNCHANGED <<current, shown>>
           /\ \/ stage' = stage
              \/ Loaded \/ Filter \/ FilterFails \/ RunInferenceOnImage
  <2>1. stage # "launch" =>
          shown.tap = IF stage \in {"asking", "filtered"} THEN current - 1
                      ELSE current
    BY <1>1 DEF ShownHasReason
  <2> QED
    BY <1>1, <1>2, <1>6, <2>1 DEF ShownHasReason, Explained, Loaded, Filter,
       FilterFails, RunInferenceOnImage, Moves
<1> QED
  BY <1>3, <1>4, <1>5, <1>6 DEF Next, Handler, InSharedInstance, Loaded, Filter,
     FilterFails, FilterAborts, RunInferenceOnImage, InferenceAborts, Display,
     Tap, vars, queue, view

----------------------------------------------------------------------------
(* At launch nothing is shown and no tap is there.                         *)
LEMMA AppInvInit == Init => AppInv
<1> SUFFICES ASSUME Init PROVE AppInv  OBVIOUS
<1>1. Shared!OnceInv
  <2>1. Shared!Init
    BY DEF Init, Single!Init, Shared!Init, Single!Onces, Shared!Onces
  <2> QED  BY <2>1, Shared!OnceInvInit!:
<1>2. Single!TypeOK
  BY <1>1 DEF Shared!OnceInv,
     Shared!TypeOK, Single!TypeOK, Shared!Labels, Single!Labels,
     Shared!Onces, Single!Onces, Shared!ContextInit, Single!ContextInit,
     Shared!MiscInit, Single!MiscInit, Shared!ContextFields,
     Single!ContextFields, Shared!MiscFields, Single!MiscFields
<1>3. TypeOK
  <2>1. /\ taps \in Seq(Buttons) /\ Len(taps) = 0
        /\ current = 0 /\ failed \subseteq 1 .. current
    BY DEF Init
  <2>2. Len(taps) <= MaxTaps /\ current \in 0 .. Len(taps)
    BY <2>1, MaxTapsAssumption
  <2>3. {shown, screen} \subseteq [tap : 0 .. current, picture : Pictures]
    BY DEF Init, Pictures
  <2> QED  BY <1>2, <2>1, <2>2, <2>3 DEF Init, TypeOK, Stages, Pictures
<1> QED
  BY <1>1, <1>3 DEF Init, AppInv, MainThread, ShownHasReason,
     Single!Init

(* The invariant is inductive.                                             *)
LEMMA AppInvHolds == Spec => []AppInv
<1>1. AppInv /\ [Next]_vars => AppInv'
  BY SharedInvStep, TypesStep, MainThreadStep, FilteredStep,
     ReasonStep DEF AppInv
<1> QED  BY <1>1, AppInvInit, PTL DEF Spec

(* Each variable holds what its declaration says, and neither the tap a    *)
(* handler runs for nor the one the view shows is ahead of the taps.       *)
THEOREM TypeCorrect == Spec => []TypeOK
<1>1. AppInv => TypeOK  BY DEF AppInv
<1> QED  BY <1>1, AppInvHolds, PTL

(* At any tap, what is shown is the picture its button promises, or what   *)
(* Metal refused, or the GPU's failure under that tap, says why it is not. *)
THEOREM ShownAlwaysHasReason == Spec => []ShownHasReason
<1>1. AppInv => ShownHasReason  BY DEF AppInv
<1> QED  BY <1>1, AppInvHolds, PTL

(* The application's steps are steps of the singletons', or stutter there: *)
(* the safety part of UsesSingletons.                                      *)
THEOREM StepsAreSingletons == Spec => Single!Init /\ [][Single!Next]_(Single!vars)
<1>1. Init => Single!Init  BY DEF Init
<1>2. [Next]_vars => [Single!Next]_(Single!vars)
  <2>1. UNCHANGED single => UNCHANGED Single!vars  BY DEF single, Single!vars
  <2>2. viewDidLoad \/ TouchUp \/ InSharedInstance => Single!Next
    BY DEF viewDidLoad, TouchUp, InSharedInstance, Single!Next, Single!Ask
  <2> QED
    BY <2>1, <2>2 DEF Next, Handler, Loaded, Filter, FilterFails, FilterAborts, setImage,
       RunInferenceOnImage, InferenceAborts, Display, Tap, vars
<1> QED  BY <1>1, <1>2, PTL DEF Spec
=============================================================================
