--------------------------- MODULE ViewController ---------------------------
(***************************************************************************)
(* The application: ViewController.m on the main thread.  A tap on one of  *)
(* the three buttons waits until the run loop delivers it; its handler     *)
(* asks for the shared ImageMisc, runs a filter on the apple, hands the    *)
(* result to the image view and, for the binary button, runs the network.  *)
(* What the view holds reaches the screen only between handlers.           *)
(*                                                                         *)
(* The singletons are those of SharedInstance, step by step.  A filter is  *)
(* what ComputePass and RenderPass show of it: it answers, and with what   *)
(* depends on the fields that ImageMisc has.  The network is CTPNOcr: it   *)
(* returns, or ends the process when the model file is not there.          *)
(***************************************************************************)
EXTENDS Integers, Sequences

CONSTANT MaxTaps    \* bound: taps of one run of the application

ASSUME MaxTapsAssumption == MaxTaps \in Nat

VARIABLES
  pc, asked, once, context, misc, made, instance, got,   \* of SharedInstance
  stage,      \* where the main thread stands
  taps,       \* history: the buttons tapped, in their order
  current,    \* the number of the tap whose handler runs, or ran last
  failed,     \* history: the taps whose filter the GPU did not finish
  result,     \* the picture the filter answered
  shown,      \* what the image view holds, and the tap that put it there
  screen,     \* what is seen of it
  ended       \* the process ended

single == <<pc, asked, once, context, misc, made, instance, got>>
view == <<shown, screen>>
queue == <<taps, current, failed>>
vars == <<single, stage, queue, result, view, ended>>

Single == INSTANCE SharedInstance WITH Callers <- {"main"}

Buttons == {"gray", "rotate", "binary"}
Stages == {"launch", "loading", "idle", "asking", "filtered", "network"}
Pictures == {"apple", "gray", "turned", "binary", "unfiltered", "spoilt", "black",
             "old", "nil"}

Apple == [tap |-> 0, picture |-> "apple"]

Init ==
  /\ Single!Init
  /\ stage = "launch"
  /\ taps = <<>> /\ current = 0 /\ failed = {}
  /\ result = "nil"
  /\ shown = [tap |-> 0, picture |-> "nil"]
  /\ screen = shown
  /\ ended = FALSE

Moves(from, to) == ~ended /\ stage = from /\ stage' = to

----------------------------------------------------------------------------
(* viewDidLoad and the steps inside sharedInstance                         *)

\* Mutant of viewDidLoad: an ImageMisc of its own, as the header allows.
viewDidLoadOwn ==
  /\ Moves("launch", "loading")
  /\ shown' = Apple
  /\ pc' = [pc EXCEPT !["main"] = "contextOnce"]
  /\ asked' = [asked EXCEPT !["main"] = "misc"]
  /\ made' = [made EXCEPT !["misc"] = 1]
  /\ UNCHANGED <<once, context, misc, instance, got, queue, result, screen, ended>>

viewDidLoad ==
  /\ Moves("launch", "loading")
  /\ shown' = Apple
  /\ Single!AskMisc("main")
  /\ UNCHANGED <<queue, result, screen, ended>>

Answered == pc["main"] = "out"

InSharedInstance ==
  /\ ~ended
  /\ Single!ContextStep("main") \/ Single!MiscStep("main")
  /\ UNCHANGED <<stage, queue, result, view, ended>>

Loaded ==
  /\ Answered
  /\ Moves("loading", "idle")
  /\ UNCHANGED <<single, queue, result, view, ended>>

----------------------------------------------------------------------------
(* The buttons                                                             *)

\* A finger, at any time once there is something to tap on.
Tap(button) ==
  /\ ~ended
  /\ stage \notin {"launch", "loading"}
  /\ Len(taps) < MaxTaps
  /\ taps' = Append(taps, button)
  /\ UNCHANGED <<single, stage, current, failed, result, view, ended>>

\* The run loop delivers a tap; its handler begins with sharedInstance.
TouchUp ==
  /\ Moves("idle", "asking")
  /\ current < Len(taps)
  /\ current' = current + 1
  /\ Single!AskMisc("main")
  /\ UNCHANGED <<taps, failed, result, view, ended>>

\* Mutant of FilterOf: a handler copied from the first, and not edited.
FilterCopied ==
  [gray |-> "grayTrans", rotate |-> "roation", binary |-> "grayTrans"]

\* The filter that the handler of a button sends its apple to.
FilterOf ==
  [gray |-> "grayTrans", rotate |-> "roation", binary |-> "binaryTrans"]

HasQueue == got["main"] # 0 /\ "queue" \in misc

\* What each filter makes of the apple when all goes well.
Makes == [grayTrans |-> "gray", roation |-> "turned", binaryTrans |-> "binary"]

\* What a filter answers.  A message to nil answers nil.  Without a queue
\* the textures stay what they were: the apple, its red and blue exchanged on
\* the way through, or, for the turned one, whatever its memory held.
Answer(filter) ==
  IF got["main"] = 0 THEN "nil"
  ELSE IF ~HasQueue THEN (IF filter = "roation" THEN "old" ELSE "unfiltered")
  ELSE IF filter = "roation" /\ ~({"render", "vertices"} \subseteq misc) THEN "black"
  ELSE Makes[filter]

Filter ==
  /\ Answered
  /\ Moves("asking", "filtered")
  /\ result' = Answer(FilterOf[taps[current]])
  /\ UNCHANGED <<single, queue, view, ended>>

\* The GPU fails under the filter, and what its texture held is the answer.
FilterFails ==
  /\ Answered /\ HasQueue
  /\ Moves("asking", "filtered")
  /\ result' = "spoilt"
  /\ failed' = failed \union {current}
  /\ UNCHANGED <<single, taps, current, view, ended>>

\* Metal may end the process in a draw without a pipeline.
FilterAborts ==
  /\ ~ended /\ stage = "asking" /\ Answered
  /\ FilterOf[taps[current]] = "roation"
  /\ HasQueue /\ "render" \notin misc
  /\ ended' = TRUE
  /\ UNCHANGED <<single, stage, queue, result, view>>

\* Where a handler goes from the image view.
After(button) == IF button = "binary" THEN "network" ELSE "idle"

\* Mutant of setImage: nil is not handed on.
setImageUnlessNil ==
  /\ Moves("filtered", After(taps[current]))
  /\ shown' = IF result = "nil" THEN shown
              ELSE [tap |-> current, picture |-> result]
  /\ UNCHANGED <<single, queue, result, screen, ended>>

setImage ==
  /\ Moves("filtered", After(taps[current]))
  /\ shown' = [tap |-> current, picture |-> result]
  /\ UNCHANGED <<single, queue, result, screen, ended>>

RunInferenceOnImage ==
  /\ Moves("network", "idle")
  /\ UNCHANGED <<single, queue, result, view, ended>>

\* The model file is missing: LOG(FATAL).
InferenceAborts ==
  /\ ~ended /\ stage = "network"
  /\ ended' = TRUE
  /\ UNCHANGED <<single, stage, queue, result, view>>

\* The run loop, between handlers, brings the view to the screen.
Display ==
  /\ ~ended /\ stage = "idle"
  /\ screen' = shown
  /\ UNCHANGED <<single, stage, queue, result, shown, ended>>

----------------------------------------------------------------------------
Handler ==
  \/ viewDidLoad \/ InSharedInstance \/ Loaded
  \/ TouchUp \/ Filter \/ FilterFails \/ FilterAborts \/ setImage
  \/ RunInferenceOnImage \/ InferenceAborts

Next == Handler \/ Display \/ \E button \in Buttons : Tap(button)

\* The main thread goes on; the run loop delivers what waits, and displays.
Fairness == WF_vars(Handler) /\ SF_vars(Display)

Spec == Init /\ [][Next]_vars /\ Fairness

----------------------------------------------------------------------------
(* Each variable holds what its declaration says.                          *)
TypeOK ==
  /\ Single!TypeOK
  /\ stage \in Stages
  /\ taps \in Seq(Buttons) /\ Len(taps) <= MaxTaps
  /\ current \in 0 .. Len(taps)
  /\ failed \subseteq 1 .. current
  /\ result \in Pictures
  /\ {shown, screen} \subseteq [tap : 0 .. current, picture : Pictures]
  /\ ended \in BOOLEAN

\* What the title of a button promises of the apple.
Promised == [gray |-> "gray", rotate |-> "turned", binary |-> "binary"]

\* What must be so for the n-th tap to have led to a picture.
Explained(n, picture) ==
  CASE picture = "nil" -> instance["misc"] = 0
    [] picture = "unfiltered" -> taps[n] # "rotate" /\ "queue" \notin misc
    [] picture = "old" -> taps[n] = "rotate" /\ "queue" \notin misc
    [] picture = "black" ->
         taps[n] = "rotate" /\ ~({"render", "vertices"} \subseteq misc)
    [] picture = "spoilt" -> n \in failed
    [] OTHER -> /\ picture = Promised[taps[n]]
                /\ instance["misc"] # 0 /\ "queue" \in misc

(* What is shown is what the button of the last tap handled promises, or   *)
(* there is a reason: the blank view needs an ImageMisc that never came    *)
(* up, the unfiltered apple and an old target a queue that did not, black  *)
(* a pipeline or vertices that did not, a spoilt picture a failure of the  *)
(* GPU under this very tap.  What Metal refused is refused for good, and   *)
(* explains every later tap; what the GPU failed at explains no other.     *)
ShownHasReason ==
  LET handled == IF stage \in {"asking", "filtered"} THEN current - 1
                 ELSE current
  IN  /\ stage # "launch" => shown.tap = handled
      /\ shown.tap > 0 => Explained(shown.tap, shown.picture)

(* Each tap comes to be seen, by its own picture or a later one's, unless  *)
(* the process ends first.                                                 *)
EveryTapSeen ==
  \A n \in 1 .. MaxTaps : Len(taps) >= n ~> screen.tap >= n \/ ended

(* The application uses the singletons as SharedInstance has them, and     *)
(* from one thread: the main thread never waits for itself.                *)
UsesSingletons == Single!Spec
=============================================================================
