-------------------------------- MODULE OCR --------------------------------
(***************************************************************************)
(* RunInferenceOnImage and the ctt_beam_decode it calls: the session's     *)
(* output exists from session->Run to the end of the call, and the loops   *)
(* run over it in between.  Calls follow one another, so that a second one *)
(* finds nothing of the first one's.                                       *)
(***************************************************************************)
EXTENDS CTPNOcr, CttBeamDecode

ASSUME SomeDims == Dims # {}

\* There is an output of size d and these floats, and the loops' variables
\* are what ctt_beam_decode begins with.
Output(d, floats) ==
  /\ dims' = d
  /\ raw' = floats
  /\ data' = floats
  /\ seq' = 0
  /\ batch_idx' = 1
  /\ visited' = {}

\* Between two outputs the variables hold one that no loop looks at.
NoOutput == CHOOSE d \in Dims : TRUE
Nothing == [i \in Array(NoOutput) |-> NaN]

OCRInit ==
  /\ Init
  /\ dims = NoOutput
  /\ raw = Nothing /\ data = Nothing
  /\ seq = 0 /\ batch_idx = 1 /\ visited = {}

\* The statements that do not touch the output.
Statement ==
  /\ Call \/ NewSession \/ Load \/ Create \/ Allocate \/ Delete
  /\ UNCHANGED decodeVars

\* session->Run gives an output, whose shape and floats go to
\* ctt_beam_decode, or an error.
RunSession ==
  /\ Run
  /\ \/ /\ pc' = "Decode"
        /\ \E d \in Dims : \E floats \in [Array(d) -> Floats] : Output(d, floats)
     \/ pc' # "Decode" /\ UNCHANGED decodeVars

\* The loops of ctt_beam_decode.
ctt_beam_decode ==
  /\ pc = "Decode"
  /\ Iterate
  /\ UNCHANGED vars

\* The loops are over: the call returns, output_tensors goes with its scope.
Finish ==
  /\ seq = sequence_length
  /\ Decode
  /\ Output(NoOutput, Nothing)

OCRNext == Statement \/ RunSession \/ ctt_beam_decode \/ Finish

OCRSpec == OCRInit /\ [][OCRNext]_<<vars, decodeVars>>
=============================================================================
