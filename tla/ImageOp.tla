------------------------------ MODULE ImageOp ------------------------------
(***************************************************************************)
(* What grayTrans: and binaryTrans:Threshold: promise their callers: a     *)
(* call takes a picture and answers with one of the same size in which     *)
(* every texel went through the kernel.  The promise is weaker only when   *)
(* the device gave up on the work: the code never reads the command        *)
(* buffer's status, so such a call still answers, and all that is left is  *)
(* that each texel is either processed or the caller's own.                *)
(***************************************************************************)
EXTENDS Integers

CONSTANTS
  Callers,    \* threads that call the shared ImageMisc instance
  Pictures,   \* the pictures they pass: records of a size and its texels
  Jobs,       \* the operations, a threshold being part of the operation
  Kernel      \* Kernel[job] is what one invocation does to a texel

VARIABLES
  phase,      \* phase[c]: "idle", or "busy" while a call of c is running
  request,    \* request[c]: the job and the picture of c's latest call
  healthy,    \* healthy[c]: the device has not given up on that call
  reply       \* reply[c]: the picture c's latest finished call returned

opVars == <<phase, request, healthy, reply>>

\* The texels a call may answer with where the source has texel t.
Answers(job, ok, t) ==
  IF ok THEN {Kernel[job][t]} ELSE {Kernel[job][t], t}

OpInit ==
  /\ phase = [c \in Callers |-> "idle"]
  /\ request \in [Callers -> [job : Jobs, picture : Pictures]]
  /\ healthy = [c \in Callers |-> TRUE]
  /\ reply \in [Callers -> Pictures]

Ask(c) ==
  /\ phase[c] = "idle"
  /\ phase' = [phase EXCEPT ![c] = "busy"]
  /\ \E job \in Jobs, picture \in Pictures :
        request' = [request EXCEPT ![c] = [job |-> job, picture |-> picture]]
  /\ healthy' = [healthy EXCEPT ![c] = TRUE]
  /\ UNCHANGED reply

GiveUp(c) ==
  /\ phase[c] = "busy"
  /\ healthy' = [healthy EXCEPT ![c] = FALSE]
  /\ UNCHANGED <<phase, request, reply>>

Answer(c) ==
  /\ phase[c] = "busy"
  /\ phase' = [phase EXCEPT ![c] = "idle"]
  /\ LET source == request[c].picture
     IN  /\ reply' = [reply EXCEPT ![c] =
                        [size |-> source.size, texel |-> reply'[c].texel]]
         /\ DOMAIN reply'[c].texel = DOMAIN source.texel
         /\ \A p \in DOMAIN source.texel :
               reply'[c].texel[p] \in
                 Answers(request[c].job, healthy[c], source.texel[p])
  /\ UNCHANGED <<request, healthy>>

OpNext == \E c \in Callers : Ask(c) \/ GiveUp(c) \/ Answer(c)

OpSpec == OpInit /\ [][OpNext]_opVars
=============================================================================
