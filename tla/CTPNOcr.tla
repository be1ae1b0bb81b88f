------------------------------ MODULE CTPNOcr ------------------------------
(***************************************************************************)
(* RunInferenceOnImage of CTPNOcr.mm: a TensorFlow session is made, the    *)
(* model file is read block by block through an adaptor of protobuf's into *)
(* a graph, the session is created with it and run.                        *)
(*                                                                         *)
(* Of the file and the graph only lengths are modelled, of the image and   *)
(* the tensors nothing: no pixel of the image reaches the network.  The    *)
(* loops of ctt_beam_decode are CttBeamDecode, and OCR runs both.          *)
(***************************************************************************)
EXTENDS Integers

CONSTANTS
  FileSizes,     \* how long the model file may be
  Missing,       \* the model file is not in the bundle
  BlockSize,     \* the adaptor's block
  BytesLimit     \* SetTotalBytesLimit: 1 GB in the code

ASSUME SizesAssumption ==
  /\ FileSizes \subseteq Nat /\ Missing \notin Nat
  /\ BlockSize \in Nat \ {0} /\ BytesLimit \in Nat \ {0}

VARIABLES
  pc,          \* the statement the call has come to, "idle" between calls
  size,        \* the length of the model file, or Missing
  wellFormed,  \* the file is a GraphDef from its first byte to its last
  ifs_,        \* the ifstream: "good", "eof" (eofbit, failbit) or "bad"
  graph,       \* bytes of the file that were parsed into the graph
  parsed,      \* what PortableReadFileToProto returned; nobody looks at it
  alive,       \* the objects of this call that are not yet destroyed
  answer       \* what the latest finished call returned

vars == <<pc, size, wellFormed, ifs_, graph, parsed, alive, answer>>

Min(a, b) == IF a <= b THEN a ELSE b

Init ==
  /\ pc = "idle"
  /\ size \in FileSizes \union {Missing}
  /\ wellFormed \in BOOLEAN
  /\ ifs_ = "good"
  /\ graph = 0
  /\ parsed = FALSE
  /\ alive = {}
  /\ answer = "none"

Goto(from, to) == pc = from /\ pc' = to

\* return: of the three objects the function's scope owns the session, which
\* is a unique_ptr's; the stream is its adaptor's and the array nobody's.
Return(from, message) ==
  /\ Goto(from, "idle")
  /\ answer' = message
  /\ alive' = alive \ {"session"}

----------------------------------------------------------------------------
Call ==
  /\ Goto("idle", "NewSession")
  /\ UNCHANGED <<size, wellFormed, ifs_, graph, parsed, alive, answer>>

NewSession ==
  /\ \/ /\ Goto("NewSession", "FilePath")
        /\ alive' = alive \union {"session"}
        /\ UNCHANGED answer
     \/ Return("NewSession", "Session create failed")
  /\ UNCHANGED <<size, wellFormed, ifs_, graph, parsed>>

\* LOG(FATAL) ends the process.
FilePathForResourceName ==
  /\ Goto("FilePath", IF size = Missing THEN "aborted" ELSE "Open")
  /\ UNCHANGED <<size, wellFormed, ifs_, graph, parsed, alive, answer>>

\* The constructor of IfstreamInputStream opens the file, or fails to.
Open ==
  /\ Goto("Open", "Read")
  /\ ifs_' \in {"good", "bad"}
  /\ alive' = alive \union {"stream"}
  /\ graph' = 0
  /\ UNCHANGED <<size, wellFormed, parsed, answer>>

\* Mutant of Read: the stream's state is asked for after the read.
ReadThenTest(n, state) ==
  \/ /\ n = -1 /\ state = ifs_ /\ ifs_ # "good"
  \/ /\ ifs_ = "good" /\ size - graph < BlockSize
     /\ n = -1 /\ state = "eof"
  \/ /\ ifs_ = "good" /\ size - graph >= BlockSize
     /\ n = BlockSize /\ state = "good"

\* IfstreamInputStream::Read answers n and leaves the stream in a state; a
\* disk error cuts it short anywhere.
Read(n, state) ==
  \/ /\ n = -1 /\ state = ifs_ /\ ifs_ # "good"
  \/ /\ ifs_ = "good"
     /\ n = Min(BlockSize, size - graph)
     /\ state = IF n < BlockSize THEN "eof" ELSE "good"
  \/ /\ ifs_ = "good"
     /\ n \in 0 .. Min(BlockSize, size - graph)
     /\ state = "bad"

\* The adaptor's Next: nothing more is read after an answer of 0 or -1.
\* Parsing accepts what it has if that is a message, which a graph cut short
\* between two fields is, too; of one of exactly the limit nothing is said.
EndOfStream(n, state) ==
  /\ n <= 0
  /\ Goto("Read", "Close")
  /\ parsed' \in IF graph = size /\ size < BytesLimit
              THEN {wellFormed} ELSE BOOLEAN
  /\ UNCHANGED graph

Block(n, state) ==
  /\ n > 0
  /\ \/ /\ Goto("Read", "Read")
        /\ graph + n <= BytesLimit
        /\ graph' = graph + n
        /\ UNCHANGED parsed
     \/ \* Over the limit, or bytes that are no field: parsing stops.
        /\ Goto("Read", "Close")
        /\ graph + n > BytesLimit \/ ~wellFormed
        /\ parsed' = FALSE
        /\ UNCHANGED graph

ReadBlock ==
  /\ pc = "Read"
  /\ \E n \in -1 .. BlockSize, state \in {"good", "eof", "bad"} :
        /\ Read(n, state)
        /\ ifs_' = state
        /\ EndOfStream(n, state) \/ Block(n, state)
  /\ UNCHANGED <<size, wellFormed, alive, answer>>

\* PortableReadFileToProto returns, and with its scope ends the adaptor, which
\* was made the owner of the stream.
CloseStream ==
  /\ Goto("Close", "Create")
  /\ alive' = alive \ {"stream"}
  /\ UNCHANGED <<size, wellFormed, ifs_, graph, parsed, answer>>

\* session->Create, whatever the parsing said.
Create ==
  /\ \/ Goto("Create", "Fill") /\ UNCHANGED <<alive, answer>>
     \/ Return("Create", "empty")
  /\ UNCHANGED <<size, wellFormed, ifs_, graph, parsed>>

\* target_data is allocated and copied to the input tensor as it is.
Allocate ==
  /\ Goto("Fill", "Delete")
  /\ alive' = alive \union {"target_data"}
  /\ UNCHANGED <<size, wellFormed, ifs_, graph, parsed, answer>>

\* Mutant of Delete: a fourth early return, of a call that still has the array.
DeleteOrReturn ==
  /\ \/ /\ Goto("Delete", "Run")
        /\ alive' = alive \ {"target_data"}
        /\ UNCHANGED answer
     \/ Return("Delete", "empty")
  /\ UNCHANGED <<size, wellFormed, ifs_, graph, parsed>>

Delete ==
  /\ Goto("Delete", "Run")
  /\ alive' = alive \ {"target_data"}
  /\ UNCHANGED <<size, wellFormed, ifs_, graph, parsed, answer>>

\* session->Run: an error gives the answer that a decoded output gives.
Run ==
  /\ \/ Goto("Run", "Decode") /\ UNCHANGED <<alive, answer>>
     \/ Return("Run", "empty")
  /\ UNCHANGED <<size, wellFormed, ifs_, graph, parsed>>

\* ctt_beam_decode returns; what it has made of the output is not returned.
Decode ==
  /\ Return("Decode", "empty")
  /\ UNCHANGED <<size, wellFormed, ifs_, graph, parsed>>

Load == FilePathForResourceName \/ Open \/ ReadBlock \/ CloseStream
Infer == Create \/ Allocate \/ Delete \/ Run \/ Decode

Next == Call \/ NewSession \/ Load \/ Infer

Spec == Init /\ [][Next]_vars

----------------------------------------------------------------------------
(* Each variable holds what its declaration says.                          *)
TypeOK ==
  /\ pc \in {"idle", "NewSession", "FilePath", "Open", "Read", "Close",
             "Create", "Fill", "Delete", "Run", "Decode", "aborted"}
  /\ size \in FileSizes \union {Missing}
  /\ wellFormed \in BOOLEAN /\ parsed \in BOOLEAN
  /\ ifs_ \in {"good", "eof", "bad"}
  /\ graph \in Nat /\ (size # Missing => graph <= size)
  /\ alive \subseteq {"session", "stream", "target_data"}
  /\ answer \in {"none", "empty", "Session create failed"}

(* Whichever of its ways out a call takes, it leaves nothing behind: no    *)
(* session, no open file, and not the array that only a delete[] frees.    *)
NothingLeft == pc \in {"idle", "NewSession"} => alive = {}

(* When no read failed, the graph the session is created with is the whole *)
(* file: the short last block counts, although it leaves the ifstream with *)
(* failbit set, and a file that ends with a full block ends there.  And if *)
(* the file is a graph that is not too long, it was parsed.                *)
WholeGraph ==
  pc \in {"Close", "Create"} /\ ifs_ # "bad" =>
    /\ parsed => graph = size
    /\ wellFormed /\ size < BytesLimit => parsed
=============================================================================
