--------------------------- MODULE CttBeamDecode ---------------------------
(***************************************************************************)
(* ctt_beam_decode of CTPNOcr.mm: the network's output, a flat array of    *)
(* sequence_length x batch x codes floats, is turned row by row into       *)
(* logarithms of probabilities, in place.  (The decoding that is to follow *)
(* is commented out.)                                                      *)
(*                                                                         *)
(* A float is an integer that stands for a number, or one of the three     *)
(* that are none.  Only distances within a row count: a logarithm is given *)
(* up to a term common to its row, as its distance from the row's largest. *)
(***************************************************************************)
EXTENDS Integers

CONSTANTS
  Dims,       \* <<sequence_length, batch, codes>> of the outputs
  Numbers,    \* the integers that occur in the network's output
  Lowest,     \* minus the largest float, less than any of these
  PlusInf, MinusInf, NaN

ASSUME DimsAssumption ==
  Dims \subseteq (Nat \ {0}) \X (Nat \ {0}) \X (Nat \ {0})
ASSUME NumbersAssumption ==
  /\ Numbers \subseteq Int /\ Lowest \in Int
  /\ \A x \in Numbers : Lowest < x
  /\ PlusInf # MinusInf /\ PlusInf # NaN /\ MinusInf # NaN
  /\ {PlusInf, MinusInf, NaN} \intersect Int = {}
  /\ {PlusInf, MinusInf, NaN} \intersect {"zero", "positive"} = {}

VARIABLES
  dims,        \* <<sequence_length, batch, codes>>
  raw,         \* the array when the call began
  data,        \* the array now
  seq,         \* the indices of the two outer loops
  batch_idx,
  visited      \* history: the positions some iteration has written

decodeVars == <<dims, raw, data, seq, batch_idx, visited>>

sequence_length == dims[1]
batch == dims[2]
codes == dims[3]
Array(d) == 0 .. d[1] * d[2] * d[3] - 1
Floats == Numbers \union {PlusInf, MinusInf, NaN}

\* x > y, false whenever a NaN is compared
Greater(x, y) ==
  CASE NaN \in {x, y} -> FALSE
    [] x = PlusInf    -> y # PlusInf
    [] x = MinusInf   -> FALSE
    [] OTHER          -> y = MinusInf \/ (y # PlusInf /\ x > y)

\* The largest of a row, starting from a lowest.
Largest(row, lowest) ==
  LET above == {row[i] : i \in {j \in DOMAIN row : Greater(row[j], lowest)}}
  IN  IF above = {} THEN lowest
      ELSE CHOOSE x \in above : \A y \in above : ~Greater(y, x)

\* Mutant of MaxCoff: the search starts from 0.
MaxCoffFromZero(row) == Largest(row, 0)

MaxCoff(row) == Largest(row, Lowest)

Minus(x, y) ==
  CASE NaN \in {x, y}   -> NaN
    [] x \in {PlusInf, MinusInf} -> IF x = y THEN NaN ELSE x
    [] y = PlusInf      -> MinusInf
    [] y = MinusInf     -> PlusInf
    [] OTHER            -> x - y

\* What exp may give: 0 for a number far below, infinity for one far above.
Exp(x) ==
  CASE x = NaN      -> {NaN}
    [] x = MinusInf -> {"zero"}
    [] x = PlusInf  -> {PlusInf}
    [] OTHER        -> IF x = 0 THEN {"positive"}
                       ELSE IF x < 0 THEN {"positive", "zero"}
                       ELSE {"positive", PlusInf}

\* log(e / sum), where x is what e is the exponential of and terms are all
\* the summands.
LogShare(e, x, terms) ==
  CASE NaN \in terms \/ terms = {"zero"}  -> NaN
    [] PlusInf \in terms                  -> IF e = PlusInf THEN NaN ELSE MinusInf
    [] OTHER                              -> IF e = "zero" THEN MinusInf ELSE x

\* The rows that the three loops over col may make of a row.
LogSoftmax(row) ==
  LET below == [i \in DOMAIN row |-> Minus(row[i], MaxCoff(row))]
      Terms == {"zero", "positive", PlusInf, NaN}
  IN  {[i \in DOMAIN row |->
          LogShare(e[i], below[i], {e[j] : j \in DOMAIN row})] :
         e \in {f \in [DOMAIN row -> Terms] :
                  \A i \in DOMAIN row : f[i] \in Exp(below[i])}}

----------------------------------------------------------------------------
\* Mutant of Pos: batches laid out one after the other, still from 1.
PosFromOne == (seq * batch + batch_idx) * codes

\* Mutant of Pos: batches counted from 0, still multiplied.
PosFromZero == seq * (batch_idx - 1) * codes

\* Where the iteration's row begins.
Pos == seq * batch_idx * codes

\* A position outside the array may hold anything, a NaN for one.
Row == [col \in 0 .. codes - 1 |->
          IF Pos + col \in DOMAIN data THEN data[Pos + col] ELSE NaN]

\* The loop over batch_idx inside the one over seq.
Advance ==
  IF batch_idx < batch
  THEN batch_idx' = batch_idx + 1 /\ UNCHANGED seq
  ELSE batch_idx' = 1 /\ seq' = seq + 1

\* One iteration: the three loops over col, and on to the next.
Iterate ==
  /\ seq < sequence_length
  /\ \E row \in LogSoftmax(Row) :
       data' = [i \in DOMAIN data |->
                  IF i - Pos \in DOMAIN row THEN row[i - Pos] ELSE data[i]]
  /\ visited' = visited \union {Pos + col : col \in 0 .. codes - 1}
  /\ Advance
  /\ UNCHANGED <<dims, raw>>

----------------------------------------------------------------------------
(* Each variable holds what its declaration says.                          *)
DecodeTypeOK ==
  /\ dims \in Dims
  /\ raw \in [Array(dims) -> Floats]
  /\ DOMAIN data = Array(dims)
  /\ seq \in 0 .. sequence_length
  /\ batch_idx \in 1 .. batch
  /\ visited \subseteq Int

(* The offset multiplies by a batch index that starts at 1; all the same   *)
(* no iteration leaves the array, whatever the number of batches.          *)
InBounds == visited \subseteq Array(dims)

(* For one batch, which is what the input tensor asks the network for, the *)
(* rows are taken one after the other: none is left out, none taken twice. *)
RowsInOrder == batch = 1 => visited = 0 .. seq * codes - 1

(* A row of numbers, some of them perhaps minus infinity, becomes one of   *)
(* logarithms: none is NaN, the largest stays the largest, and the others  *)
(* keep their distance from it unless they underflow.  Subtracting the     *)
(* row's largest before exp is what rules out both an overflow and a sum   *)
(* of zero, however low the numbers are.                                   *)
SharesKept ==
  batch = 1 => \A r \in 0 .. seq - 1 :
    LET cells == r * codes .. (r + 1) * codes - 1
        numbers == {raw[i] : i \in cells} \ {MinusInf}
    IN  numbers # {} /\ numbers \subseteq Int =>
          LET top == CHOOSE x \in numbers : \A y \in numbers : x >= y
          IN  \A i \in cells :
                /\ data[i] \in {Minus(raw[i], top), MinusInf}
                /\ raw[i] = top => data[i] = 0
=============================================================================
