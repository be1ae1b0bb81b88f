----------------------------- MODULE OCRProofs -----------------------------
(***************************************************************************)
(* For every file, block size and limit: the graph is the whole file when  *)
(* no read failed, and no call leaves anything behind.  For outputs of any *)
(* size: the loops stay inside, and make logarithms of shares of them.     *)
(***************************************************************************)
EXTENDS OCR, WellFoundedInduction, TLAPS

----------------------------------------------------------------------------
(* Products of natural numbers                                             *)

LEMMA ProductType ==
  ASSUME NEW a \in Nat, NEW b \in Nat
  PROVE  a * b \in Nat
OBVIOUS

LEMMA ProductMonotonic ==
  ASSUME NEW a \in Nat, NEW b \in Nat, NEW c \in Nat, a <= b
  PROVE  a * c <= b * c
<1>1. PICK k \in Nat : b = a + k
  <2>1. b - a \in Nat /\ b = a + (b - a)  OBVIOUS
  <2> QED  BY <2>1
<1>2. b * c = a * c + k * c  BY <1>1
<1>3. k * c \in Nat  BY ProductType
<1> QED  BY <1>2, <1>3

(* The row that begins at s * b * c ends inside S * B * C.                 *)
LEMMA RowFits ==
  ASSUME NEW S \in Nat \ {0}, NEW B \in Nat \ {0}, NEW C \in Nat \ {0},
         NEW s \in 0 .. S - 1, NEW b \in 1 .. B
  PROVE  s * b * C \in Nat /\ s * b * C + C <= S * B * C
<1>1. s * b \in Nat /\ S * B \in Nat  OBVIOUS
<1>2. s * b + 1 <= S * B
  <2>1. s * b <= s * B
    <3>1. b * s <= B * s  BY ProductMonotonic
    <3> QED  BY <3>1
  <2>2. (s + 1) * B <= S * B  BY ProductMonotonic
  <2>3. (s + 1) * B = s * B + B  OBVIOUS
  <2>4. s * B \in Nat  OBVIOUS
  <2> QED  BY <1>1, <2>1, <2>2, <2>3, <2>4
<1>3. (s * b + 1) * C <= (S * B) * C  BY <1>1, <1>2, ProductMonotonic
<1>4. (s * b + 1) * C = s * b * C + C  BY <1>1
<1>5. s * b * C \in Nat  BY <1>1, ProductType
<1> QED  BY <1>3, <1>4, <1>5

----------------------------------------------------------------------------
LEMMA DimsType ==
  ASSUME dims \in Dims
  PROVE  /\ sequence_length \in Nat \ {0}
         /\ batch \in Nat \ {0}
         /\ codes \in Nat \ {0}
BY DimsAssumption DEF sequence_length, batch, codes

(* The indices of the loops and what the loops have visited so far.        *)
LoopInv == DecodeTypeOK /\ InBounds /\ RowsInOrder

LEMMA IterateInv ==
  ASSUME LoopInv, Iterate
  PROVE  LoopInv'
<1> DEFINE S == sequence_length
           B == batch
           C == codes
           row == {Pos + col : col \in 0 .. codes - 1}
<1>1. /\ dims \in Dims /\ S \in Nat \ {0} /\ B \in Nat \ {0} /\ C \in Nat \ {0}
      /\ seq \in 0 .. S - 1 /\ batch_idx \in 1 .. B
  BY DimsType DEF LoopInv, DecodeTypeOK, Iterate
<1>2. UNCHANGED <<dims, raw>> /\ visited' = visited \union row /\ Advance
  BY DEF Iterate
<1>3. UNCHANGED <<sequence_length, batch, codes, Array(dims)>>
  BY <1>2 DEF sequence_length, batch, codes
<1>4. Pos \in Nat /\ Pos + C <= S * B * C
  BY <1>1, RowFits DEF Pos
<1>5. row \subseteq Array(dims)
  <2>1. Array(dims) = 0 .. S * B * C - 1
    BY DEF Array, sequence_length, batch, codes
  <2>2. S * B * C \in Nat  BY <1>1, ProductType
  <2> HIDE DEF Pos, S, B, C
  <2>3. ASSUME NEW col \in 0 .. C - 1 PROVE Pos + col \in 0 .. S * B * C - 1
    BY <1>1, <1>4, <2>2
  <2> QED  BY <2>1, <2>3 DEF C
<1>6. DecodeTypeOK'
  <2>1. DOMAIN data' = DOMAIN data  BY DEF Iterate
  <2>2. seq' \in 0 .. S /\ batch_idx' \in 1 .. B
    BY <1>1, <1>2 DEF Advance
  <2>3. visited' \subseteq Int
    <3>1. Array(dims) \subseteq Int  BY DEF Array
    <3>2. visited \subseteq Int  BY DEF LoopInv, DecodeTypeOK
    <3> HIDE DEF row
    <3> QED  BY <1>2, <1>5, <3>1, <3>2
  <2> QED  BY <1>1, <1>2, <1>3, <2>1, <2>2, <2>3 DEF LoopInv, DecodeTypeOK
<1>7. InBounds'
  BY <1>2, <1>3, <1>5 DEF LoopInv, InBounds
<1>8. RowsInOrder'
  <2> SUFFICES ASSUME B = 1 PROVE visited' = 0 .. seq' * C - 1
    BY <1>3 DEF RowsInOrder
  <2>1. batch_idx = 1 /\ seq' = seq + 1  BY <1>1, <1>2 DEF Advance
  <2>2. visited = 0 .. seq * C - 1  BY DEF LoopInv, RowsInOrder
  <2>3. Pos = seq * C /\ seq * C \in Nat  BY <1>1, <2>1 DEF Pos
  <2>4. seq' * C = seq * C + C  BY <1>1, <2>1
  <2>5. ASSUME NEW m \in Nat
        PROVE  (0 .. m - 1) \union {m + col : col \in 0 .. C - 1} = 0 .. (m + C) - 1
    <3>1. ASSUME NEW i \in 0 .. (m + C) - 1, i >= m
          PROVE  i - m \in 0 .. C - 1 /\ i = m + (i - m)
      BY <1>1, <3>1
    <3>2. ASSUME NEW col \in 0 .. C - 1 PROVE m + col \in 0 .. (m + C) - 1
      BY <1>1
    <3>3. \A i \in 0 .. (m + C) - 1 : i < m => i \in 0 .. m - 1  BY <1>1
    <3>4. 0 .. m - 1 \subseteq 0 .. (m + C) - 1  BY <1>1
    <3>5. \A i \in 0 .. (m + C) - 1 : i < m \/ i >= m  BY <1>1
    <3> HIDE DEF C
    <3> QED  BY <3>1, <3>2, <3>3, <3>4, <3>5
  <2> QED  BY <1>2, <2>2, <2>3, <2>4, <2>5
<1> QED  BY <1>6, <1>7, <1>8 DEF LoopInv

----------------------------------------------------------------------------
(* Of finitely many integers one is the largest.  The least number of      *)
(* places among which there were none, if any, could lose its last place.  *)
LEMMA LargestExists ==
  ASSUME NEW n \in Nat, NEW row, NEW I \in SUBSET (0 .. n - 1), I # {},
         \A i \in I : row[i] \in Int
  PROVE  \E i \in I : \A j \in I : row[i] >= row[j]
<1> DEFINE Below(m) == {i \in I : i < m}
           Has(m) == Below(m) = {} \/ \E i \in Below(m) : \A j \in Below(m) : row[i] >= row[j]
           Lacking == {m \in Nat : ~Has(m)}
<1>0. \A i \in I : i \in Nat /\ i < n  OBVIOUS
<1>1. Lacking = {}
  <2> SUFFICES ASSUME Lacking # {} PROVE FALSE  OBVIOUS
  <2>1. PICK m \in Lacking : \A k \in Lacking : ~(<<k, m>> \in OpToRel(<, Nat))
    <3> HIDE DEF Lacking
    <3>1. Lacking \subseteq Nat  BY DEF Lacking
    <3> QED  BY <3>1, WFMin, NatLessThanWellFounded, Zenon
  <2>2. m \in Nat /\ ~Has(m) /\ \A k \in Lacking : ~(k < m)
    <3> HIDE DEF Has
    <3> QED  BY <2>1 DEF OpToRel
  <2>3. m # 0
    <3>1. \A i \in I : ~(i < 0)  BY <1>0
    <3>2. Below(0) = {}  BY <3>1, Zenon
    <3> QED  BY <2>2, <3>2
  <2>4. m - 1 \in Nat /\ Has(m - 1)
    <3> HIDE DEF Has
    <3> QED  BY <2>2, <2>3
  <2>5. Below(m) = Below(m - 1) \union (I \intersect {m - 1})
    <3>1. \A i \in I : i < m <=> i < m - 1 \/ i = m - 1  BY <1>0, <2>2, <2>3
    <3> QED  BY <3>1, Zenon
  <2>6. CASE m - 1 \notin I
    <3>1. Below(m) = Below(m - 1)  BY <2>5, <2>6
    <3> QED  BY <2>2, <2>4, <3>1
  <2>7. CASE m - 1 \in I /\ Below(m - 1) = {}
    <3>1. Below(m) = {m - 1}  BY <2>5, <2>7
    <3> QED  BY <2>2, <2>7, <3>1
  <2>8. CASE m - 1 \in I /\ Below(m - 1) # {}
    <3>1. PICK i \in Below(m - 1) : \A j \in Below(m - 1) : row[i] >= row[j]
      BY <2>4, <2>8
    <3>2. i \in Below(m) /\ m - 1 \in Below(m)  BY <2>5, <2>8, <3>1
    <3>3. CASE row[i] >= row[m - 1]
      <4>1. \A j \in Below(m) : row[i] >= row[j]  BY <2>5, <3>1, <3>3
      <4> QED  BY <2>2, <3>2, <4>1
    <3>4. CASE row[m - 1] >= row[i]
      <4>1. \A j \in Below(m - 1) : row[m - 1] >= row[j]  BY <2>8, <3>1, <3>4
      <4>2. \A j \in Below(m) : row[m - 1] >= row[j]  BY <2>5, <2>8, <4>1
      <4> QED  BY <2>2, <3>2, <4>2
    <3> QED  BY <2>8, <3>1, <3>3, <3>4
  <2> QED  BY <2>6, <2>7, <2>8
<1>2. Has(n)
  <2> HIDE DEF Has
  <2> QED  BY <1>1
<1>3. Below(n) = I  BY <1>0, Zenon
<1> QED  BY <1>2, <1>3

(* The maximum that the first loop over col finds in a row of numbers.     *)
LEMMA MaxCoffIsTop ==
  ASSUME NEW row, \A i \in DOMAIN row : row[i] \in Numbers \union {MinusInf},
         NEW t \in DOMAIN row, row[t] \in Numbers,
         \A i \in DOMAIN row : row[i] \in Numbers => row[t] >= row[i]
  PROVE  MaxCoff(row) = row[t]
<1> DEFINE above == {row[i] : i \in {j \in DOMAIN row : Greater(row[j], Lowest)}}
<1>1. ASSUME NEW x \in Numbers, NEW y \in Numbers \union {Lowest}
      PROVE  Greater(x, y) <=> x > y
  BY NumbersAssumption DEF Greater
<1>2. ~Greater(MinusInf, Lowest)  BY NumbersAssumption DEF Greater
<1>3. \A x \in Numbers : Greater(x, Lowest)  BY <1>1, NumbersAssumption
<1>4. above = {row[i] : i \in DOMAIN row} \intersect Numbers
  <2>1. MinusInf \notin Numbers  BY NumbersAssumption
  <2> QED  BY <1>2, <1>3, <2>1
<1>5. row[t] \in above /\ \A y \in above : y \in Numbers /\ row[t] >= y  BY <1>4
<1> HIDE DEF above
<1>6. ASSUME NEW y \in above PROVE ~Greater(y, row[t])
  <2>1. y \in Numbers /\ row[t] >= y  BY <1>5
  <2>2. y \in Int /\ row[t] \in Int  BY <2>1, NumbersAssumption
  <2>3. Greater(y, row[t]) <=> y > row[t]  BY <1>1, <2>1
  <2> QED  BY <2>1, <2>2, <2>3
<1> DEFINE top == CHOOSE x \in above : \A y \in above : ~Greater(y, x)
<1>7. top \in above /\ \A y \in above : ~Greater(y, top)  BY <1>5, <1>6
<1> HIDE DEF top
<1>8. top = row[t]
  <2>1. top \in Numbers /\ row[t] >= top  BY <1>5, <1>7
  <2>2. top \in Int /\ row[t] \in Int  BY <2>1, NumbersAssumption
  <2>3. ~Greater(row[t], top)  BY <1>5, <1>7
  <2>4. Greater(row[t], top) <=> row[t] > top  BY <1>1, <2>1
  <2> QED  BY <2>1, <2>2, <2>3, <2>4
<1>9. above # {}  BY <1>5
<1> QED  BY <1>8, <1>9 DEF MaxCoff, Largest, above, top

(* What the three loops over col make of a row of numbers.                 *)
LEMMA RowShares ==
  ASSUME NEW row, \A i \in DOMAIN row : row[i] \in Numbers \union {MinusInf},
         NEW t \in DOMAIN row, row[t] \in Numbers,
         \A i \in DOMAIN row : row[i] \in Numbers => row[t] >= row[i],
         NEW out \in LogSoftmax(row), NEW i \in DOMAIN row
  PROVE  /\ out[i] \in {Minus(row[i], row[t]), MinusInf}
         /\ row[i] = row[t] => out[i] = 0
<1> DEFINE below == [j \in DOMAIN row |-> Minus(row[j], row[t])]
           Terms == {"zero", "positive", PlusInf, NaN}
<1>1. MaxCoff(row) = row[t]  BY MaxCoffIsTop
<1>2. PICK e \in [DOMAIN row -> Terms] :
        /\ \A j \in DOMAIN row : e[j] \in Exp(below[j])
        /\ out = [j \in DOMAIN row |->
                   LogShare(e[j], below[j], {e[k] : k \in DOMAIN row})]
  BY <1>1 DEF LogSoftmax
<1>3. ASSUME NEW j \in DOMAIN row
      PROVE  /\ below[j] = MinusInf \/ (below[j] \in Int /\ below[j] <= 0)
             /\ row[j] = row[t] => below[j] = 0
  <2>1. CASE row[j] = MinusInf  BY <2>1, NumbersAssumption DEF Minus
  <2>2. CASE row[j] \in Numbers
    <3>1. row[j] \in Int /\ row[t] \in Int /\ row[t] >= row[j]
      BY <2>2, NumbersAssumption
    <3>2. below[j] = row[j] - row[t]
      BY <3>1, NumbersAssumption DEF Minus
    <3> QED  BY <3>1, <3>2
  <2> QED  BY <2>1, <2>2
<1> HIDE DEF below
<1>4. ASSUME NEW j \in DOMAIN row
      PROVE  /\ e[j] \in {"zero", "positive"}
             /\ below[j] = 0 => e[j] = "positive"
             /\ below[j] = MinusInf => e[j] = "zero"
  <2>1. e[j] \in Exp(below[j])  BY <1>2
  <2> QED  BY <1>3, <2>1, NumbersAssumption DEF Exp
<1> DEFINE terms == {e[k] : k \in DOMAIN row}
<1>5. terms \subseteq {"zero", "positive"} /\ "positive" \in terms  BY <1>3, <1>4
<1>6. NaN \notin terms /\ PlusInf \notin terms /\ terms # {"zero"}
  BY <1>5, NumbersAssumption
<1> HIDE DEF terms
<1>7. LogShare(e[i], below[i], terms) = IF e[i] = "zero" THEN MinusInf ELSE below[i]
  BY <1>6 DEF LogShare
<1>8. out[i] = IF e[i] = "zero" THEN MinusInf ELSE below[i]
  BY <1>2, <1>7 DEF terms
<1>9. row[i] = row[t] => out[i] = 0  BY <1>3, <1>4, <1>8
<1> QED  BY <1>8, <1>9 DEF below

----------------------------------------------------------------------------
\* What the loops have not come to is as it was.
Ahead ==
  batch = 1 => \A i \in Array(dims) : i >= seq * codes => data[i] = raw[i]

SharesInv == LoopInv /\ Ahead /\ SharesKept

\* SharesKept for one row, of an array that was w and is d now.
ShareKept(cells, w, d) ==
  LET numbers == {w[i] : i \in cells} \ {MinusInf}
  IN  numbers # {} /\ numbers \subseteq Int =>
        LET top == CHOOSE x \in numbers : \A y \in numbers : x >= y
        IN  \A i \in cells :
              /\ d[i] \in {Minus(w[i], top), MinusInf}
              /\ w[i] = top => d[i] = 0

LEMMA SharesKeptByRow ==
  SharesKept <=>
    (batch = 1 => \A r \in 0 .. seq - 1 :
                    ShareKept(r * codes .. (r + 1) * codes - 1, raw, data))
BY DEF SharesKept, ShareKept

LEMMA IterateShares ==
  ASSUME SharesInv, Iterate
  PROVE  Ahead' /\ SharesKept'
<1> DEFINE S == sequence_length
           C == codes
<1>1. /\ dims \in Dims /\ S \in Nat \ {0} /\ batch \in Nat \ {0} /\ C \in Nat \ {0}
      /\ seq \in 0 .. S - 1 /\ batch_idx \in 1 .. batch
  BY DimsType DEF SharesInv, LoopInv, DecodeTypeOK, Iterate
<1>2. PICK new \in LogSoftmax(Row) :
        data' = [i \in DOMAIN data |->
                   IF i - Pos \in DOMAIN new THEN new[i - Pos] ELSE data[i]]
  BY DEF Iterate
<1>3. /\ UNCHANGED <<dims, raw>> /\ UNCHANGED <<sequence_length, batch, codes, Array(dims)>>
      /\ Advance
  BY DEF Iterate, sequence_length, batch, codes
<1>4. DOMAIN data = Array(dims) /\ raw \in [Array(dims) -> Floats]
  BY DEF SharesInv, LoopInv, DecodeTypeOK
<1>5. DOMAIN Row = 0 .. C - 1 /\ DOMAIN new = 0 .. C - 1
  <2>1. DOMAIN Row = 0 .. C - 1  BY DEF Row
  <2> QED  BY <1>2, <2>1 DEF LogSoftmax
<1> SUFFICES ASSUME batch = 1 PROVE Ahead' /\ SharesKept'
  BY <1>3 DEF Ahead, SharesKept
<1>6. batch_idx = 1 /\ seq' = seq + 1  BY <1>1, <1>3 DEF Advance
<1> DEFINE P == seq * C
<1>7. Pos = P /\ P \in Nat /\ P + C <= S * C /\ S * C \in Nat
  <2>1. Pos + C <= S * 1 * C  BY <1>1, <1>6, RowFits DEF Pos
  <2> QED  BY <1>1, <1>6, <2>1 DEF Pos
<1>8. Array(dims) = 0 .. S * C - 1
  BY <1>1 DEF Array, sequence_length, batch, codes
<1>9. seq' * C = P + C  BY <1>1, <1>6
<1> HIDE DEF C, S, P
<1>10. \A i \in Array(dims) :
         data'[i] = IF i \in P .. P + C - 1 THEN new[i - P] ELSE data[i]
  <2>1. \A i \in Int : i - P \in 0 .. C - 1 <=> i \in P .. P + C - 1
    BY <1>1, <1>7
  <2> QED  BY <1>2, <1>4, <1>5, <1>7, <1>8, <2>1
<1>11. \A i \in Array(dims) : i >= P => data[i] = raw[i]
  BY DEF SharesInv, Ahead, P, C
<1>12. Ahead'
  <2>1. ASSUME NEW i \in Array(dims), i >= P + C PROVE data'[i] = raw[i]
    BY <1>1, <1>7, <1>8, <1>10, <1>11, <2>1
  <2> QED  BY <1>3, <1>9, <2>1 DEF Ahead, C
<1>13. ASSUME NEW r \in 0 .. seq - 1
       PROVE  ShareKept(r * C .. (r + 1) * C - 1, raw, data')
  <2>1. ShareKept(r * C .. (r + 1) * C - 1, raw, data)
    BY SharesKeptByRow DEF SharesInv, C
  <2>2. r * C \in Nat /\ (r + 1) * C <= P /\ (r + 1) * C \in Nat
    <3>1. r + 1 \in Nat /\ r + 1 <= seq /\ seq \in Nat  BY <1>1
    <3>2. (r + 1) * C <= seq * C  BY <1>1, <3>1, ProductMonotonic
    <3> QED  BY <1>1, <3>1, <3>2 DEF P
  <2>3. \A i \in r * C .. (r + 1) * C - 1 : data'[i] = data[i]
    BY <1>1, <1>7, <1>8, <1>10, <2>2
  <2> QED  BY <2>1, <2>3 DEF ShareKept
<1>14. ShareKept(P .. P + C - 1, raw, data')
  <2> DEFINE numbers == {raw[i] : i \in P .. P + C - 1} \ {MinusInf}
             top == CHOOSE x \in numbers : \A y \in numbers : x >= y
  <2> SUFFICES ASSUME numbers # {}, numbers \subseteq Int,
                      NEW i \in P .. P + C - 1
               PROVE  /\ data'[i] \in {Minus(raw[i], top), MinusInf}
                      /\ raw[i] = top => data'[i] = 0
    BY DEF ShareKept
  <2>2. ASSUME NEW k \in 0 .. C - 1
        PROVE  Row[k] = raw[P + k] /\ Row[k] \in Numbers \union {MinusInf}
    <3>1. P + k \in Array(dims) /\ P + k \in P .. P + C - 1
      BY <1>1, <1>7, <1>8
    <3>2. Row[k] = raw[P + k]  BY <1>4, <1>7, <1>11, <3>1 DEF Row, C
    <3>3. raw[P + k] \in Floats /\ raw[P + k] \in Int \union {MinusInf}
      BY <1>4, <3>1
    <3> QED  BY <3>2, <3>3, NumbersAssumption DEF Floats
  <2>3. numbers = {Row[k] : k \in 0 .. C - 1} \intersect Numbers
    <3>1. \A x : x \in {raw[j] : j \in P .. P + C - 1} <=> x \in {Row[k] : k \in 0 .. C - 1}
      <4>1. \A j \in P .. P + C - 1 : j - P \in 0 .. C - 1 /\ P + (j - P) = j
        BY <1>1, <1>7
      <4>2. \A k \in 0 .. C - 1 : P + k \in P .. P + C - 1  BY <1>1, <1>7
      <4> QED  BY <2>2, <4>1, <4>2
    <3>2. MinusInf \notin Numbers  BY NumbersAssumption
    <3> QED  BY <2>2, <3>1, <3>2
  <2> DEFINE I == {k \in 0 .. C - 1 : Row[k] \in Numbers}
  <2>4. PICK t \in I : \A k \in I : Row[t] >= Row[k]
    <3>1. I # {} /\ I \subseteq 0 .. C - 1  BY <2>3
    <3>2. \A k \in I : Row[k] \in Int  BY NumbersAssumption
    <3> HIDE DEF I
    <3> QED  BY <1>1, <3>1, <3>2, LargestExists
  <2>5. top = Row[t]
    <3>0. numbers \subseteq Int  OBVIOUS
    <3>1. Row[t] \in numbers /\ \A y \in numbers : Row[t] >= y  BY <2>3, <2>4
    <3>2. top \in numbers /\ \A y \in numbers : top >= y  BY <3>1
    <3> HIDE DEF numbers, top
    <3>3. Row[t] \in Int /\ top \in Int  BY <3>0, <3>1, <3>2
    <3> QED  BY <3>1, <3>2, <3>3
  <2>6. i - P \in 0 .. C - 1 /\ P + (i - P) = i /\ i \in Array(dims)
    BY <1>1, <1>7, <1>8
  <2>7. raw[i] = Row[i - P] /\ data'[i] = new[i - P]  BY <1>10, <2>2, <2>6
  <2>8. /\ new[i - P] \in {Minus(Row[i - P], Row[t]), MinusInf}
        /\ Row[i - P] = Row[t] => new[i - P] = 0
    <3> DEFINE k == i - P
    <3>1. \A j \in DOMAIN Row : Row[j] \in Numbers \union {MinusInf}  BY <1>5, <2>2
    <3>2. t \in DOMAIN Row /\ Row[t] \in Numbers
          /\ \A j \in DOMAIN Row : Row[j] \in Numbers => Row[t] >= Row[j]
      BY <1>5, <2>4
    <3>3. k \in DOMAIN Row  BY <1>5, <2>6
    <3> HIDE DEF k, I
    <3>4. new[k] \in {Minus(Row[k], Row[t]), MinusInf} /\ (Row[k] = Row[t] => new[k] = 0)
      BY <1>2, <3>1, <3>2, <3>3, RowShares
    <3> QED  BY <3>4 DEF k
  <2> QED  BY <2>5, <2>7, <2>8
<1>15. ASSUME NEW r \in 0 .. seq' - 1
       PROVE  ShareKept(r * C .. (r + 1) * C - 1, raw, data')
  <2>1. CASE r = seq
    <3>1. r * C = P /\ (r + 1) * C = P + C  BY <1>1, <2>1 DEF P
    <3> DEFINE past == (r + 1) * C
               cells == r * C .. past - 1
    <3>2. past = P + C /\ r * C = P  BY <3>1
    <3> HIDE DEF past
    <3>3. \A i : i \in cells <=> i \in P .. P + C - 1  BY <1>1, <1>7, <3>2
    <3>4. cells = P .. P + C - 1
      <4>1. cells \subseteq P .. P + C - 1 /\ P .. P + C - 1 \subseteq cells
        BY <3>3, Zenon
      <4> QED  BY <4>1, Zenon
    <3> QED  BY <1>14, <3>4, Zenon DEF past
  <2>2. CASE r # seq
    <3>1. r \in 0 .. seq - 1  BY <1>1, <1>6, <2>2
    <3> QED  BY <1>13, <3>1
  <2> QED  BY <2>1, <2>2
<1>16. SharesKept'
  <2>1. SharesKept' <=>
          (batch' = 1 => \A r \in 0 .. seq' - 1 :
             ShareKept(r * codes' .. (r + 1) * codes' - 1, raw', data'))
    BY DEF SharesKept, ShareKept
  <2> QED  BY <1>3, <1>15, <2>1 DEF C
<1> QED  BY <1>12, <1>16

----------------------------------------------------------------------------
(* The statements of RunInferenceOnImage                                   *)

\* A file that is missing is never opened, and once the ifstream has met the
\* end of the file all of it is in the graph.
Delivered ==
  /\ size = Missing => pc \in {"idle", "NewSession", "FilePath", "aborted"}
  /\ pc = "Read" /\ ifs_ = "eof" => graph = size

LoadInv == TypeOK /\ Delivered /\ WholeGraph

LEMMA SizeType ==
  ASSUME TypeOK, size # Missing
  PROVE  size \in Nat /\ 0 <= size
<1>1. size \in Nat  BY SizesAssumption DEF TypeOK
<1> QED  BY <1>1

(* What one Read answers and how much is left.                             *)
LEMMA ReadBounds ==
  ASSUME TypeOK, size # Missing, NEW n \in -1 .. BlockSize, NEW state, Read(n, state)
  PROVE  /\ graph + n <= size
         /\ ifs_ = "eof" => n = -1 /\ state = "eof"
         /\ ifs_ = "bad" => state = "bad"
         /\ state = "eof" /\ ifs_ = "good" => graph + n = size
         /\ state = "good" => n = BlockSize
<1>1. size \in Nat /\ graph \in Nat /\ graph <= size /\ BlockSize \in Nat \ {0}
  BY SizeType, SizesAssumption DEF TypeOK
<1>2. Min(BlockSize, size - graph) \in 0 .. size - graph
  BY <1>1 DEF Min
<1>3. Min(BlockSize, size - graph) < BlockSize
        => Min(BlockSize, size - graph) = size - graph
  BY <1>1 DEF Min
<1>4. Min(BlockSize, size - graph) <= BlockSize  BY <1>1 DEF Min
<1>5. ifs_ \in {"good", "eof", "bad"}  BY DEF TypeOK
<1> QED  BY <1>1, <1>2, <1>3, <1>4, <1>5 DEF Read

LEMMA ReadBlockInv ==
  ASSUME LoadInv, ReadBlock
  PROVE  LoadInv'
<1>1. pc = "Read" /\ size # Missing  BY DEF ReadBlock, LoadInv, Delivered
<1>2. PICK n \in -1 .. BlockSize, state \in {"good", "eof", "bad"} :
        /\ Read(n, state)
        /\ ifs_' = state
        /\ EndOfStream(n, state) \/ Block(n, state)
  BY DEF ReadBlock
<1>3. UNCHANGED <<size, wellFormed, alive, answer>>  BY DEF ReadBlock
<1>4. TypeOK /\ size \in Nat /\ graph \in Nat /\ graph <= size /\ BlockSize \in Nat \ {0}
  BY <1>1, SizeType, SizesAssumption DEF LoadInv, TypeOK
<1>5. /\ graph + n <= size
      /\ ifs_ = "eof" => n = -1 /\ state = "eof"
      /\ ifs_ = "bad" => state = "bad"
      /\ state = "eof" /\ ifs_ = "good" => graph + n = size
      /\ state = "good" => n = BlockSize
  BY <1>1, <1>2, <1>4, ReadBounds
<1>6. ifs_ \in {"good", "eof", "bad"}  BY <1>4 DEF TypeOK
<1>7. CASE EndOfStream(n, state)
  <2>1. n <= 0 /\ pc' = "Close" /\ graph' = graph
    BY <1>7 DEF EndOfStream, Goto
  <2>2. state # "bad" => graph = size
    <3>1. CASE ifs_ = "eof"  BY <1>1, <3>1 DEF LoadInv, Delivered
    <3>2. CASE ifs_ = "good" /\ state = "eof"
      BY <1>2, <1>4, <1>5, <2>1, <3>2 DEF Read
    <3>3. CASE state = "good"  BY <1>4, <1>5, <2>1, <3>3
    <3> QED  BY <1>2, <1>5, <1>6, <3>1, <3>2, <3>3
  <2>3. /\ parsed' \in BOOLEAN
        /\ graph = size /\ size < BytesLimit => parsed' = wellFormed
    BY <1>4, <1>7 DEF EndOfStream, TypeOK
  <2>4. TypeOK'
    BY <1>2, <1>3, <1>4, <2>1, <2>3 DEF TypeOK
  <2>5. Delivered'  BY <1>1, <1>3, <2>1 DEF Delivered
  <2>6. WholeGraph'
    BY <1>2, <1>3, <1>4, <2>1, <2>2, <2>3 DEF WholeGraph
  <2> QED  BY <2>4, <2>5, <2>6 DEF LoadInv
<1>8. CASE Block(n, state) /\ pc' = "Read"
  <2>1. n > 0 /\ graph' = graph + n /\ parsed' = parsed
    BY <1>8 DEF Block, Goto
  <2>2. TypeOK'
    <3>1. graph' \in Nat /\ graph' <= size  BY <1>4, <1>5, <2>1
    <3>2. pc' = "Read"  BY <1>8
    <3> QED  BY <1>2, <1>3, <1>4, <2>1, <3>1, <3>2 DEF TypeOK
  <2>3. Delivered'
    BY <1>1, <1>2, <1>3, <1>5, <1>6, <1>8, <2>1 DEF Delivered
  <2>4. WholeGraph'  BY <1>8 DEF WholeGraph
  <2> QED  BY <2>2, <2>3, <2>4 DEF LoadInv
<1>9. CASE Block(n, state) /\ pc' # "Read"
  <2>1. /\ pc' = "Close" /\ graph' = graph /\ parsed' = FALSE
        /\ graph + n > BytesLimit \/ ~wellFormed
    BY <1>9 DEF Block, Goto
  <2>2. TypeOK'  BY <1>2, <1>3, <1>4, <2>1 DEF TypeOK
  <2>3. Delivered'  BY <1>1, <1>3, <2>1 DEF Delivered
  <2>4. WholeGraph'
    <3>1. wellFormed => size > BytesLimit
      BY <1>4, <1>5, <2>1, SizesAssumption
    <3> QED  BY <1>3, <1>4, <2>1, <3>1, SizesAssumption DEF WholeGraph
  <2> QED  BY <2>2, <2>3, <2>4 DEF LoadInv
<1> QED  BY <1>2, <1>7, <1>8, <1>9

(* The other statements change nothing of what the file has delivered.     *)
LEMMA OtherInv ==
  ASSUME LoadInv, Call \/ NewSession \/ FilePathForResourceName \/ Open
                  \/ CloseStream \/ Infer
  PROVE  LoadInv'
<1> USE DEF LoadInv, TypeOK, Delivered, WholeGraph, Goto
<1>1. CASE Call  BY <1>1 DEF Call
<1>2. CASE NewSession  BY <1>2 DEF NewSession, Return
<1>3. CASE FilePathForResourceName  BY <1>3 DEF FilePathForResourceName
<1>4. CASE Open
  <2>1. size # Missing => 0 <= size  BY SizeType
  <2>2. /\ pc' = "Read" /\ pc = "Open" /\ ifs_' \in {"good", "bad"} /\ graph' = 0
        /\ alive' = alive \union {"stream"}
        /\ UNCHANGED <<size, wellFormed, parsed, answer>>
    BY <1>4 DEF Open
  <2>3. TypeOK'  BY <2>1, <2>2
  <2> QED  BY <2>2, <2>3
<1>5. CASE CloseStream  BY <1>5 DEF CloseStream
<1>6. CASE Create  BY <1>6 DEF Create, Return
<1>7. CASE Allocate  BY <1>7 DEF Allocate
<1>8. CASE Delete  BY <1>8 DEF Delete
<1>9. CASE Run  BY <1>9 DEF Run, Return
<1>10. CASE Decode  BY <1>10 DEF Decode, Return
<1> QED
  BY <1>1, <1>2, <1>3, <1>4, <1>5, <1>6, <1>7, <1>8, <1>9, <1>10 DEF Infer

LEMMA LoadInvariant == Spec => []LoadInv
<1>1. Init => LoadInv
  <2> SUFFICES ASSUME Init PROVE LoadInv  OBVIOUS
  <2>1. size # Missing => 0 <= size  BY SizesAssumption DEF Init
  <2>2. TypeOK  BY <2>1 DEF Init, TypeOK
  <2> QED  BY <2>2 DEF Init, LoadInv, Delivered, WholeGraph
<1>2. LoadInv /\ [Next]_vars => LoadInv'
  <2> SUFFICES ASSUME LoadInv, [Next]_vars PROVE LoadInv'  OBVIOUS
  <2>1. CASE ReadBlock  BY <2>1, ReadBlockInv
  <2>2. CASE Call \/ NewSession \/ FilePathForResourceName \/ Open
             \/ CloseStream \/ Infer
    BY <2>2, OtherInv
  <2>3. CASE UNCHANGED vars
    BY <2>3 DEF vars, LoadInv, TypeOK, Delivered, WholeGraph
  <2> QED  BY <2>1, <2>2, <2>3 DEF Next, Load
<1> QED  BY <1>1, <1>2, PTL DEF Spec

(* What is alive while a call stands at a statement: between the statement *)
(* that makes an object and the one that ends it there is no way out.      *)
Owned ==
  CASE pc \in {"idle", "NewSession"} -> {}
    [] pc \in {"Read", "Close"} -> {"session", "stream"}
    [] pc = "Delete" -> {"session", "target_data"}
    [] OTHER -> {"session"}

AliveInv == TypeOK /\ alive = Owned

(* Every statement leaves alive what the next one is to find.              *)
LEMMA AliveStep == AliveInv /\ TypeOK' /\ [Next]_vars => AliveInv'
<1> SUFFICES ASSUME AliveInv, TypeOK', [Next]_vars PROVE alive' = Owned'
  BY DEF AliveInv
<1> USE DEF AliveInv, Owned, Goto
<1>1. CASE Call  BY <1>1 DEF Call
<1>2. CASE NewSession  BY <1>2 DEF NewSession, Return
<1>3. CASE FilePathForResourceName  BY <1>3 DEF FilePathForResourceName
<1>4. CASE Open  BY <1>4 DEF Open
<1>5. CASE ReadBlock  BY <1>5 DEF ReadBlock, EndOfStream, Block
<1>6. CASE CloseStream  BY <1>6 DEF CloseStream
<1>7. CASE Create  BY <1>7 DEF Create, Return
<1>8. CASE Allocate  BY <1>8 DEF Allocate
<1>9. CASE Delete  BY <1>9 DEF Delete
<1>10. CASE Run  BY <1>10 DEF Run, Return
<1>11. CASE Decode  BY <1>11 DEF Decode, Return
<1>12. CASE UNCHANGED vars  BY <1>12 DEF vars
<1> QED
  BY <1>1, <1>2, <1>3, <1>4, <1>5, <1>6, <1>7, <1>8, <1>9, <1>10, <1>11, <1>12
  DEF Next, Load, Infer

(* No way out of a call leaves a session, a stream or an array behind.     *)
LEMMA NothingIsLeft == Spec => []NothingLeft
<1>1. Init /\ TypeOK => AliveInv  BY DEF Init, AliveInv, Owned
<1>2. AliveInv => NothingLeft  BY DEF AliveInv, Owned, NothingLeft
<1>3. LoadInv => TypeOK  BY DEF LoadInv
<1> QED  BY <1>1, <1>2, <1>3, AliveStep, LoadInvariant, PTL DEF Spec

----------------------------------------------------------------------------
(* The call with its loops                                                 *)

(* Whatever the session answers, the loops begin in order.                 *)
LEMMA OutputInv ==
  ASSUME NEW d \in Dims, NEW floats \in [Array(d) -> Floats], Output(d, floats)
  PROVE  SharesInv'
<1>1. /\ dims' = d /\ raw' = floats /\ data' = floats
      /\ seq' = 0 /\ batch_idx' = 1 /\ visited' = {}
  BY DEF Output
<1>2. /\ sequence_length' \in Nat \ {0} /\ batch' \in Nat \ {0} /\ codes' \in Nat \ {0}
  BY <1>1, DimsAssumption DEF sequence_length, batch, codes
<1>3. DecodeTypeOK'  BY <1>1, <1>2 DEF DecodeTypeOK
<1>4. InBounds'  BY <1>1 DEF InBounds
<1>5. RowsInOrder'
  <2>1. \A n \in Nat : 0 .. 0 * n - 1 = {}  OBVIOUS
  <2> QED  BY <1>1, <1>2, <2>1 DEF RowsInOrder
<1>6. Ahead'  BY <1>1 DEF Ahead
<1>7. SharesKept'
  <2>1. 0 .. seq' - 1 = {}  BY <1>1
  <2> QED  BY <2>1 DEF SharesKept
<1> QED  BY <1>3, <1>4, <1>5, <1>6, <1>7 DEF SharesInv, LoopInv

(* Statements that do not touch the output leave the loops alone.          *)
LEMMA SharesStutter ==
  ASSUME SharesInv, UNCHANGED decodeVars
  PROVE  SharesInv'
<1>1. UNCHANGED <<dims, raw, data, seq, batch_idx, visited,
                  sequence_length, batch, codes>>
  BY DEF decodeVars, sequence_length, batch, codes
<1>2. LoopInv'
  BY <1>1 DEF SharesInv, LoopInv, DecodeTypeOK, InBounds, RowsInOrder
<1>3. Ahead'  BY <1>1 DEF SharesInv, Ahead
<1>4. SharesKept' <=>
        (batch' = 1 => \A r \in 0 .. seq' - 1 :
           ShareKept(r * codes' .. (r + 1) * codes' - 1, raw', data'))
  BY DEF SharesKept, ShareKept
<1>5. SharesKept'  BY <1>1, <1>4, SharesKeptByRow DEF SharesInv
<1> QED  BY <1>2, <1>3, <1>5 DEF SharesInv

LEMMA NoOutputIsOutput == NoOutput \in Dims /\ Nothing \in [Array(NoOutput) -> Floats]
BY SomeDims DEF NoOutput, Nothing, Floats

LEMMA LoopsInvariant == OCRSpec => []SharesInv
<1>1. OCRInit => SharesInv
  <2> SUFFICES ASSUME OCRInit PROVE SharesInv  OBVIOUS
  <2>1. /\ dims \in Dims /\ raw \in [Array(dims) -> Floats] /\ data = raw
        /\ seq = 0 /\ batch_idx = 1 /\ visited = {}
    BY NoOutputIsOutput DEF OCRInit
  <2>2. sequence_length \in Nat \ {0} /\ batch \in Nat \ {0} /\ codes \in Nat \ {0}
    BY <2>1, DimsType
  <2>3. 0 * codes = 0 /\ 0 .. 0 - 1 = {} /\ 0 .. seq - 1 = {}  BY <2>1, <2>2
  <2>4. LoopInv
    BY <2>1, <2>2, <2>3 DEF LoopInv, DecodeTypeOK, InBounds, RowsInOrder
  <2> QED  BY <2>1, <2>3, <2>4 DEF SharesInv, Ahead, SharesKept
<1>2. SharesInv /\ [OCRNext]_<<vars, decodeVars>> => SharesInv'
  <2> SUFFICES ASSUME SharesInv, [OCRNext]_<<vars, decodeVars>> PROVE SharesInv'
    OBVIOUS
  <2>1. CASE Statement  BY <2>1, SharesStutter DEF Statement
  <2>2. CASE RunSession  BY <2>2, OutputInv, SharesStutter DEF RunSession
  <2>3. CASE ctt_beam_decode
    <3>1. Iterate  BY <2>3 DEF ctt_beam_decode
    <3> QED  BY <3>1, IterateInv, IterateShares DEF SharesInv
  <2>4. CASE Finish  BY <2>4, OutputInv, NoOutputIsOutput DEF Finish
  <2>5. CASE UNCHANGED <<vars, decodeVars>>  BY <2>5, SharesStutter
  <2> QED  BY <2>1, <2>2, <2>3, <2>4, <2>5 DEF OCRNext
<1> QED  BY <1>1, <1>2, PTL DEF OCRSpec

(* The call with its loops does what the call alone does: to CTPNOcr the   *)
(* loops are a stuttering.                                                 *)
THEOREM CallsAsAlone == OCRSpec => Spec
<1>1. OCRInit => Init  BY DEF OCRInit
<1>2. [OCRNext]_<<vars, decodeVars>> => [Next]_vars
  <2> SUFFICES ASSUME [OCRNext]_<<vars, decodeVars>> PROVE [Next]_vars  OBVIOUS
  <2>1. CASE Statement  BY <2>1 DEF Statement, Next, Infer
  <2>2. CASE RunSession  BY <2>2 DEF RunSession, Next, Infer
  <2>3. CASE ctt_beam_decode  BY <2>3 DEF ctt_beam_decode
  <2>4. CASE Finish  BY <2>4 DEF Finish, Next, Infer
  <2>5. CASE UNCHANGED <<vars, decodeVars>>  BY <2>5
  <2> QED  BY <2>1, <2>2, <2>3, <2>4, <2>5 DEF OCRNext
<1> QED  BY <1>1, <1>2, PTL DEF OCRSpec, Spec

(* The call's state is what its declarations say, and no more is parsed    *)
(* than the file holds.                                                    *)
THEOREM TypeCorrect == OCRSpec => []TypeOK
BY CallsAsAlone, LoadInvariant, PTL DEF LoadInv

(* When no read failed, a graph that was parsed is the whole file, and a   *)
(* file that is a graph below the limit was parsed.                        *)
THEOREM AlwaysWholeGraph == OCRSpec => []WholeGraph
BY CallsAsAlone, LoadInvariant, PTL DEF LoadInv

(* No way out of a call leaves a session, a stream or an array behind.     *)
THEOREM NothingEverLeft == OCRSpec => []NothingLeft
BY CallsAsAlone, NothingIsLeft, PTL

(* The loops' indices and arrays keep their types.                         *)
THEOREM DecodeTypeCorrect == OCRSpec => []DecodeTypeOK
BY LoopsInvariant, PTL DEF SharesInv, LoopInv

(* Whatever the dimensions, no position outside the array is written.      *)
THEOREM AlwaysInBounds == OCRSpec => []InBounds
BY LoopsInvariant, PTL DEF SharesInv, LoopInv

(* For one batch the rows are taken one after the other.                   *)
THEOREM RowsAlwaysInOrder == OCRSpec => []RowsInOrder
BY LoopsInvariant, PTL DEF SharesInv, LoopInv

(* A row of numbers becomes one of logarithms, whatever the size of the    *)
(* array and however the numbers lie: none is NaN, the largest's is        *)
(* largest, the others keep their distance from it unless they underflow.  *)
THEOREM SharesAlwaysKept == OCRSpec => []SharesKept
BY LoopsInvariant, PTL DEF SharesInv
=============================================================================
