------------------------- MODULE ComputePassProofs -------------------------
(***************************************************************************)
(* For every picture, kernel, group shape and number of callers: a call    *)
(* that returned has put every texel through the kernel, and the whole     *)
(* protocol implements ImageOp.                                            *)
(***************************************************************************)
EXTENDS ComputePass, TLAPS

----------------------------------------------------------------------------
(* Division, as far as covering a picture with thread groups needs it.     *)

LEMMA DivMod ==
  ASSUME NEW x \in Nat, NEW d \in Nat \ {0}
  PROVE  x = (x \div d) * d + (x % d) /\ x \div d \in Nat /\ x % d \in 0 .. d - 1
  OBVIOUS

LEMMA Monotonic ==
  ASSUME NEW a \in Nat, NEW b \in Nat, NEW d \in Nat, a <= b
  PROVE  a * d <= b * d
<1>1. PICK k \in Nat : b = a + k
  <2>1. b - a \in Nat /\ b = a + (b - a)  OBVIOUS
  <2> QED  BY <2>1
<1>2. b * d = a * d + k * d  BY <1>1
<1>3. k * d \in Nat  OBVIOUS
<1> QED  BY <1>2, <1>3

(* As many groups of d as CeilDiv gives reach every position below n.      *)
LEMMA CeilDivCovers ==
  ASSUME NEW n \in Nat \ {0}, NEW d \in Nat \ {0}, NEW x \in 0 .. n - 1
  PROVE  x \div d \in 0 .. CeilDiv(n, d) - 1
<1> DEFINE q == x \div d
           m == CeilDiv(n, d)
<1>1. q \in Nat /\ q * d <= x
  <2>1. x \in Nat /\ x % d \in 0 .. d - 1  OBVIOUS
  <2>2. x = q * d + (x % d) /\ q \in Nat  BY <2>1, DivMod
  <2> QED  BY <2>1, <2>2
<1>2. m \in Nat /\ m * d >= n
  <2>1. n + d - 1 \in Nat  OBVIOUS
  <2>2. m = (n + d - 1) \div d  BY DEF CeilDiv
  <2>3. n + d - 1 = m * d + ((n + d - 1) % d) /\ m \in Nat
    BY <2>1, <2>2, DivMod
  <2>4. (n + d - 1) % d \in 0 .. d - 1  BY <2>1, DivMod
  <2> HIDE DEF m
  <2>5. m * d \in Nat  BY <2>3
  <2> QED  BY <2>3, <2>4, <2>5
<1> HIDE DEF q, m
<1>3. ASSUME m <= q PROVE FALSE
  <2>1. m * d <= q * d  BY <1>1, <1>2, <1>3, Monotonic
  <2>2. m * d \in Nat /\ q * d \in Nat  BY <1>1, <1>2
  <2> QED  BY <1>1, <1>2, <2>1, <2>2
<1>4. q \in 0 .. m - 1  BY <1>1, <1>2, <1>3
<1> QED  BY <1>4 DEF q, m

(* A thread group has at least one row.                                    *)
LEMMA GroupShapeType ==
  ASSUME NEW job \in Jobs
  PROVE  GroupShape(job) \in (Nat \ {0}) \X (Nat \ {0})
<1>1. /\ ExecutionWidth[job] \in Nat \ {0} /\ MaxThreads[job] \in Nat \ {0}
      /\ MaxThreads[job] >= ExecutionWidth[job]
  BY PipelineAssumption
<1>2. ASSUME NEW m \in Nat \ {0}, NEW w \in Nat \ {0}, m >= w
      PROVE  m \div w \in Nat \ {0}
  <2>1. m = (m \div w) * w + (m % w) /\ m \div w \in Nat /\ m % w \in 0 .. w - 1
    BY DivMod
  <2>2. m \div w # 0  BY <1>2, <2>1
  <2> QED  BY <2>1, <2>2
<1> QED  BY <1>1, <1>2 DEF GroupShape

(* Every texel of a picture has a thread of the dispatch.                  *)
LEMMA DispatchCovers ==
  ASSUME NEW job \in Jobs, NEW size \in (Nat \ {0}) \X (Nat \ {0}),
         NEW p \in Pixels(size)
  PROVE  \E t \in Dispatch(job, size) : Gid(job, t) = p
<1> DEFINE g == GroupShape(job)
           group == <<p[1] \div g[1], p[2] \div g[2]>>
           lane == <<p[1] % g[1], p[2] % g[2]>>
<1>1. g[1] \in Nat \ {0} /\ g[2] \in Nat \ {0}  BY GroupShapeType
<1>2. /\ size[1] \in Nat \ {0} /\ size[2] \in Nat \ {0}
      /\ p[1] \in 0 .. size[1] - 1 /\ p[2] \in 0 .. size[2] - 1
      /\ p = <<p[1], p[2]>>
  BY DEF Pixels
<1> HIDE DEF g
<1>3. /\ p[1] \div g[1] \in 0 .. CeilDiv(size[1], g[1]) - 1
      /\ p[2] \div g[2] \in 0 .. CeilDiv(size[2], g[2]) - 1
  BY <1>1, <1>2, CeilDivCovers
<1>4. group \in Groups(job, size)  BY <1>3 DEF Groups, g
<1>5. /\ p[1] = (p[1] \div g[1]) * g[1] + (p[1] % g[1])
      /\ p[2] = (p[2] \div g[2]) * g[2] + (p[2] % g[2])
      /\ p[1] % g[1] \in 0 .. g[1] - 1 /\ p[2] % g[2] \in 0 .. g[2] - 1
  <2>1. p[1] \in Nat /\ p[2] \in Nat  BY <1>2
  <2> QED  BY <1>1, <2>1, DivMod
<1>6. lane \in Lanes(job)  BY <1>5 DEF Lanes, g
<1>7. <<group, lane>> \in Dispatch(job, size)  BY <1>4, <1>6 DEF Dispatch
<1>8. Gid(job, <<group, lane>>) = p  BY <1>2, <1>5 DEF Gid, g
<1> QED  BY <1>7, <1>8

----------------------------------------------------------------------------
(* The kernel writes at most its own texel, and with a texel.              *)
LEMMA RunKernelType ==
  ASSUME NEW job \in Jobs, NEW S, NEW gid,
         NEW inTexture \in [S -> Texels], NEW outTexture \in [S -> Texels]
  PROVE  /\ RunKernel(job, gid, inTexture, outTexture) \in [S -> Texels]
         /\ \A p \in S : RunKernel(job, gid, inTexture, outTexture)[p] =
              IF gid = p THEN Kernel[job][inTexture[p]] ELSE outTexture[p]
<1>1. Kernel[job] \in [Texels -> Texels]  BY KernelAssumption
<1> QED  BY <1>1 DEF RunKernel

(* A picture has positive sides and a texel for each of its pixels.        *)
LEMMA PictureTypes ==
  ASSUME NEW picture \in Pictures
  PROVE  /\ IsPicture(picture)
         /\ picture.size \in (Nat \ {0}) \X (Nat \ {0})
         /\ picture.texel \in [Pixels(picture.size) -> Texels]
  BY PicturesAssumption DEF IsPicture

LEMMA InitTypeOK == Init => TypeOK
<1> SUFFICES ASSUME Init PROVE TypeOK  OBVIOUS
<1> DEFINE job == CHOOSE j \in Jobs : TRUE
           picture == CHOOSE p \in Pictures : TRUE
<1>1. job \in Jobs /\ picture \in Pictures
  BY KernelAssumption, PicturesAssumption
<1>2. /\ pc = [c \in Callers |-> "idle"]
      /\ call = [c \in Callers |-> [job |-> job, picture |-> picture]]
      /\ srcTexture = [c \in Callers |-> picture.texel]
      /\ destTexture = [c \in Callers |-> picture.texel]
      /\ status = [c \in Callers |-> "none"]
      /\ ran = [c \in Callers |-> {}]
      /\ outimg = [c \in Callers |-> picture]
  BY DEF Init
<1> HIDE DEF job, picture
<1> QED  BY <1>1, <1>2, PictureTypes DEF TypeOK

(* The steps of a call and of the device keep every variable's type.       *)
LEMMA TypeOKStep == TypeOK /\ [Next]_vars => TypeOK'
<1> SUFFICES ASSUME TypeOK, [Next]_vars PROVE TypeOK'  OBVIOUS
<1> USE DEF TypeOK, Moves
<1>1. ASSUME NEW c \in Callers, Start(c) PROVE TypeOK'
  <2>1. PICK job \in Jobs, picture \in Pictures :
          /\ call' = [call EXCEPT ![c] = [job |-> job, picture |-> picture]]
          /\ Upload(c, picture)
    BY <1>1 DEF Start
  <2>2. call' \in [Callers -> [job : Jobs, picture : Pictures]]  BY <2>1
  <2>3. ASSUME NEW d \in Callers
        PROVE  /\ srcTexture'[d] \in [Pixels(call'[d].picture.size) -> Texels]
               /\ destTexture'[d] \in [Pixels(call'[d].picture.size) -> Texels]
               /\ ran'[d] \subseteq Threads(d)'
    <3>1. CASE d = c
      BY <1>1, <2>1, <3>1, PictureTypes DEF Start, Upload
    <3>2. CASE d # c
      BY <1>1, <2>1, <3>2 DEF Start, Upload, Threads
    <3> QED  BY <3>1, <3>2
  <2> QED  BY <1>1, <2>1, <2>2, <2>3 DEF Start, Upload
<1>2. ASSUME NEW c \in Callers, Encode(c) PROVE TypeOK'
  BY <1>2 DEF Encode, Threads
<1>3. ASSUME NEW c \in Callers, Commit(c) PROVE TypeOK'
  BY <1>3 DEF Commit, Threads
<1>4. ASSUME NEW c \in Callers, WaitUntilCompleted(c) PROVE TypeOK'
  BY <1>4 DEF WaitUntilCompleted, Threads
<1>5. ASSUME NEW c \in Callers, GetBytes(c) PROVE TypeOK'
  <2>1. IsPicture([size |-> call[c].picture.size, texel |-> destTexture[c]])
    BY PictureTypes DEF IsPicture
  <2> QED  BY <1>5, <2>1 DEF GetBytes, Threads
<1>6. ASSUME NEW c \in Callers, NEW t \in Threads(c), RunThread(c, t) PROVE TypeOK'
  <2>1. destTexture'[c] \in [Pixels(call[c].picture.size) -> Texels]
    BY <1>6, RunKernelType DEF RunThread
  <2> QED  BY <1>6, <2>1 DEF RunThread, Threads
<1>7. ASSUME NEW c \in Callers, Complete(c) \/ Fail(c) PROVE TypeOK'
  BY <1>7 DEF Complete, Fail, Threads
<1>8. CASE UNCHANGED vars  BY <1>8 DEF vars, Threads
<1> QED
  BY <1>1, <1>2, <1>3, <1>4, <1>5, <1>6, <1>7, <1>8 DEF Next, Step, Device

(* Each variable holds what its declaration says.                          *)
THEOREM TypeCorrect == Spec => []TypeOK
<1> QED  BY InitTypeOK, TypeOKStep, PTL DEF Spec

----------------------------------------------------------------------------
(* Where the caller stands tells what its command buffer may have become:  *)
(* no thread of the GPU is left when the caller reads the texture.         *)
Waited ==
  \A c \in Callers :
    /\ pc[c] = "uploaded" => status[c] = "none"
    /\ pc[c] = "encoded" => status[c] = "notEnqueued"
    /\ pc[c] = "waiting" => status[c] \in {"committed", "completed", "error"}
    /\ pc[c] = "completed" => status[c] \in {"completed", "error"}
    /\ pc[c] = "idle" => status[c] \in {"none", "completed", "error"}

(* The source stays the caller's picture, and the destination differs from *)
(* it in just the texels whose thread has run; a completed buffer has run  *)
(* every thread.                                                           *)
Written ==
  \A c \in Callers :
    /\ srcTexture[c] = call[c].picture.texel
    /\ \A p \in Pixels(call[c].picture.size) :
         destTexture[c][p] =
           IF \E t \in ran[c] : Gid(call[c].job, t) = p
           THEN Kernel[call[c].job][srcTexture[c][p]]
           ELSE srcTexture[c][p]
    /\ status[c] = "completed" => ran[c] = Threads(c)

(* What a finished call returned is its destination texture.               *)
Returned ==
  \A c \in Callers : pc[c] = "idle" /\ status[c] # "none" =>
    outimg[c] = [size |-> call[c].picture.size, texel |-> destTexture[c]]

PassInv == TypeOK /\ Waited /\ Written /\ Returned

LEMMA InitPassInv == Init /\ TypeOK => PassInv
<1> SUFFICES ASSUME Init, TypeOK PROVE Waited /\ Written /\ Returned
  BY DEF PassInv
<1> DEFINE job == CHOOSE j \in Jobs : TRUE
           picture == CHOOSE p \in Pictures : TRUE
<1>1. /\ pc = [c \in Callers |-> "idle"]
      /\ call = [c \in Callers |-> [job |-> job, picture |-> picture]]
      /\ srcTexture = [c \in Callers |-> picture.texel]
      /\ destTexture = [c \in Callers |-> picture.texel]
      /\ status = [c \in Callers |-> "none"]
      /\ ran = [c \in Callers |-> {}]
  BY DEF Init
<1> HIDE DEF job, picture
<1> QED  BY <1>1 DEF Waited, Written, Returned

(* Every step keeps the invariant.                                         *)
LEMMA PassInvStep == PassInv /\ TypeOK' /\ [Next]_vars => PassInv'
<1> SUFFICES ASSUME PassInv, TypeOK', [Next]_vars
             PROVE  Waited' /\ Written' /\ Returned'
  BY DEF PassInv
<1> USE DEF PassInv, Moves, TypeOK
<1>1. ASSUME NEW c \in Callers, Start(c) PROVE Waited' /\ Written' /\ Returned'
  <2>1. PICK job \in Jobs, picture \in Pictures :
          /\ call' = [call EXCEPT ![c] = [job |-> job, picture |-> picture]]
          /\ Upload(c, picture)
    BY <1>1 DEF Start
  <2>2. Waited'  BY <1>1 DEF Start, Waited
  <2>3. Written'
    BY <1>1, <2>1 DEF Start, Upload, Written, Threads
  <2>4. Returned'
    BY <1>1, <2>1 DEF Start, Upload, Returned
  <2> QED  BY <2>2, <2>3, <2>4
<1>2. ASSUME NEW c \in Callers, Encode(c) PROVE Waited' /\ Written' /\ Returned'
  BY <1>2 DEF Encode, Waited, Written, Returned, Threads
<1>3. ASSUME NEW c \in Callers, Commit(c) PROVE Waited' /\ Written' /\ Returned'
  BY <1>3 DEF Commit, Waited, Written, Returned, Threads
<1>4. ASSUME NEW c \in Callers, WaitUntilCompleted(c)
      PROVE  Waited' /\ Written' /\ Returned'
  <2>1. Waited'  BY <1>4 DEF WaitUntilCompleted, Waited
  <2>2. Written'  BY <1>4 DEF WaitUntilCompleted, Written, Threads
  <2>3. Returned'  BY <1>4 DEF WaitUntilCompleted, Returned
  <2> QED  BY <2>1, <2>2, <2>3
<1>5. ASSUME NEW c \in Callers, GetBytes(c) PROVE Waited' /\ Written' /\ Returned'
  <2>1. Waited'  BY <1>5 DEF GetBytes, Waited
  <2>2. Written'  BY <1>5 DEF GetBytes, Written, Threads
  <2>3. Returned'  BY <1>5 DEF GetBytes, Returned
  <2> QED  BY <2>1, <2>2, <2>3
<1>6. ASSUME NEW c \in Callers, NEW t \in Threads(c), RunThread(c, t)
      PROVE  Waited' /\ Written' /\ Returned'
  <2>1. Waited'  BY <1>6 DEF RunThread, Waited
  <2>2. Returned'  BY <1>6 DEF RunThread, Waited, Returned
  <2>3. ASSUME NEW p \in Pixels(call[c].picture.size)
        PROVE  destTexture'[c][p] =
                 IF \E u \in ran'[c] : Gid(call[c].job, u) = p
                 THEN Kernel[call[c].job][srcTexture[c][p]]
                 ELSE srcTexture[c][p]
    <3>1. destTexture'[c][p] = IF Gid(call[c].job, t) = p
                               THEN Kernel[call[c].job][srcTexture[c][p]]
                               ELSE destTexture[c][p]
      BY <1>6, RunKernelType DEF RunThread
    <3>2. ran'[c] = ran[c] \union {t}  BY <1>6 DEF RunThread
    <3> QED  BY <3>1, <3>2 DEF Written
  <2>4. Written'
    BY <1>6, <2>3 DEF RunThread, Written, Threads
  <2> QED  BY <2>1, <2>2, <2>4
<1>7. ASSUME NEW c \in Callers, Complete(c) \/ Fail(c)
      PROVE  Waited' /\ Written' /\ Returned'
  <2>1. Waited'
    <3>1. pc[c] = "waiting"  BY <1>7 DEF Complete, Fail, Waited
    <3> QED  BY <1>7, <3>1 DEF Complete, Fail, Waited
  <2>2. Written'  BY <1>7 DEF Complete, Fail, Written, Threads
  <2>3. Returned'  BY <1>7 DEF Complete, Fail, Waited, Returned
  <2> QED  BY <2>1, <2>2, <2>3
<1>8. CASE UNCHANGED vars
  BY <1>8 DEF vars, Waited, Written, Returned, Threads
<1> QED
  BY <1>1, <1>2, <1>3, <1>4, <1>5, <1>6, <1>7, <1>8 DEF Next, Step, Device

LEMMA PassInvHolds == Spec => []PassInv
<1> QED  BY InitPassInv, PassInvStep, TypeCorrect, PTL DEF Spec

----------------------------------------------------------------------------
(* A texel of the destination that the caller may read is one the abstract *)
(* operation may answer with: here the dispatch's covering the picture     *)
(* matters.                                                                *)
LEMMA DestAnswers ==
  ASSUME PassInv, NEW c \in Callers, NEW p \in Pixels(call[c].picture.size),
         status[c] \in {"completed", "error"}
  PROVE  destTexture[c][p] \in
           IF status[c] = "completed"
           THEN {Kernel[call[c].job][call[c].picture.texel[p]]}
           ELSE {Kernel[call[c].job][call[c].picture.texel[p]],
                 call[c].picture.texel[p]}
<1> USE DEF PassInv, TypeOK
<1>1. CASE status[c] = "error"  BY <1>1 DEF Written
<1>2. CASE status[c] = "completed"
  <2>1. call[c].job \in Jobs /\ call[c].picture.size \in (Nat \ {0}) \X (Nat \ {0})
    BY PictureTypes
  <2>2. \E t \in ran[c] : Gid(call[c].job, t) = p
    BY <1>2, <2>1, DispatchCovers DEF Written, Threads
  <2> QED  BY <1>2, <2>2 DEF Written
<1> QED  BY <1>1, <1>2

(* A finished call returned a picture of the source's size, each texel of  *)
(* which the kernel produced, or, if the buffer failed, left alone.        *)
THEOREM ResultAlwaysCorrect == Spec => []ResultCorrect
<1>1. PassInv => ResultCorrect
  <2> SUFFICES ASSUME PassInv, NEW c \in Callers, pc[c] = "idle", status[c] # "none"
               PROVE  /\ outimg[c].size = call[c].picture.size
                      /\ outimg[c].texel = destTexture[c]
                      /\ status[c] \in {"completed", "error"}
    BY DestAnswers DEF ResultCorrect
  <2>1. outimg[c] = [size |-> call[c].picture.size, texel |-> destTexture[c]]
    BY DEF PassInv, Returned
  <2>2. status[c] \in {"completed", "error"}  BY DEF PassInv, Waited
  <2> QED  BY <2>1, <2>2
<1> QED  BY <1>1, PassInvHolds, PTL

(* Once a call has returned its texture is final.                          *)
THEOREM ReadbackAlwaysFinal == Spec => ReadbackIsFinal
<1> DEFINE Final == \A c \in Callers : pc[c] = "idle" /\ pc'[c] = "idle" =>
                      destTexture'[c] = destTexture[c]
<1>1. PassInv /\ [Next]_vars => [Final]_vars
  <2> SUFFICES ASSUME PassInv, NEW d \in Callers, NEW c \in Callers,
                      pc[c] = "idle", pc'[c] = "idle",
                      Start(d) \/ Encode(d) \/ Step(d) \/ Device(d)
               PROVE  destTexture'[c] = destTexture[c]
    BY DEF Next
  <2> USE DEF PassInv, TypeOK, Moves
  <2>1. CASE d # c
    BY <2>1 DEF Start, Upload, Encode, Step, Commit, WaitUntilCompleted,
         GetBytes, Device, RunThread, Complete, Fail
  <2>2. CASE d = c
    BY <2>2 DEF Start, Encode, Step, Commit, WaitUntilCompleted, GetBytes,
         Device, RunThread, Complete, Fail, Waited
  <2> QED  BY <2>1, <2>2
<1> QED  BY <1>1, PassInvHolds, PTL DEF Spec, ReadbackIsFinal

----------------------------------------------------------------------------
(* Every step is one of ImageOp's or changes nothing ImageOp sees: the     *)
(* upload asks, a failing buffer gives up, and the readback answers.       *)
LEMMA RefinesStep == PassInv /\ [Next]_vars => [Abs!OpNext]_(Abs!opVars)
<1> SUFFICES ASSUME PassInv, [Next]_vars
             PROVE  Abs!OpNext \/ UNCHANGED Abs!opVars
  OBVIOUS
<1> USE DEF PassInv, TypeOK, Moves, Abs!opVars
<1>1. ASSUME NEW c \in Callers, Start(c) PROVE Abs!OpNext
  <2>1. Abs!Ask(c)
    <3>1. PICK job \in Jobs, picture \in Pictures :
            call' = [call EXCEPT ![c] = [job |-> job, picture |-> picture]]
      BY <1>1 DEF Start
    <3> QED  BY <1>1, <3>1 DEF Start, Abs!Ask
  <2> QED  BY <2>1 DEF Abs!OpNext
<1>2. ASSUME NEW c \in Callers, Encode(c) PROVE UNCHANGED Abs!opVars
  BY <1>2 DEF Encode, Waited
<1>3. ASSUME NEW c \in Callers, Commit(c) PROVE UNCHANGED Abs!opVars
  BY <1>3 DEF Commit, Waited
<1>4. ASSUME NEW c \in Callers, WaitUntilCompleted(c) PROVE UNCHANGED Abs!opVars
  BY <1>4 DEF WaitUntilCompleted
<1>5. ASSUME NEW c \in Callers, GetBytes(c) PROVE Abs!OpNext
  <2>1. outimg' = [outimg EXCEPT ![c] = [size |-> call[c].picture.size,
                                         texel |-> destTexture[c]]]
    BY <1>5 DEF GetBytes
  <2>2. outimg'[c] = [size |-> call[c].picture.size, texel |-> destTexture[c]]
    BY <2>1
  <2>3. /\ status[c] \in {"completed", "error"}
        /\ DOMAIN call[c].picture.texel = Pixels(call[c].picture.size)
        /\ DOMAIN destTexture[c] = Pixels(call[c].picture.size)
    BY <1>5, PictureTypes DEF GetBytes, Waited
  <2>4. ASSUME NEW p \in DOMAIN call[c].picture.texel
        PROVE  outimg'[c].texel[p] \in
                 Abs!Answers(call[c].job, status[c] # "error", call[c].picture.texel[p])
    <3>1. outimg'[c].texel[p] = destTexture[c][p]  BY <2>2
    <3>2. p \in Pixels(call[c].picture.size)  BY <2>3
    <3> QED  BY <3>1, <3>2, <2>3, DestAnswers DEF Abs!Answers
  <2>5. /\ outimg'[c].texel = destTexture[c]
        /\ outimg' = [outimg EXCEPT ![c] = [size |-> call[c].picture.size,
                                            texel |-> outimg'[c].texel]]
    BY <2>1, <2>2
  <2>6. [d \in Callers |-> IF pc'[d] = "idle" THEN "idle" ELSE "busy"] =
          [[d \in Callers |-> IF pc[d] = "idle" THEN "idle" ELSE "busy"]
             EXCEPT ![c] = "idle"]
    BY <1>5 DEF GetBytes
  <2>7. pc[c] = "completed" /\ call' = call /\ status' = status
    BY <1>5 DEF GetBytes
  <2>8. DOMAIN outimg'[c].texel = DOMAIN call[c].picture.texel  BY <2>3, <2>5
  <2>9. Abs!Answer(c)
    BY <2>4, <2>5, <2>6, <2>7, <2>8 DEF Abs!Answer
  <2> QED  BY <2>9 DEF Abs!OpNext
<1>6. ASSUME NEW c \in Callers, NEW t \in Threads(c), RunThread(c, t)
      PROVE  UNCHANGED Abs!opVars
  BY <1>6 DEF RunThread
<1>7. ASSUME NEW c \in Callers, Complete(c) PROVE UNCHANGED Abs!opVars
  BY <1>7 DEF Complete
<1>8. ASSUME NEW c \in Callers, Fail(c) PROVE Abs!OpNext
  <2>1. pc[c] # "idle"  BY <1>8 DEF Fail, Waited
  <2>2. Abs!GiveUp(c)  BY <1>8, <2>1 DEF Fail, Abs!GiveUp
  <2> QED  BY <2>2 DEF Abs!OpNext
<1>9. CASE UNCHANGED vars  BY <1>9 DEF vars
<1> QED
  BY <1>1, <1>2, <1>3, <1>4, <1>5, <1>6, <1>7, <1>8, <1>9 DEF Next, Step, Device

LEMMA RefinesInit == Init /\ TypeOK => Abs!OpInit
<1> SUFFICES ASSUME Init, TypeOK PROVE Abs!OpInit  OBVIOUS
<1>1. /\ pc = [c \in Callers |-> "idle"]
      /\ status = [c \in Callers |-> "none"]
      /\ outimg \in [Callers -> Pictures]
  BY PicturesAssumption DEF Init
<1> QED  BY <1>1 DEF Abs!OpInit, TypeOK

(* grayTrans: and binaryTrans:Threshold:, GPU and all, do what ImageOp     *)
(* promises.                                                               *)
THEOREM Refinement == Spec => RefinesImageOp
<1> QED
  BY RefinesInit, RefinesStep, InitTypeOK, PassInvHolds, PTL
     DEF Spec, RefinesImageOp, Abs!OpSpec
=============================================================================
