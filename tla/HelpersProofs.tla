---------------------------- MODULE HelpersProofs ----------------------------
(***************************************************************************)
(* What Helpers says of pictures holds for every size, scales of every     *)
(* factor and rectangles of every extent, and what it says of objects and  *)
(* memory for any number of calls in any order, whatever is refused to     *)
(* them.  Pictures and GraphicsResources are proved about each on its own: *)
(* a behaviour of Helpers is one of both.                                  *)
(***************************************************************************)
EXTENDS Helpers, TLAPS

----------------------------------------------------------------------------
(* The statements of the helpers                                           *)

Obtains(s) == s.do \in {"create", "createOver", "malloc"}
Frees(s) == s.do \in {"release", "CFRelease", "handOver"}

\* The statement of a helper that obtains an object and the one that lets go
\* of it.
Never == 11
Life(h) ==
  CASE h = "imageByCropToRect" -> [imageRef |-> <<1, 4>>]
    [] h = "convertImageToGrayScale" ->
         [colorSpace |-> <<1, 6>>, context |-> <<2, 7>>, imageRef |-> <<4, 8>>]
    [] h = "CopyImagePixels" -> [data |-> <<1, 3>>]
    [] h = "getImageNSData" ->
         [colorSpace |-> <<1, 5>>, bytes |-> <<2, 8>>, context |-> <<3, 6>>]
    [] h = "imageFromBRGABytes" ->
         [bytes |-> <<1, 10>>, colorSpace |-> <<3, 7>>, context |-> <<4, 6>>,
          imageRef |-> <<5, 9>>]
    [] h = "loadImage" -> [bytes |-> <<1, 6>>, context |-> <<2, 4>>]
    [] h = "textureFromPixelBuffer" ->
         [textureCache |-> <<1, 6>>, metalTextureRef |-> <<2, 5>>]
    [] OTHER -> <<>>
From(h, o) == IF o \in DOMAIN Life(h) THEN Life(h)[o][1] ELSE Never
To(h, o) == IF o \in DOMAIN Life(h) THEN Life(h)[o][2] ELSE Never
Held(h, o, i) == From(h, o) < i /\ i <= To(h, o)

(* What a program has to keep to: an object is obtained once, used and     *)
(* taken only while it is held, and let go of once; bytes outlive what     *)
(* draws on them.  Of the one object that may hold garbage there are no    *)
(* copies, and CFRelease is given what may be NULL in one place.           *)
Keeps(h, i, s) ==
  /\ \A o \in Objects : From(h, o) = i <=> Obtains(s) /\ s.obj = o
  /\ \A o \in Objects : To(h, o) = i <=> Frees(s) /\ s.obj = o
  /\ s.obj \in Objects /\ s.takes \subseteq Objects
  /\ Frees(s) \/ s.do \in {"draw", "answer"} => Held(h, s.obj, i)
  /\ \A o \in s.takes : Held(h, o, i) /\ Obtains(s)
  /\ s.given # {} =>
       /\ Frees(s)
       /\ \/ s.given = {s.obj}
          \/ s.obj = "textureCache" /\ s.given = {"metalTextureRef"}
  /\ To(h, "bytes") = i => To(h, "context") < i
  /\ s.do = "createOver" => s.obj = "context"
  /\ s.do = "handOver" => s.obj = "data"
  /\ s.do = "release" => s.obj # "textureCache"
  /\ s.do = "CFRelease" => \/ h = "convertImageToGrayScale" /\ s.obj = "imageRef"
                           \/ h = "textureFromPixelBuffer" /\ s.given = {"metalTextureRef"}
  /\ s.obj = "textureCache" \/ "textureCache" \in s.takes => h = "textureFromPixelBuffer"
  /\ s.obj = "metalTextureRef" => h = "textureFromPixelBuffer"
  /\ s.obj = "textureCache" => s.do \notin {"draw", "answer"}
  /\ s.do \in {"begin", "drawCurrent", "answerCurrent", "end"} =>
       h \in {"imageByResizeToSize", "imageRotation"}

Disciplined(h) ==
  /\ Len(Program[h]) \in 1 .. 10
  /\ \A o \in Objects :
       \/ From(h, o) = Never /\ To(h, o) = Never
       \/ From(h, o) \in 1 .. 10 /\ To(h, o) \in 1 .. Len(Program[h]) /\ From(h, o) < To(h, o)
  /\ From(h, "metalTextureRef") <= To(h, "textureCache")
  /\ \A i \in 1 .. Len(Program[h]) : Keeps(h, i, Program[h][i])

(* Each of the nine programs keeps to it.                                  *)
LEMMA AllDisciplined == \A h \in DOMAIN Program : Disciplined(h)
<1> USE DEF Disciplined, Keeps, Held, From, To, Life, Never, Obtains, Frees, Objects,
         Program, Statement, If, Create, CreateOver, Malloc, Draw, Release, CFRelease,
         Answer, HandOver, Begin, DrawCurrent, AnswerCurrent, End
<1>1. Disciplined("imageByCropToRect")  BY DEF cropStatements
<1>2. Disciplined("imageByResizeToSize")  BY DEF resizeStatements
<1>3. Disciplined("convertImageToGrayScale")  BY DEF grayScaleStatements
<1>4. Disciplined("CopyImagePixels")  BY DEF pixelsStatements
<1>5. Disciplined("getImageNSData")  BY DEF dataStatements
<1>6. Disciplined("imageFromBRGABytes")  BY DEF wrapStatements
<1>7. Disciplined("loadImage")  BY DEF loadStatements
<1>8. Disciplined("imageRotation")  BY DEF turnStatements
<1>9. Disciplined("textureFromPixelBuffer")  BY DEF textureStatements
<1>10. DOMAIN Program = {"imageByCropToRect", "imageByResizeToSize",
                         "convertImageToGrayScale", "CopyImagePixels", "getImageNSData",
                         "imageFromBRGABytes", "loadImage", "imageRotation",
                         "textureFromPixelBuffer"}
  OBVIOUS
<1> HIDE DEF Disciplined
<1> QED  BY <1>1, <1>2, <1>3, <1>4, <1>5, <1>6, <1>7, <1>8, <1>9, <1>10

----------------------------------------------------------------------------
(* The invariant                                                           *)

AtStatement == helper # "none" => at <= Len(Program[helper]) + 1

\* What has become of the objects of the call.  The texture cache alone may be
\* garbage, and stays when it refused the texture.
Fate(o) ==
  /\ object[o] = "null" => refused
  /\ object[o] = "garbage" => o = "textureCache" /\ refused
  /\ helper = "none" /\ object[o] = "live" => o = "textureCache"
  /\ helper # "none" =>
       /\ at <= From(helper, o) => object[o] = "unset"
       /\ Held(helper, o, at) => object[o] \in {"null", "live", "garbage"}
       /\ To(helper, o) < at =>
            \/ object[o] \in {"null", "released", "garbage"}
            \/ o = "textureCache" /\ object["metalTextureRef"] = "null"

Lives ==
  /\ \A o \in Objects : Fate(o)
  /\ onBytes \subseteq {"context"}
  /\ object["bytes"] = "unset" \/ object["context"] = "unset" => onBytes = {}

\* A cache is there once it has made a texture, and one that refused it stays.
Texture == helper = "textureFromPixelBuffer"
Kept == /\ Texture /\ at > 2
        /\ object["metalTextureRef"] = "null" /\ object["textureCache"] = "live"
Caches ==
  /\ Texture /\ at > 2 /\ object["metalTextureRef"] # "null" =>
       object["textureCache"] # "null"
  /\ \A o \in Objects \ {"textureCache"} : left[o] = 0
  /\ uncached = left["textureCache"] + IF Kept THEN 1 ELSE 0

\* The context that imageByResizeToSize ends and the one that image:rotation:
\* does not are the current ones until then, and the call's own.
Resizing == helper = "imageByResizeToSize" /\ at \in 2 .. 4
Turning == helper = "imageRotation" /\ at > 1
Stack ==
  /\ Len(contexts) = turned + IF Resizing THEN 1 ELSE 0
  /\ Resizing \/ Turning =>
       /\ contexts # <<>> /\ Top.own
       /\ ~Top.made => refused
       /\ Top.made /\ at > 2 => Top.drawn

Bounded ==
  /\ turned + uncached <= MaxLeft
  /\ helper = "imageRotation" /\ at = 1 => turned + uncached < MaxLeft
  /\ Texture /\ at <= 2 => turned + uncached < MaxLeft

\* Where the picture is in the memory of a call to which nothing was refused.
Filled ==
  ~refused =>
    /\ helper = "imageByCropToRect" /\ at > 2 => "imageRef" \in drawn
    /\ helper = "convertImageToGrayScale" =>
         /\ onBytes = {}
         /\ at > 3 => "context" \in drawn
         /\ at > 4 => "imageRef" \in drawn
    /\ helper = "getImageNSData" =>
         /\ at > 3 => "context" \in onBytes
         /\ at > 4 => "bytes" \in drawn
    /\ helper = "imageFromBRGABytes" =>
         /\ at > 2 => "bytes" \in drawn
         /\ at > 4 => "context" \in onBytes
         /\ at > 5 => "imageRef" \in drawn
    /\ helper = "loadImage" =>
         /\ at > 2 => "context" \in onBytes
         /\ at > 3 => "bytes" \in drawn
    /\ helper = "textureFromPixelBuffer" /\ at > 3 => "metalTextureRef" \in drawn

\* Without it nothing else is answered.
Result ==
  /\ result \in {"none", "nil", "picture", "undrawn"}
  /\ result \in {"nil", "undrawn"} => refused

ResourcesInv ==
  /\ ResourcesTypeOK
  /\ AtStatement
  /\ Lives
  /\ Caches
  /\ Stack
  /\ Bounded
  /\ NoDangling
  /\ StopsOnlyOnRefusal
  /\ Filled
  /\ Result

----------------------------------------------------------------------------
(* Every step but a call and a return is of one statement, and goes on to  *)
(* the next one.                                                           *)
Statements ==
  \/ Skip \/ Obtain \/ Refuse \/ DrawInto \/ AnswerCopy \/ GiveAway \/ LetGo
  \/ BeginContext \/ DrawIntoCurrent \/ AnswerOfCurrent \/ EndContext

(* What runs is a statement of a disciplined program.                      *)
LEMMA OneStatement ==
  ASSUME ResourcesTypeOK, AtStatement, Running
  PROVE  /\ helper \in DOMAIN Program /\ helper # "none"
         /\ at \in 1 .. Len(Program[helper]) /\ at \in 1 .. 10
         /\ Disciplined(helper)
         /\ Keeps(helper, at, This)
<1>1. helper \in DOMAIN Program /\ helper # "none" /\ at \in 1 .. 11
  BY DEF ResourcesTypeOK, Running
<1>2. Disciplined(helper)  BY <1>1, AllDisciplined
<1> QED  BY <1>1, <1>2 DEF Disciplined, Running, This

(* No statement repeats or jumps, and none runs in a process that ended.   *)
LEMMA StatementGoes ==
  ASSUME ResourcesTypeOK, AtStatement, Statements
  PROVE  Running /\ ~stopped /\ Goes
BY DEF Statements, Skip, Obtain, Refuse, DrawInto, AnswerCopy, GiveAway, LetGo,
     BeginContext, DrawIntoCurrent, AnswerOfCurrent, EndContext, Does, Running

(* An object is unset before its statement, held until the one that lets   *)
(* go of it, and then gone: so no statement uses, releases or takes what   *)
(* is not there, and none is forgotten.                                    *)
LEMMA LivesStep == ResourcesInv /\ [ResourcesNext]_resourceVars => Lives'
<1> SUFFICES ASSUME ResourcesInv, [ResourcesNext]_resourceVars PROVE Lives'
  OBVIOUS
<1>1. /\ ResourcesTypeOK /\ AtStatement /\ Lives
      /\ object \in [Objects -> {"unset", "null", "live", "released", "garbage"}]
  BY DEF ResourcesInv, ResourcesTypeOK
<1>2. ASSUME NEW h \in DOMAIN Program, Call(h) PROVE Lives'
  <2>1. Disciplined(h) /\ h # "none"  BY AllDisciplined DEF Program
  <2>2. \A o \in Objects : 1 <= From(h, o) /\ ~Held(h, o, 1) /\ ~(To(h, o) < 1)
    BY <2>1 DEF Disciplined, Held, Never
  <2> QED  BY <1>2, <2>1, <2>2 DEF Call, Lives, Fate
<1>3. CASE Return
  <2>1. helper \in DOMAIN Program /\ at = Len(Program[helper]) + 1
    BY <1>1, <1>3 DEF Return, ResourcesTypeOK, AtStatement
  <2>2. Disciplined(helper)  BY <2>1, AllDisciplined
  <2>3. \A o \in Objects : at <= From(helper, o) \/ To(helper, o) < at
    BY <2>1, <2>2 DEF Disciplined, Never
  <2>4. UNCHANGED <<object, onBytes, refused>> /\ helper # "none" /\ helper' = "none"
    BY <1>3 DEF Return, memory, history
  <2>5. \A o \in Objects : object[o] = "live" => o = "textureCache"
    BY <1>1, <2>3, <2>4 DEF Lives, Fate
  <2> QED  BY <1>1, <2>4, <2>5 DEF Lives, Fate
<1>4. CASE ResizeToNothing
  BY <1>1, <1>4 DEF ResizeToNothing, Idle, Lives, Fate, call, memory
<1>5. CASE Stop
  BY <1>1, <1>5 DEF Stop, Lives, Fate, call, memory, history
<1>6. CASE UNCHANGED resourceVars
  BY <1>1, <1>6 DEF resourceVars, Lives, Fate, call, memory, history
<1>7. CASE Statements
  <2>1. Running /\ at' = at + 1 /\ helper' = helper
    BY <1>1, <1>7, StatementGoes DEF Goes
  <2>2. /\ helper \in DOMAIN Program /\ helper # "none"
        /\ at \in 1 .. Len(Program[helper]) /\ at \in 1 .. 10
        /\ Disciplined(helper)
        /\ Keeps(helper, at, This)
    BY <1>1, <2>1, OneStatement
  <2>3. refused => refused'
    BY <1>7 DEF Statements, Skip, Obtain, Refuse, DrawInto, AnswerCopy, GiveAway,
       LetGo, BeginContext, DrawIntoCurrent, AnswerOfCurrent, EndContext, history
  <2>4. ASSUME NEW o \in Objects, From(helper, o) # at, To(helper, o) # at,
               object'[o] = object[o],
               object["metalTextureRef"] = "null" => object'["metalTextureRef"] = "null"
        PROVE  Fate(o)'
    <3>1. From(helper, o) \in Nat /\ To(helper, o) \in Nat /\ at \in Nat
      BY <2>2 DEF Disciplined, Never
    <3>2. Fate(o)  BY <1>1 DEF Lives
    <3> QED  BY <2>1, <2>2, <2>3, <2>4, <3>1, <3>2 DEF Fate, Held
  <2>5. ASSUME Obtain \/ Refuse PROVE \A o \in Objects : Fate(o)'
    <3>1. PICK what \in {"null", "live", "garbage"} :
            /\ object' = [object EXCEPT ![This.obj] = what]
            /\ what = "null" => refused'
            /\ what = "garbage" => This.obj = "textureCache" /\ refused'
      BY <2>5 DEF Obtain, Refuse, Becomes
    <3>2. PICK u \in Objects : This.obj = u /\ Obtains(This) /\ From(helper, u) = at
      BY <2>2, <2>5 DEF Obtain, Refuse, Does, Obtains, Keeps
    <3>3. From(helper, u) \in Nat /\ From(helper, u) < To(helper, u) /\ To(helper, u) \in Nat
      BY <2>2, <3>2 DEF Disciplined, Never
    <3>4. object'[u] \in {"null", "live", "garbage"}  BY <1>1, <3>1, <3>2
    <3>5. ~(at + 1 <= From(helper, u)) /\ ~(To(helper, u) < at + 1)
      BY <2>2, <3>2, <3>3
    <3>6. Fate(u)'
      BY <1>1, <2>1, <2>2, <3>1, <3>2, <3>4, <3>5 DEF Fate
    <3>7. ASSUME NEW o \in Objects, o # u PROVE Fate(o)'
      <4>1. From(helper, o) # at /\ To(helper, o) # at
        BY <2>2, <3>2, <3>7 DEF Keeps, Frees, Obtains
      <4>2. object["metalTextureRef"] = "null" => object'["metalTextureRef"] = "null"
        BY <1>1, <2>2, <3>1, <3>2 DEF Lives, Fate, Objects
      <4>3. object'[o] = object[o]  BY <1>1, <3>1, <3>2, <3>7
      <4> QED  BY <2>4, <4>1, <4>2, <4>3
    <3> QED  BY <3>6, <3>7
  <2>6. ASSUME LetGo \/ GiveAway PROVE \A o \in Objects : Fate(o)'
    <3>1. PICK u \in Objects :
            This.obj = u /\ Frees(This) /\ ~Obtains(This) /\ To(helper, u) = at
      BY <2>2, <2>6 DEF LetGo, GiveAway, Does, Obtains, Frees, Keeps
    <3>2. Held(helper, u, at)  BY <2>2, <3>1 DEF Keeps
    <3>3. \/ /\ object' = [object EXCEPT ![u] = "released"]
             /\ object[u] = "live" \/ u = "data"
          \/ object' = object /\ object[u] # "live"
      BY <2>2, <2>6, <3>1 DEF Keeps, Does, LetGo, GiveAway, Becomes
    <3>4. Fate(u)'
      BY <1>1, <2>1, <2>2, <2>3, <3>1, <3>2, <3>3 DEF Lives, Fate, Held, Disciplined
    <3>5. ASSUME NEW o \in Objects, o # u PROVE Fate(o)'
      <4>1. From(helper, o) # at /\ To(helper, o) # at
        BY <2>2, <3>1, <3>5 DEF Keeps
      <4>2. object["metalTextureRef"] = "null" => object'["metalTextureRef"] = "null"
        BY <1>1, <3>3 DEF Objects
      <4>3. object'[o] = object[o]  BY <1>1, <3>3, <3>5
      <4> QED  BY <2>4, <4>1, <4>2, <4>3
    <3> QED  BY <3>4, <3>5
  <2>7. ASSUME Skip PROVE \A o \in Objects : Fate(o)'
    <3>1. object' = object /\ This.given # {}
      BY <2>7 DEF Skip, memory, Reached
    <3>2. PICK u \in Objects : This.obj = u /\ Frees(This) /\ ~Obtains(This)
      BY <2>2, <3>1 DEF Keeps, Frees, Obtains
    <3>3. Held(helper, u, at)  BY <2>2, <3>2 DEF Keeps
    <3>4. PICK g \in This.given : object[g] \in {"unset", "null"}
      BY <2>7 DEF Skip, Reached
    <3>5. Fate(u)'
      <4>1. CASE g = u
        <5>1. object[g] = "null"  BY <1>1, <2>2, <3>2, <3>3, <3>4, <4>1 DEF Lives, Fate
        <5> QED
          BY <1>1, <2>1, <2>2, <2>3, <3>1, <3>2, <3>3, <4>1, <5>1 DEF Lives, Fate, Held, Disciplined
      <4>2. CASE g = "metalTextureRef" /\ u = "textureCache"
        <5>1. object[g] = "null"
          <6>1. To(helper, u) = at /\ g \in Objects /\ From(helper, g) # at
            BY <2>2, <3>2, <4>2 DEF Keeps, Objects
          <6>2. /\ From(helper, g) \in Nat /\ To(helper, g) \in Nat
                /\ From(helper, g) <= at
            BY <2>2, <4>2, <6>1 DEF Disciplined, Never
          <6>3. Held(helper, g, at) \/ To(helper, g) < at
            BY <2>2, <6>1, <6>2 DEF Held
          <6>4. Fate(g)  BY <1>1, <6>1 DEF Lives
          <6> QED  BY <2>2, <3>4, <4>2, <6>3, <6>4 DEF Fate
        <5> QED
          BY <1>1, <2>1, <2>2, <2>3, <3>1, <3>2, <3>3, <4>2, <5>1 DEF Lives, Fate, Held, Disciplined
      <4> QED  BY <2>2, <3>1, <3>2, <3>4, <4>1, <4>2 DEF Keeps
    <3>6. ASSUME NEW o \in Objects, o # u PROVE Fate(o)'
      <4>1. From(helper, o) # at /\ To(helper, o) # at
        BY <2>2, <3>2, <3>6 DEF Keeps
      <4> QED  BY <2>4, <3>1, <4>1
    <3> QED  BY <3>5, <3>6
  <2>8. ASSUME DrawInto \/ AnswerCopy \/ BeginContext \/ DrawIntoCurrent
               \/ AnswerOfCurrent \/ EndContext
        PROVE  \A o \in Objects : Fate(o)'
    <3>1. object' = object
      BY <2>8 DEF DrawInto, AnswerCopy, BeginContext, DrawIntoCurrent, AnswerOfCurrent,
         EndContext, memory
    <3>2. ~Obtains(This) /\ ~Frees(This)
      BY <2>8 DEF DrawInto, AnswerCopy, BeginContext, DrawIntoCurrent, AnswerOfCurrent,
         EndContext, Does, Obtains, Frees
    <3> QED  BY <2>2, <2>4, <3>1, <3>2 DEF Keeps
  <2>9. /\ onBytes' \subseteq {"context"}
        /\ object'["bytes"] = "unset" \/ object'["context"] = "unset" => onBytes' = {}
    <3>1. ASSUME Obtain
          PROVE  /\ onBytes' \in {onBytes, onBytes \union {"context"}}
                 /\ onBytes' # onBytes => This.obj = "context" /\ object["bytes"] = "live"
                 /\ object' = [object EXCEPT ![This.obj] = "live"]
      BY <2>2, <3>1 DEF Obtain, Keeps, Becomes
    <3>2. ASSUME ~Obtain
          PROVE  /\ onBytes' = onBytes
                 /\ \A o \in Objects : object'[o] = "unset" => object[o] = "unset"
      BY <1>1, <1>7, <3>2 DEF Statements, Skip, Refuse, DrawInto, AnswerCopy, GiveAway,
         LetGo, BeginContext, DrawIntoCurrent, AnswerOfCurrent, EndContext, memory, Becomes
    <3>3. CASE Obtain  BY <1>1, <3>1, <3>3 DEF Lives, Objects
    <3>4. CASE ~Obtain  BY <1>1, <3>2, <3>4 DEF Lives, Objects
    <3> QED  BY <3>3, <3>4
  <2> QED  BY <2>5, <2>6, <2>7, <2>8, <1>7, <2>9 DEF Statements, Lives, Fate
<1> QED
  BY <1>2, <1>3, <1>4, <1>5, <1>6, <1>7 DEF ResourcesNext, Statements

(* A call that returns leaves nothing but a cache that refused.            *)
LEMMA AtReturn ==
  ASSUME ResourcesInv, Return
  PROVE  /\ \A o \in Objects : object[o] = "live" => o = "textureCache"
         /\ object["textureCache"] = "live" => Kept
<1>1. ResourcesTypeOK /\ AtStatement /\ Lives  BY DEF ResourcesInv
<1>2. helper \in DOMAIN Program /\ at = Len(Program[helper]) + 1 /\ helper # "none"
  BY <1>1 DEF Return, ResourcesTypeOK, AtStatement
<1>3. Disciplined(helper)  BY <1>2, AllDisciplined
<1>4. \A o \in Objects : at <= From(helper, o) \/ To(helper, o) < at
  BY <1>2, <1>3 DEF Disciplined, Never
<1>5. "textureCache" \in Objects /\ Fate("textureCache")  BY <1>1 DEF Lives, Objects
<1>6. ASSUME object["textureCache"] = "live" PROVE Kept
  <2>1. To(helper, "textureCache") < at /\ object["metalTextureRef"] = "null"
    BY <1>2, <1>4, <1>5, <1>6 DEF Fate
  <2>2. To(helper, "textureCache") # Never /\ at \in 1 .. 11
    BY <1>1, <2>1 DEF ResourcesTypeOK, Never
  <2>3. helper = "textureFromPixelBuffer" /\ To(helper, "textureCache") = 6
    BY <2>2 DEF To, Life
  <2> QED  BY <1>6, <2>1, <2>2, <2>3 DEF Kept, Texture
<1> QED  BY <1>1, <1>2, <1>4, <1>6 DEF Lives, Fate

(* A refusal of the texture is the one step by which a cache comes to      *)
(* stay.                                                                   *)
LEMMA TextureStep ==
  ASSUME ResourcesInv, Texture, Statements
  PROVE  /\ Kept' => \/ Kept /\ uncached' = uncached
                     \/ ~Kept /\ uncached' = uncached + 1 /\ at = 2
         /\ ~Kept' => ~Kept /\ uncached' = uncached
         /\ Texture' /\ at' > 2 /\ object'["metalTextureRef"] # "null" =>
              object'["textureCache"] # "null"
<1>1. /\ ResourcesTypeOK /\ AtStatement /\ Lives /\ Caches
      /\ object \in [Objects -> {"unset", "null", "live", "released", "garbage"}]
  BY DEF ResourcesInv, ResourcesTypeOK
<1>2. Running /\ at' = at + 1 /\ Texture' /\ Running
  BY <1>1, StatementGoes DEF Goes, Texture
<1>3. This = textureStatements[at] /\ at \in 1 .. 6
  BY <1>1, <1>2, OneStatement DEF This, Texture, Program, textureStatements
<1> USE DEF Statement, If, Create, Draw, Answer, CFRelease, textureStatements, Statements,
     Skip, Obtain, Refuse, DrawInto, AnswerCopy, GiveAway, LetGo, Reached, Becomes,
     BeginContext, DrawIntoCurrent, AnswerOfCurrent, EndContext, Does, memory, history, Objects
<1>4. CASE at = 1
  <2>1. This = Create("textureCache", {})  BY <1>3, <1>4
  <2>2. uncached' = uncached  BY <2>1
  <2> QED  BY <1>2, <1>4, <2>2 DEF Kept
<1>5. CASE at = 2
  <2>1. This = Create("metalTextureRef", {"textureCache"})  BY <1>3, <1>5
  <2>2. \/ /\ object["textureCache"] \in {"live", "garbage"}
           /\ object' = [object EXCEPT !["metalTextureRef"] = "live"]
           /\ uncached' = uncached
        \/ /\ object' = [object EXCEPT !["metalTextureRef"] = "null"]
           /\ uncached' = IF object["textureCache"] = "live" THEN uncached + 1 ELSE uncached
    BY <2>1
  <2> QED  BY <1>1, <1>2, <1>5, <2>2 DEF Kept, Texture
<1>6. CASE at \in {3, 4}
  <2>1. This.do \in {"draw", "answer"} /\ This.given = {}  BY <1>3, <1>6
  <2>2. UNCHANGED <<object, uncached>>  BY <2>1
  <2> QED  BY <1>1, <1>2, <1>6, <2>2 DEF Kept, Texture, Caches
<1>7. CASE at = 5
  <2>1. This = If("metalTextureRef", CFRelease("metalTextureRef"))  BY <1>3, <1>7
  <2>2. /\ object' \in {object, [object EXCEPT !["metalTextureRef"] = "released"]}
        /\ object' # object => object["metalTextureRef"] = "live"
        /\ uncached' = uncached
    BY <1>1, <2>1
  <2> QED  BY <1>1, <1>2, <1>7, <2>2 DEF Kept, Texture, Caches
<1>8. CASE at = 6
  <2>1. This = If("metalTextureRef", CFRelease("textureCache"))  BY <1>3, <1>8
  <2>2. /\ object' \in {object, [object EXCEPT !["textureCache"] = "released"]}
        /\ object' # object => object["metalTextureRef"] # "null"
        /\ uncached' = uncached
    BY <1>1, <2>1
  <2> QED  BY <1>1, <1>2, <1>8, <2>2 DEF Kept, Texture, Caches
<1> QED  BY <1>3, <1>4, <1>5, <1>6, <1>7, <1>8

(* Outside the texture helper nothing is said of the cache.                *)
LEMMA UncachedStep ==
  ASSUME ResourcesInv, ~Texture, Statements
  PROVE  uncached' = uncached /\ ~Texture' /\ ~Kept' /\ ~Kept
<1>1. Running /\ helper' = helper /\ Keeps(helper, at, This)
  BY StatementGoes, OneStatement DEF Goes, ResourcesInv
<1>2. uncached' = uncached
  BY <1>1 DEF Statements, Skip, Obtain, Refuse, DrawInto, AnswerCopy, GiveAway,
     LetGo, BeginContext, DrawIntoCurrent, AnswerOfCurrent, EndContext, history,
     Keeps, Texture
<1> QED  BY <1>1, <1>2 DEF Texture, Kept

(* What the calls so far did not release is counted by uncached.           *)
LEMMA CachesStep == ResourcesInv /\ [ResourcesNext]_resourceVars => Caches'
<1> SUFFICES ASSUME ResourcesInv, [ResourcesNext]_resourceVars PROVE Caches'
  OBVIOUS
<1>1. /\ Caches /\ left \in [Objects -> Nat] /\ uncached \in Nat
      /\ object \in [Objects -> {"unset", "null", "live", "released", "garbage"}]
  BY DEF ResourcesInv, ResourcesTypeOK
<1>2. ASSUME NEW h \in DOMAIN Program, Call(h) PROVE Caches'
  <2>1. helper = "none" /\ at' = 1 /\ UNCHANGED <<left, uncached>>
    BY <1>2 DEF Call, Idle
  <2>2. ~Kept /\ ~Kept'  BY <2>1 DEF Kept, Texture
  <2>3. ~(at' > 2) /\ left' = left /\ uncached' = uncached  BY <2>1
  <2> QED  BY <1>1, <2>2, <2>3 DEF Caches
<1>3. CASE Return
  <2>1. /\ left' = [o \in Objects |-> IF object[o] = "live" THEN left[o] + 1 ELSE left[o]]
        /\ helper' = "none" /\ UNCHANGED uncached
    BY <1>3 DEF Return, history
  <2>2. ~Kept' /\ ~Texture'  BY <2>1 DEF Kept, Texture
  <2>3. \A o \in Objects \ {"textureCache"} : left'[o] = left[o]
    BY <1>3, <2>1, AtReturn
  <2>4. left'["textureCache"] = IF Kept THEN left["textureCache"] + 1 ELSE left["textureCache"]
    BY <1>3, <2>1, AtReturn DEF Kept, Objects
  <2> QED  BY <1>1, <2>1, <2>2, <2>3, <2>4 DEF Caches, Objects
<1>4. CASE ResizeToNothing
  BY <1>1, <1>4 DEF ResizeToNothing, Idle, Caches, Kept, Texture, call, memory
<1>5. CASE Stop
  BY <1>1, <1>5 DEF Stop, Caches, Kept, Texture, call, memory, history
<1>6. CASE UNCHANGED resourceVars
  BY <1>1, <1>6 DEF resourceVars, Caches, Kept, Texture, call, memory, history
<1>7. CASE Statements
  <2>1. left' = left
    BY <1>7 DEF Statements, Skip, Obtain, Refuse, DrawInto, AnswerCopy, GiveAway,
       LetGo, BeginContext, DrawIntoCurrent, AnswerOfCurrent, EndContext
  <2>2. CASE Texture
    <3>1. /\ Kept' => \/ Kept /\ uncached' = uncached
                      \/ ~Kept /\ uncached' = uncached + 1
          /\ ~Kept' => ~Kept /\ uncached' = uncached
          /\ Texture' /\ at' > 2 /\ object'["metalTextureRef"] # "null" =>
               object'["textureCache"] # "null"
      BY <1>7, <2>2, TextureStep
    <3>2. uncached = left["textureCache"] + IF Kept THEN 1 ELSE 0  BY <1>1 DEF Caches
    <3>3. left["textureCache"] \in Nat  BY <1>1 DEF Objects
    <3>4. CASE Kept'
      <4>1. uncached' = left["textureCache"] + 1  BY <3>1, <3>2, <3>3, <3>4
      <4> QED  BY <1>1, <2>1, <3>1, <3>4, <4>1 DEF Caches
    <3>5. CASE ~Kept'
      <4>1. uncached' = left["textureCache"] + 0  BY <3>1, <3>2, <3>5
      <4> QED  BY <1>1, <2>1, <3>1, <3>5, <4>1 DEF Caches
    <3> QED  BY <3>4, <3>5
  <2>3. CASE ~Texture  BY <1>1, <1>7, <2>1, <2>3, UncachedStep DEF Caches
  <2> QED  BY <2>2, <2>3
<1> QED
  BY <1>2, <1>3, <1>4, <1>5, <1>6, <1>7 DEF ResourcesNext, Statements

(* A call that may leave something over begins only below the bound.       *)
LEMMA BoundedStep == ResourcesInv /\ [ResourcesNext]_resourceVars => Bounded'
<1> SUFFICES ASSUME ResourcesInv, [ResourcesNext]_resourceVars PROVE Bounded'
  OBVIOUS
<1>1. Bounded /\ MaxLeft \in Nat /\ uncached \in Nat /\ turned \in Nat
  BY MaxLeftAssumption DEF ResourcesInv, ResourcesTypeOK
<1>2. ASSUME NEW h \in DOMAIN Program, Call(h) PROVE Bounded'
  BY <1>1, <1>2 DEF Call, Bounded
<1>3. CASE Return \/ ResizeToNothing
  BY <1>1, <1>3 DEF Return, ResizeToNothing, Idle, Bounded, Texture, history, call
<1>4. CASE Stop \/ UNCHANGED resourceVars
  BY <1>1, <1>4 DEF Stop, resourceVars, Bounded, Texture, call, history
<1>5. CASE Statements
  <2>1. Running /\ helper' = helper /\ at' = at + 1 /\ at \in 1 .. 10 /\ Keeps(helper, at, This)
    BY <1>5, StatementGoes, OneStatement DEF Goes, ResourcesInv
  <2>2. \/ turned' = turned
        \/ turned' = turned + 1 /\ helper = "imageRotation" /\ This.do = "begin"
           /\ uncached' = uncached
    BY <1>5 DEF Statements, Skip, Obtain, Refuse, DrawInto, AnswerCopy, GiveAway,
       LetGo, BeginContext, DrawIntoCurrent, AnswerOfCurrent, EndContext, history, Does
  <2>3. \/ uncached' = uncached
        \/ uncached' = uncached + 1 /\ Texture /\ at = 2
    BY <1>5, TextureStep, UncachedStep
  <2>4. helper = "imageRotation" /\ This.do = "begin" => at = 1
    BY <1>5, <2>1, OneStatement DEF ResourcesInv, This, Program, turnStatements, Begin,
       DrawCurrent, AnswerCurrent, Statement
  <2> QED  BY <1>1, <2>1, <2>2, <2>3, <2>4 DEF Bounded, Texture
<1> QED  BY <1>2, <1>3, <1>4, <1>5 DEF ResourcesNext, Statements

----------------------------------------------------------------------------
(* UIKit's stack                                                           *)

Contexts == [made : BOOLEAN, own : BOOLEAN, drawn : BOOLEAN]

(* A context that is begun becomes the current one.                        *)
LEMMA Appended ==
  ASSUME NEW stack \in Seq(Contexts), NEW c \in Contexts
  PROVE  /\ Append(stack, c) \in Seq(Contexts)
         /\ Append(stack, c) # <<>>
         /\ Len(Append(stack, c)) = Len(stack) + 1
         /\ Append(stack, c)[Len(stack) + 1] = c
OBVIOUS

(* Drawing into the current context touches nothing else on the stack.     *)
LEMMA DrawnIntoTop ==
  ASSUME NEW stack \in Seq(Contexts), stack # <<>>, NEW b \in BOOLEAN,
         NEW after, after = [stack EXCEPT ![Len(stack)].drawn = b]
  PROVE  /\ after \in Seq(Contexts) /\ after # <<>> /\ Len(after) = Len(stack)
         /\ after[Len(after)].made = stack[Len(stack)].made
         /\ after[Len(after)].own = stack[Len(stack)].own
         /\ after[Len(after)].drawn = b
<1>1. Len(stack) \in Nat /\ Len(stack) >= 1 /\ stack[Len(stack)] \in Contexts
  OBVIOUS
<1>2. [stack[Len(stack)] EXCEPT !.drawn = b] \in Contexts  BY <1>1 DEF Contexts
<1>3. after = [stack EXCEPT ![Len(stack)] = [stack[Len(stack)] EXCEPT !.drawn = b]]
  OBVIOUS
<1>4. /\ after \in Seq(Contexts) /\ Len(after) = Len(stack)
      /\ after[Len(stack)] = [stack[Len(stack)] EXCEPT !.drawn = b]
  BY <1>1, <1>2, <1>3
<1> QED  BY <1>1, <1>4 DEF Contexts

\* What a statement does to the stack.
LEMMA StackStatements ==
  ASSUME ResourcesInv, Statements
  PROVE  /\ refused => refused'
         /\ \/ /\ This.do = "begin"
               /\ \E made \in BOOLEAN :
                    /\ contexts' = Append(contexts, [made |-> made, own |-> TRUE, drawn |-> FALSE])
                    /\ ~made => refused'
               /\ turned' = IF helper = "imageRotation" THEN turned + 1 ELSE turned
            \/ /\ This.do = "drawCurrent" /\ turned' = turned
               /\ contexts' = [contexts EXCEPT ![Len(contexts)].drawn = Top.made]
            \/ /\ This.do = "end" /\ turned' = turned
               /\ contexts' = SubSeq(contexts, 1, Len(contexts) - 1)
            \/ /\ This.do \notin {"begin", "drawCurrent", "end"} \/ This.given # {}
               /\ UNCHANGED <<contexts, turned>>
<1>1. refused => refused'
  BY DEF Statements, Skip, Obtain, Refuse, DrawInto, AnswerCopy, GiveAway, LetGo,
     BeginContext, DrawIntoCurrent, AnswerOfCurrent, EndContext, history
<1>2. CASE BeginContext
  <2>1. PICK made \in BOOLEAN :
          /\ contexts' = Append(contexts, [made |-> made, own |-> TRUE, drawn |-> FALSE])
          /\ ~made => refused'
    BY <1>2 DEF BeginContext
  <2> QED  BY <1>1, <1>2, <2>1 DEF BeginContext, Does
<1>3. CASE DrawIntoCurrent
  BY <1>1, <1>3 DEF DrawIntoCurrent, Does, history
<1>4. CASE EndContext
  BY <1>1, <1>4 DEF EndContext, Does, history
<1>5. CASE Skip
  BY <1>1, <1>5 DEF Skip, Reached, history
<1>6. CASE Obtain \/ Refuse \/ DrawInto \/ AnswerCopy \/ GiveAway \/ LetGo \/ AnswerOfCurrent
  <2>1. UNCHANGED <<contexts, turned>>
    BY <1>6 DEF Obtain, Refuse, DrawInto, AnswerCopy, GiveAway, LetGo, AnswerOfCurrent, history
  <2>2. This.do \notin {"begin", "drawCurrent", "end"}
    BY <1>6 DEF Obtain, Refuse, DrawInto, AnswerCopy, GiveAway, LetGo, AnswerOfCurrent, Does
  <2> QED  BY <1>1, <2>1, <2>2
<1> QED  BY <1>2, <1>3, <1>4, <1>5, <1>6 DEF Statements

(* The four statements of imageByResizeToSize, by number.                  *)
LEMMA ResizeStatement ==
  ASSUME ResourcesInv, Running, helper = "imageByResizeToSize"
  PROVE  /\ at \in 1 .. 4 /\ This.given = {}
         /\ This.do = CASE at = 1 -> "begin" [] at = 2 -> "drawCurrent"
                        [] at = 3 -> "answerCurrent" [] at = 4 -> "end"
<1>1. at \in 1 .. Len(resizeStatements) /\ This = resizeStatements[at]
  BY OneStatement DEF ResourcesInv, This, Program
<1> QED
  BY <1>1 DEF resizeStatements, Begin, DrawCurrent, AnswerCurrent, End, Statement

(* The three statements of image:rotation:, by number.                     *)
LEMMA TurnStatement ==
  ASSUME ResourcesInv, Running, helper = "imageRotation"
  PROVE  /\ at \in 1 .. 3 /\ This.given = {}
         /\ This.do = CASE at = 1 -> "begin" [] at = 2 -> "drawCurrent"
                        [] at = 3 -> "answerCurrent"
<1>1. at \in 1 .. Len(turnStatements) /\ This = turnStatements[at]
  BY OneStatement DEF ResourcesInv, This, Program
<1> QED
  BY <1>1 DEF turnStatements, Begin, DrawCurrent, AnswerCurrent, Statement

(* The stack holds one context for each image:rotation: so far, and over   *)
(* those the one of a resize; a resize ends its own and no other.          *)
LEMMA StackStep == ResourcesInv /\ [ResourcesNext]_resourceVars => Stack'
<1> SUFFICES ASSUME ResourcesInv, [ResourcesNext]_resourceVars PROVE Stack'
  OBVIOUS
<1>1. Stack /\ contexts \in Seq(Contexts) /\ turned \in Nat /\ Len(contexts) \in Nat
  BY DEF ResourcesInv, ResourcesTypeOK, Contexts
<1>2. ASSUME NEW h \in DOMAIN Program, Call(h) PROVE Stack'
  BY <1>1, <1>2 DEF Call, Idle, Stack, Resizing, Turning
<1>3. CASE Return
  <2>1. /\ contexts' = [i \in DOMAIN contexts |-> [contexts[i] EXCEPT !.own = FALSE]]
        /\ helper' = "none" /\ UNCHANGED turned
    BY <1>3 DEF Return, history
  <2>2. Len(contexts') = Len(contexts)  BY <1>1, <2>1
  <2>3. ~Resizing
    <3>1. ASSUME helper = "imageByResizeToSize" PROVE at > 4
      <4>1. Program[helper] = resizeStatements /\ Len(resizeStatements) = 4
        BY <3>1 DEF Program, resizeStatements
      <4> QED  BY <1>3, <4>1 DEF Return
    <3> QED  BY <3>1 DEF Resizing
  <2> QED  BY <1>1, <2>1, <2>2, <2>3 DEF Stack, Resizing, Turning
<1>4. CASE ResizeToNothing
  BY <1>1, <1>4 DEF ResizeToNothing, Idle, Stack, Resizing, Turning, Top, call
<1>5. CASE Stop
  BY <1>1, <1>5 DEF Stop, Stack, Resizing, Turning, Top, call, history
<1>6. CASE UNCHANGED resourceVars
  BY <1>1, <1>6 DEF resourceVars, Stack, Resizing, Turning, Top, call, history
<1>7. CASE Statements
  <2>1. Running /\ helper' = helper /\ at' = at + 1 /\ at \in 1 .. 10 /\ Keeps(helper, at, This)
    BY <1>7, StatementGoes, OneStatement DEF Goes, ResourcesInv
  <2>2. CASE helper = "imageByResizeToSize"
    <3>1. /\ at \in 1 .. 4 /\ This.given = {}
          /\ This.do = CASE at = 1 -> "begin" [] at = 2 -> "drawCurrent"
                         [] at = 3 -> "answerCurrent" [] at = 4 -> "end"
      BY <2>1, <2>2, ResizeStatement
    <3>2. CASE at = 1
      <4>1. PICK made \in BOOLEAN :
              /\ contexts' = Append(contexts, [made |-> made, own |-> TRUE, drawn |-> FALSE])
              /\ ~made => refused'
              /\ turned' = turned
        <5>1. This.do = "begin"  BY <3>1, <3>2
        <5>2. /\ \E made \in BOOLEAN :
                   /\ contexts' = Append(contexts, [made |-> made, own |-> TRUE, drawn |-> FALSE])
                   /\ ~made => refused'
              /\ turned' = IF helper = "imageRotation" THEN turned + 1 ELSE turned
          BY <1>7, <3>1, <5>1, StackStatements, Zenon
        <5> QED  BY <2>2, <5>2, Zenon
      <4>2. PICK c \in Contexts : /\ c = [made |-> made, own |-> TRUE, drawn |-> FALSE]
                                  /\ contexts' = Append(contexts, c)
        BY <4>1 DEF Contexts
      <4>3. /\ contexts' # <<>> /\ Len(contexts') = Len(contexts) + 1
            /\ contexts'[Len(contexts) + 1] = c
        BY <1>1, <4>2, Appended
      <4> QED
        BY <1>1, <2>1, <2>2, <3>2, <4>1, <4>2, <4>3 DEF Stack, Resizing, Turning, Top
    <3>3. CASE at = 2
      <4>1. /\ contexts' = [contexts EXCEPT ![Len(contexts)].drawn = Top.made]
            /\ turned' = turned /\ (refused => refused')
        BY <1>7, <3>1, <3>3, StackStatements
      <4> QED  BY <1>1, <2>1, <2>2, <3>3, <4>1, DrawnIntoTop DEF Stack, Resizing, Turning, Top
    <3>4. CASE at = 3
      <4>1. UNCHANGED <<contexts, turned>> /\ (refused => refused')
        BY <1>7, <3>1, <3>4, StackStatements
      <4> QED  BY <1>1, <2>1, <2>2, <3>4, <4>1 DEF Stack, Resizing, Turning, Top
    <3>5. CASE at = 4
      <4>1. contexts' = SubSeq(contexts, 1, Len(contexts) - 1) /\ turned' = turned
        BY <1>7, <3>1, <3>5, StackStatements
      <4>2. Len(contexts) = turned + 1  BY <1>1, <2>2, <3>5 DEF Stack, Resizing
      <4>3. Len(contexts') = turned  BY <1>1, <4>1, <4>2
      <4> QED  BY <2>1, <2>2, <3>5, <4>1, <4>3 DEF Stack, Resizing, Turning
    <3> QED  BY <3>1, <3>2, <3>3, <3>4, <3>5
  <2>3. CASE helper = "imageRotation"
    <3>1. /\ at \in 1 .. 3 /\ This.given = {}
          /\ This.do = CASE at = 1 -> "begin" [] at = 2 -> "drawCurrent"
                         [] at = 3 -> "answerCurrent"
      BY <2>1, <2>3, TurnStatement
    <3>2. CASE at = 1
      <4>1. PICK made \in BOOLEAN :
              /\ contexts' = Append(contexts, [made |-> made, own |-> TRUE, drawn |-> FALSE])
              /\ ~made => refused'
              /\ turned' = turned + 1
        <5>1. This.do = "begin"  BY <3>1, <3>2
        <5>2. /\ \E made \in BOOLEAN :
                   /\ contexts' = Append(contexts, [made |-> made, own |-> TRUE, drawn |-> FALSE])
                   /\ ~made => refused'
              /\ turned' = IF helper = "imageRotation" THEN turned + 1 ELSE turned
          BY <1>7, <3>1, <5>1, StackStatements, Zenon
        <5> QED  BY <2>3, <5>2, Zenon
      <4>2. PICK c \in Contexts : /\ c = [made |-> made, own |-> TRUE, drawn |-> FALSE]
                                  /\ contexts' = Append(contexts, c)
        BY <4>1 DEF Contexts
      <4>3. /\ contexts' # <<>> /\ Len(contexts') = Len(contexts) + 1
            /\ contexts'[Len(contexts) + 1] = c
        BY <1>1, <4>2, Appended
      <4> QED
        BY <1>1, <2>1, <2>3, <3>2, <4>1, <4>2, <4>3 DEF Stack, Resizing, Turning, Top
    <3>3. CASE at = 2
      <4>1. /\ contexts' = [contexts EXCEPT ![Len(contexts)].drawn = Top.made]
            /\ turned' = turned /\ (refused => refused')
        BY <1>7, <3>1, <3>3, StackStatements
      <4> QED  BY <1>1, <2>1, <2>3, <3>3, <4>1, DrawnIntoTop DEF Stack, Resizing, Turning, Top
    <3>4. CASE at = 3
      <4>1. UNCHANGED <<contexts, turned>> /\ (refused => refused')
        BY <1>7, <3>1, <3>4, StackStatements
      <4> QED  BY <1>1, <2>1, <2>3, <3>4, <4>1 DEF Stack, Resizing, Turning, Top
    <3> QED  BY <3>1, <3>2, <3>3, <3>4
  <2>4. CASE helper \notin {"imageByResizeToSize", "imageRotation"}
    <3>1. UNCHANGED <<contexts, turned>>
      BY <1>7, <2>1, <2>4, StackStatements DEF Keeps
    <3> QED  BY <1>1, <2>1, <2>4, <3>1 DEF Stack, Resizing, Turning
  <2> QED  BY <2>2, <2>3, <2>4
<1> QED
  BY <1>2, <1>3, <1>4, <1>5, <1>6, <1>7 DEF ResourcesNext, Statements

(* Everything but the stack keeps its type.                                *)
OthersTypeOK ==
  /\ helper \in DOMAIN Program \union {"none"}
  /\ at \in 1 .. 11
  /\ object \in [Objects -> {"unset", "null", "live", "released", "garbage"}]
  /\ onBytes \subseteq Objects /\ drawn \subseteq Objects
  /\ result \in {"none", "nil", "picture", "undrawn", "dangling", "another's"}
  /\ left \in [Objects -> Nat]
  /\ refused \in BOOLEAN /\ turned \in Nat /\ uncached \in Nat
  /\ stopped \in BOOLEAN

(* A statement keeps the types, and goes to the end of its program at      *)
(* most.                                                                   *)
LEMMA StatementsTypeOK == ResourcesInv /\ Statements => OthersTypeOK' /\ AtStatement'
<1> SUFFICES ASSUME ResourcesInv, Statements PROVE OthersTypeOK' /\ AtStatement'
  OBVIOUS
<1>1. OthersTypeOK  BY DEF ResourcesInv, ResourcesTypeOK, OthersTypeOK
<1>2. /\ at' = at + 1 /\ helper' = helper /\ stopped' = stopped /\ helper # "none"
      /\ helper \in DOMAIN Program /\ at \in 1 .. 10 /\ at \in 1 .. Len(Program[helper])
      /\ This.obj \in Objects /\ This.takes \subseteq Objects
  BY StatementGoes, OneStatement DEF ResourcesInv, Goes, Keeps
<1>3. AtStatement' /\ at' \in 1 .. 11
  <2>1. Len(Program[helper]) \in 1 .. 10  BY <1>2, AllDisciplined DEF Disciplined
  <2> QED  BY <1>2, <2>1 DEF AtStatement
<1>4. object' \in [Objects -> {"unset", "null", "live", "released", "garbage"}]
  BY <1>1, <1>2 DEF OthersTypeOK, Statements, Skip, Obtain, Refuse, DrawInto, AnswerCopy,
     GiveAway, LetGo, BeginContext, DrawIntoCurrent, AnswerOfCurrent, EndContext, Becomes, memory
<1>5. onBytes' \subseteq Objects
  BY <1>1, <1>2 DEF OthersTypeOK, Statements, Skip, Obtain, Refuse, DrawInto, AnswerCopy,
     GiveAway, LetGo, BeginContext, DrawIntoCurrent, AnswerOfCurrent, EndContext, memory
<1>6. drawn' \subseteq Objects
  <2>1. Memory(This.obj) \in Objects  BY <1>2 DEF Memory, Objects
  <2> QED
    BY <1>1, <1>2, <2>1 DEF OthersTypeOK, Statements, Skip, Obtain, Refuse, DrawInto, AnswerCopy,
       GiveAway, LetGo, BeginContext, DrawIntoCurrent, AnswerOfCurrent, EndContext, memory
<1>7. result' \in {"none", "nil", "picture", "undrawn", "dangling", "another's"}
  BY <1>1 DEF OthersTypeOK, Statements, Skip, Obtain, Refuse, DrawInto, AnswerCopy,
     GiveAway, LetGo, BeginContext, DrawIntoCurrent, AnswerOfCurrent, EndContext
<1>8. left' = left /\ refused' \in BOOLEAN /\ turned' \in Nat /\ uncached' \in Nat
  <2> USE DEF Statements, Skip, Obtain, Refuse, DrawInto, AnswerCopy, GiveAway, LetGo,
           BeginContext, DrawIntoCurrent, AnswerOfCurrent, EndContext, history
  <2>1. left' = left  OBVIOUS
  <2>2. refused' \in {refused, TRUE}  OBVIOUS
  <2>3. turned' \in {turned, turned + 1}  OBVIOUS
  <2>4. uncached' \in {uncached, uncached + 1}  OBVIOUS
  <2> HIDE DEF Statements
  <2>5. refused' \in BOOLEAN  BY <1>1, <2>2, Zenon DEF OthersTypeOK
  <2> QED  BY <1>1, <2>1, <2>3, <2>4, <2>5 DEF OthersTypeOK
<1> QED  BY <1>1, <1>2, <1>3, <1>4, <1>5, <1>6, <1>7, <1>8 DEF OthersTypeOK

(* Every step keeps the types, and the stack within the bound.             *)
LEMMA TypeStep ==
  ResourcesInv /\ [ResourcesNext]_resourceVars => ResourcesTypeOK' /\ AtStatement'
<1> SUFFICES ASSUME ResourcesInv, [ResourcesNext]_resourceVars
             PROVE  ResourcesTypeOK' /\ AtStatement'
  OBVIOUS
<1>1. OthersTypeOK /\ AtStatement  BY DEF ResourcesInv, ResourcesTypeOK, OthersTypeOK
<1>2. OthersTypeOK' /\ AtStatement'
  <2>1. ASSUME NEW h \in DOMAIN Program, Call(h) PROVE OthersTypeOK' /\ AtStatement'
    <3>1. Len(Program[h]) \in 1 .. 10  BY AllDisciplined DEF Disciplined
    <3>2. AtStatement'  BY <2>1, <3>1 DEF Call, AtStatement
    <3>3. /\ helper' \in DOMAIN Program \union {"none"} /\ at' \in 1 .. 11
          /\ object' \in [Objects -> {"unset", "null", "live", "released", "garbage"}]
          /\ onBytes' \subseteq Objects /\ drawn' \subseteq Objects
          /\ result' = "none"
      BY <2>1 DEF Call
    <3>4. refused' = FALSE /\ UNCHANGED <<left, turned, uncached, stopped>>
      BY <2>1 DEF Call
    <3> QED  BY <1>1, <3>2, <3>3, <3>4 DEF OthersTypeOK
  <2>2. CASE Return
    BY <1>1, <2>2 DEF Return, OthersTypeOK, AtStatement, memory, history
  <2>3. CASE ResizeToNothing
    BY <1>1, <2>3 DEF ResizeToNothing, OthersTypeOK, AtStatement, memory, call
  <2>4. CASE Stop \/ UNCHANGED resourceVars
    BY <1>1, <2>4 DEF Stop, resourceVars, OthersTypeOK, AtStatement, memory, history, call
  <2>5. CASE Statements  BY <2>5, StatementsTypeOK
  <2> QED  BY <2>1, <2>2, <2>3, <2>4, <2>5 DEF ResourcesNext, Statements
<1>3. contexts' \in Seq(Contexts)
  <2>1. contexts \in Seq(Contexts)  BY DEF ResourcesInv, ResourcesTypeOK, Contexts
  <2>2. CASE Return
    <3>1. ASSUME NEW i \in 1 .. Len(contexts)
          PROVE  [contexts[i] EXCEPT !.own = FALSE] \in Contexts
      <4>1. contexts[i] \in Contexts  BY <2>1
      <4> QED  BY <4>1 DEF Contexts
    <3>2. contexts' = [i \in 1 .. Len(contexts) |-> [contexts[i] EXCEPT !.own = FALSE]]
      BY <2>1, <2>2 DEF Return
    <3>3. Len(contexts) \in Nat  BY <2>1
    <3> QED  BY <3>1, <3>2, <3>3
  <2>3. CASE Statements
    <3>1. \/ This.do = "begin" /\ \E c \in Contexts : contexts' = Append(contexts, c)
          \/ contexts' = [contexts EXCEPT ![Len(contexts)].drawn = Top.made]
          \/ contexts' = SubSeq(contexts, 1, Len(contexts) - 1)
          \/ contexts' = contexts
      <4>1. \A made \in BOOLEAN : [made |-> made, own |-> TRUE, drawn |-> FALSE] \in Contexts
        BY DEF Contexts
      <4> QED  BY <2>3, <4>1, StackStatements
    <3>2. ASSUME contexts # <<>>, contexts' = [contexts EXCEPT ![Len(contexts)].drawn = Top.made]
          PROVE  contexts' \in Seq(Contexts)
      <4>1. Len(contexts) \in 1 .. Len(contexts)  BY <2>1, <3>2
      <4>2. contexts[Len(contexts)] \in Contexts  BY <2>1, <4>1
      <4>3. Top.made \in BOOLEAN  BY <4>2 DEF Top, Contexts
      <4> QED  BY <2>1, <3>2, <4>3, DrawnIntoTop
    <3>3. ASSUME contexts = <<>>, contexts' = [contexts EXCEPT ![Len(contexts)].drawn = Top.made]
          PROVE  contexts' = <<>>
      BY <3>3
    <3>4. SubSeq(contexts, 1, Len(contexts) - 1) \in Seq(Contexts)  BY <2>1
    <3> QED  BY <2>1, <3>1, <3>2, <3>3, <3>4, Appended
  <2>4. CASE ~Return /\ ~Statements
    BY <2>1, <2>4 DEF ResourcesNext, Statements, Call, ResizeToNothing, Stop, resourceVars
  <2> QED  BY <2>2, <2>3, <2>4
<1>4. Len(contexts') \in 0 .. MaxLeft + 1
  <2>1. /\ Len(contexts') = turned' + IF Resizing' THEN 1 ELSE 0
        /\ turned' + uncached' <= MaxLeft
    BY StackStep, BoundedStep DEF Stack, Bounded
  <2>2. PICK t \in Nat, u \in Nat : t = turned' /\ u = uncached'
    BY <1>2 DEF OthersTypeOK
  <2>3. t + u <= MaxLeft /\ MaxLeft \in Nat  BY <2>1, <2>2, MaxLeftAssumption
  <2>4. Len(contexts') = t + 1 \/ Len(contexts') = t + 0  BY <2>1, <2>2
  <2>5. t + 1 \in 0 .. MaxLeft + 1 /\ t + 0 \in 0 .. MaxLeft + 1  BY <2>3
  <2> QED  BY <2>4, <2>5
<1> QED  BY <1>2, <1>3, <1>4 DEF ResourcesTypeOK, OthersTypeOK, Contexts

(* Bytes go only after the context over them, and are there before it.     *)
LEMMA NoDanglingStep == ResourcesInv /\ [ResourcesNext]_resourceVars => NoDangling'
<1> SUFFICES ASSUME ResourcesInv, [ResourcesNext]_resourceVars PROVE NoDangling'
  OBVIOUS
<1>1. /\ ResourcesTypeOK /\ AtStatement /\ Lives /\ NoDangling
      /\ object \in [Objects -> {"unset", "null", "live", "released", "garbage"}]
      /\ {"bytes", "context", "textureCache", "data"} \subseteq Objects
  BY DEF ResourcesInv, ResourcesTypeOK, Objects
<1>2. onBytes' \subseteq {"context"}  BY LivesStep DEF Lives
<1>3. CASE \E h \in DOMAIN Program : Call(h)
  BY <1>3 DEF Call, NoDangling
<1>4. CASE Return \/ ResizeToNothing \/ Stop \/ UNCHANGED resourceVars
  <2>1. UNCHANGED <<object, onBytes>>
    BY <1>4 DEF Return, ResizeToNothing, Stop, resourceVars, memory
  <2> QED  BY <1>1, <2>1 DEF NoDangling
<1>5. CASE Statements
  <2>1. /\ helper \in DOMAIN Program /\ helper # "none" /\ at \in 1 .. 10
        /\ Disciplined(helper) /\ Keeps(helper, at, This)
    BY <1>1, <1>5, StatementGoes, OneStatement
  <2>2. CASE Obtain
    <3>1. PICK u \in Objects : This.obj = u /\ From(helper, u) = at
      BY <2>1, <2>2 DEF Obtain, Does, Keeps, Obtains
    <3>2. Fate(u) /\ object[u] = "unset"  BY <1>1, <2>1, <3>1 DEF Lives, Fate
    <3>3. /\ object' = [object EXCEPT ![u] = "live"]
          /\ onBytes' # onBytes => u = "context" /\ object["bytes"] = "live"
      BY <2>1, <2>2, <3>1 DEF Obtain, Becomes, Keeps
    <3>4. CASE u = "bytes"  BY <1>1, <1>2, <3>3, <3>4 DEF NoDangling
    <3>5. CASE u = "context"
      <4>1. onBytes = {}  BY <1>1, <3>2, <3>5 DEF Lives
      <4> QED  BY <1>1, <1>2, <3>3, <3>5, <4>1 DEF NoDangling
    <3>6. CASE u \notin {"bytes", "context"}
      BY <1>1, <1>2, <3>3, <3>6 DEF NoDangling
    <3> QED  BY <3>4, <3>5, <3>6
  <2>3. CASE Refuse
    <3>1. PICK u \in Objects : This.obj = u /\ From(helper, u) = at
      BY <2>1, <2>3 DEF Refuse, Does, Keeps, Obtains
    <3>2. Fate(u) /\ object[u] = "unset"  BY <1>1, <2>1, <3>1 DEF Lives, Fate
    <3>3. /\ object' = [object EXCEPT ![u] = "null"] \/ object' = [object EXCEPT ![u] = "garbage"]
          /\ onBytes' = onBytes
      BY <2>3, <3>1 DEF Refuse, Becomes
    <3>4. CASE u = "bytes"
      <4>1. onBytes = {}  BY <1>1, <3>2, <3>4 DEF Lives
      <4> QED  BY <3>3, <4>1 DEF NoDangling
    <3>5. CASE u # "bytes"  BY <1>1, <1>2, <3>3, <3>5 DEF NoDangling
    <3> QED  BY <3>4, <3>5
  <2>4. CASE LetGo \/ GiveAway
    <3>1. PICK u \in Objects : This.obj = u /\ To(helper, u) = at
      BY <2>1, <2>4 DEF LetGo, GiveAway, Does, Keeps, Frees
    <3>2. /\ object' = object \/ object' = [object EXCEPT ![u] = "released"]
          /\ onBytes' = onBytes
      BY <2>4, <3>1 DEF LetGo, GiveAway, Becomes
    <3>3. CASE u = "bytes"
      <4>1. Fate("context") /\ To(helper, "context") < at
        BY <1>1, <2>1, <3>1, <3>3 DEF Lives, Keeps
      <4>2. object["context"] # "live"  BY <2>1, <4>1 DEF Fate
      <4> QED  BY <1>1, <1>2, <3>2, <3>3, <4>2 DEF NoDangling
    <3>4. CASE u # "bytes"  BY <1>1, <1>2, <3>2, <3>4 DEF NoDangling
    <3> QED  BY <3>3, <3>4
  <2>5. CASE Skip \/ DrawInto \/ AnswerCopy \/ BeginContext \/ DrawIntoCurrent
             \/ AnswerOfCurrent \/ EndContext
    <3>1. UNCHANGED <<object, onBytes>>
      BY <2>5 DEF Skip, DrawInto, AnswerCopy, BeginContext, DrawIntoCurrent,
         AnswerOfCurrent, EndContext, memory
    <3> QED  BY <1>1, <3>1 DEF NoDangling
  <2> QED  BY <1>5, <2>2, <2>3, <2>4, <2>5 DEF Statements
<1> QED
  BY <1>3, <1>4, <1>5 DEF ResourcesNext, Statements

(* A statement that ends the process is given the NULL image of the gray   *)
(* conversion or uses a cache that is garbage: no other statement can be.  *)
LEMMA StopStep == ResourcesInv /\ [ResourcesNext]_resourceVars => StopsOnlyOnRefusal'
<1> SUFFICES ASSUME ResourcesInv, [ResourcesNext]_resourceVars PROVE StopsOnlyOnRefusal'
  OBVIOUS
<1>1. ResourcesTypeOK /\ AtStatement /\ Lives /\ Caches /\ StopsOnlyOnRefusal
  BY DEF ResourcesInv
<1>2. CASE Stop
  <2>1. Running /\ Reached /\ UNCHANGED <<helper, object>>
    BY <1>2 DEF Stop, call, memory
  <2>2. /\ helper \in DOMAIN Program /\ helper # "none" /\ at \in 1 .. 10
        /\ Disciplined(helper) /\ Keeps(helper, at, This)
    BY <1>1, <2>1, OneStatement
  <2>3. \A o \in Objects : object[o] = "garbage" => o = "textureCache"
    BY <1>1 DEF Lives, Fate
  <2>4. ASSUME NEW o \in This.takes, object[o] = "garbage" PROVE StopsOnlyOnRefusal'
    <3>1. o = "textureCache" /\ helper = "textureFromPixelBuffer"
      BY <2>2, <2>3, <2>4 DEF Keeps
    <3> QED  BY <2>1, <2>4, <3>1 DEF StopsOnlyOnRefusal
  <2>5. ASSUME This.do \in {"release", "CFRelease"}, object[This.obj] # "live",
               This.do = "release" => object[This.obj] # "null"
        PROVE  StopsOnlyOnRefusal'
    <3>1. PICK u \in Objects : /\ This.obj = u /\ To(helper, u) = at
                               /\ Held(helper, u, at)
      BY <2>2, <2>5 DEF Keeps, Frees
    <3>2. Fate(u)  BY <1>1 DEF Lives
    <3>3. object[u] \in {"null", "garbage"}
      BY <2>2, <2>5, <3>1, <3>2 DEF Fate
    <3>4. CASE This.do = "release"
      BY <2>2, <2>3, <2>5, <3>1, <3>3, <3>4 DEF Keeps
    <3>5. CASE helper = "convertImageToGrayScale" /\ u = "imageRef"
      <4>1. object[u] = "null"  BY <2>3, <3>3, <3>5
      <4> QED  BY <2>1, <3>5, <4>1 DEF StopsOnlyOnRefusal
    <3>6. CASE helper = "textureFromPixelBuffer" /\ This.given = {"metalTextureRef"}
      <4>1. object["metalTextureRef"] # "null"  BY <2>1, <3>6 DEF Reached
      <4>2. u \in {"metalTextureRef", "textureCache"}
        BY <3>1, <3>6, <2>2 DEF To, Life, Never
      <4>3. u = "textureCache"  BY <2>3, <3>3, <4>1, <4>2
      <4>4. at = 6  BY <3>1, <3>6, <4>3 DEF To, Life
      <4>5. object["textureCache"] # "null"  BY <1>1, <3>6, <4>1, <4>4 DEF Caches, Texture
      <4> QED  BY <2>1, <3>3, <3>6, <4>3, <4>5 DEF StopsOnlyOnRefusal
    <3> QED  BY <2>2, <2>5, <3>1, <3>4, <3>5, <3>6 DEF Keeps
  <2> QED  BY <1>2, <2>4, <2>5 DEF Stop
<1>3. CASE UNCHANGED resourceVars
  BY <1>1, <1>3 DEF resourceVars, StopsOnlyOnRefusal, call, memory
<1>4. CASE Statements
  BY <1>1, <1>4, StatementGoes DEF Goes, StopsOnlyOnRefusal
<1>5. CASE (\E h \in DOMAIN Program : Call(h)) \/ Return \/ ResizeToNothing
  BY <1>5 DEF Call, Return, ResizeToNothing, Idle, StopsOnlyOnRefusal
<1> QED
  BY <1>2, <1>3, <1>4, <1>5 DEF ResourcesNext, Statements

----------------------------------------------------------------------------
(* What the memory of a call holds                                         *)

\* A statement that is granted what it asks for.
LEMMA GrantedStatement ==
  ASSUME ResourcesInv, Statements, ~refused'
  PROVE  /\ ~refused
         /\ drawn \subseteq drawn' /\ onBytes \subseteq onBytes'
         /\ onBytes' # onBytes => This.do = "createOver"
         /\ This.do = "draw" => Memory(This.obj) \in drawn'
         /\ This.do = "create" =>
              \A t \in This.takes : Memory(t) \in drawn => This.obj \in drawn'
         /\ This.do = "createOver" /\ object["bytes"] = "live" => This.obj \in onBytes'
<1>1. ResourcesTypeOK /\ AtStatement /\ Lives  BY DEF ResourcesInv
<1>2. Running /\ Keeps(helper, at, This) /\ at \in 1 .. 10 /\ helper # "none"
  BY <1>1, StatementGoes, OneStatement
<1>3. ~refused  BY StackStatements
<1>4. ~Refuse  BY DEF Refuse
<1>5. drawn \subseteq drawn' /\ onBytes \subseteq onBytes'
  BY DEF Statements, Skip, Obtain, Refuse, DrawInto, AnswerCopy, GiveAway, LetGo,
     BeginContext, DrawIntoCurrent, AnswerOfCurrent, EndContext, memory
<1>6. CASE This.do = "draw"
  <2>1. This.given = {}  BY <1>2, <1>6 DEF Keeps, Frees
  <2>2. DrawInto
    BY <1>6, <2>1 DEF Statements, Skip, Obtain, Refuse, DrawInto, AnswerCopy, GiveAway, LetGo,
     BeginContext, DrawIntoCurrent, AnswerOfCurrent, EndContext, Does, Reached
  <2>3. This.obj \in Objects /\ Held(helper, This.obj, at)  BY <1>2, <1>6 DEF Keeps
  <2>4. PICK u \in Objects : This.obj = u  BY <2>3
  <2>5. Fate(u)  BY <1>1 DEF Lives
  <2>6. object[u] = "live"  BY <1>2, <1>3, <2>3, <2>4, <2>5 DEF Fate
  <2> QED  BY <1>3, <1>5, <1>6, <2>2, <2>4, <2>6 DEF DrawInto
<1>7. CASE This.do \in {"create", "createOver"}
  <2>1. This.given = {}  BY <1>2, <1>7 DEF Keeps, Frees
  <2>2. Obtain
    BY <1>4, <1>7, <2>1 DEF Statements, Skip, DrawInto, AnswerCopy, GiveAway, LetGo,
     BeginContext, DrawIntoCurrent, AnswerOfCurrent, EndContext, Does, Reached
  <2> QED  BY <1>3, <1>5, <1>7, <2>2 DEF Obtain
<1>8. CASE This.do \notin {"create", "createOver", "draw"}
  <2>1. ASSUME ~Obtain PROVE onBytes' = onBytes
    BY <2>1 DEF Statements, Skip, Refuse, DrawInto, AnswerCopy, GiveAway, LetGo,
       BeginContext, DrawIntoCurrent, AnswerOfCurrent, EndContext, memory
  <2>2. ASSUME Obtain PROVE onBytes' = onBytes
    BY <1>8, <2>2 DEF Obtain
  <2> QED  BY <1>3, <1>5, <1>8, <2>1, <2>2
<1> QED  BY <1>6, <1>7, <1>8

\* The statements that draw, that take what is drawn, and that answer with it.
Draws(h, i, s) ==
  /\ h = "imageByCropToRect" =>
       /\ i = 2 => s = Draw("imageRef")
       /\ s.do = "answer" => i = 3 /\ s.obj = "imageRef"
  /\ h = "convertImageToGrayScale" =>
       /\ i = 3 => s = Draw("context")
       /\ i = 4 => s = Create("imageRef", {"context"})
       /\ s.do # "createOver"
       /\ s.do = "answer" => i = 5 /\ s.obj = "imageRef"
  /\ h = "getImageNSData" =>
       /\ i = 3 => s = CreateOver("context", {"colorSpace"})
       /\ i = 4 => s = Draw("context")
       /\ s.do = "answer" => i = 7 /\ s.obj = "bytes"
  /\ h = "imageFromBRGABytes" =>
       /\ i = 2 => s = Draw("bytes")
       /\ i = 4 => s = CreateOver("context", {"colorSpace"})
       /\ i = 5 => s = Create("imageRef", {"context"})
       /\ s.do = "answer" => i = 8 /\ s.obj = "imageRef"
  /\ h = "loadImage" =>
       /\ i = 2 => s = CreateOver("context", {})
       /\ i = 3 => s = Draw("context")
       /\ s.do = "answer" => i = 5 /\ s.obj = "bytes"
  /\ h = "textureFromPixelBuffer" =>
       /\ i = 3 => s = Draw("metalTextureRef")
       /\ s.do = "answer" => i = 4 /\ s.obj = "metalTextureRef"
  /\ h \in {"CopyImagePixels", "imageByResizeToSize", "imageRotation"} =>
       s.do # "answer"

(* They are where the invariant of the contents expects them.              *)
LEMMA DrawingStatements ==
  ASSUME ResourcesInv, Running
  PROVE  Draws(helper, at, This)
<1>1. /\ helper \in DOMAIN Program /\ helper # "none"
      /\ at \in 1 .. Len(Program[helper]) /\ at \in 1 .. 10 /\ This = Program[helper][at]
  BY OneStatement DEF ResourcesInv, This
<1> USE DEF Statement, If, Create, CreateOver, Malloc, Draw, Release, CFRelease,
     Answer, HandOver, Begin, DrawCurrent, AnswerCurrent, End, Program, Draws
<1>2. CASE helper = "imageByCropToRect"  BY <1>1, <1>2 DEF cropStatements
<1>3. CASE helper = "convertImageToGrayScale"  BY <1>1, <1>3 DEF grayScaleStatements
<1>4. CASE helper = "getImageNSData"  BY <1>1, <1>4 DEF dataStatements
<1>5. CASE helper = "imageFromBRGABytes"
  <2>1. This = wrapStatements[at]  BY <1>1, <1>5
  <2> HIDE DEF Program
  <2>2. CASE at \in 1 .. 4  BY <1>5, <2>1, <2>2 DEF wrapStatements
  <2>3. CASE at \in 5 .. 7  BY <1>5, <2>1, <2>3 DEF wrapStatements
  <2>4. CASE at \in 8 .. 10  BY <1>5, <2>1, <2>4 DEF wrapStatements
  <2> QED  BY <1>1, <2>2, <2>3, <2>4
<1>6. CASE helper = "loadImage"  BY <1>1, <1>6 DEF loadStatements
<1>7. CASE helper = "textureFromPixelBuffer"  BY <1>1, <1>7 DEF textureStatements
<1>8. CASE helper = "CopyImagePixels"  BY <1>1, <1>8 DEF pixelsStatements
<1>9. CASE helper = "imageByResizeToSize"  BY <1>1, <1>9 DEF resizeStatements
<1>10. CASE helper = "imageRotation"  BY <1>1, <1>10 DEF turnStatements
<1>11. helper \in {"imageByCropToRect", "convertImageToGrayScale", "getImageNSData",
                   "imageFromBRGABytes", "loadImage", "textureFromPixelBuffer",
                   "CopyImagePixels", "imageByResizeToSize", "imageRotation"}
  BY <1>1
<1> HIDE DEF Statement, If, Create, CreateOver, Malloc, Draw, Release, CFRelease,
     Answer, HandOver, Begin, DrawCurrent, AnswerCurrent, End, Program, Draws
<1> QED  BY <1>11, <1>2, <1>3, <1>4, <1>5, <1>6, <1>7, <1>8, <1>9, <1>10

(* Where nothing is refused the picture goes from statement to statement.  *)
LEMMA FilledStep == ResourcesInv /\ [ResourcesNext]_resourceVars => Filled'
<1> SUFFICES ASSUME ResourcesInv, [ResourcesNext]_resourceVars, ~refused' PROVE Filled'
  BY DEF Filled
<1>1. ResourcesTypeOK /\ AtStatement /\ Lives /\ Filled  BY DEF ResourcesInv
<1>2. ASSUME NEW h \in DOMAIN Program, Call(h) PROVE Filled'
  BY <1>2 DEF Call, Filled
<1>3. CASE Return
  BY <1>3 DEF Return, Filled
<1>4. CASE ResizeToNothing
  BY <1>4 DEF ResizeToNothing, Filled
<1>5. CASE Stop \/ UNCHANGED resourceVars
  BY <1>1, <1>5 DEF Stop, resourceVars, Filled, call, memory, history
<1>6. CASE Statements
  <2>1. /\ Running /\ at' = at + 1 /\ helper' = helper /\ helper # "none"
        /\ helper \in DOMAIN Program /\ at \in 1 .. 10
    BY <1>1, <1>6, StatementGoes, OneStatement DEF Goes
  <2>2. /\ ~refused
        /\ drawn \subseteq drawn' /\ onBytes \subseteq onBytes'
        /\ onBytes' # onBytes => This.do = "createOver"
        /\ This.do = "draw" => Memory(This.obj) \in drawn'
        /\ This.do = "create" =>
             \A t \in This.takes : Memory(t) \in drawn => This.obj \in drawn'
        /\ This.do = "createOver" /\ object["bytes"] = "live" => This.obj \in onBytes'
    BY <1>6, GrantedStatement
  <2>3. \A o \in Objects : Memory(o) = IF o = "context" /\ "context" \in onBytes
                                       THEN "bytes" ELSE o
    BY <1>1 DEF Lives, Memory
  <2>4. \A o \in Objects : Fate(o) BY <1>1 DEF Lives
  <2>5. \A o \in Objects : Held(helper, o, at) => object[o] = "live"
    BY <2>1, <2>2, <2>4 DEF Fate
  <2> USE DEF Draw, Create, CreateOver, Statement
  <2>6. CASE helper = "imageByCropToRect"
    <3>1. at = 2 => "imageRef" \in drawn'
      BY <2>1, <2>2, <2>3, <2>6, DrawingStatements DEF Draws, Objects
    <3> QED  BY <1>1, <2>1, <2>2, <2>6, <3>1 DEF Filled
  <2>7. CASE helper = "convertImageToGrayScale"
    <3>1. onBytes' = onBytes  BY <2>1, <2>2, <2>7, DrawingStatements DEF Draws
    <3>2. onBytes = {}  BY <1>1, <2>1, <2>2, <2>7 DEF Filled, Lives
    <3>3. at = 3 => "context" \in drawn'
      BY <2>1, <2>2, <2>3, <2>7, <3>2, DrawingStatements DEF Draws, Objects
    <3>4. at = 4 => "imageRef" \in drawn'
      <4>1. ASSUME at = 4 PROVE "imageRef" \in drawn'
        <5>1. This = Create("imageRef", {"context"})
          BY <2>1, <2>7, <4>1, DrawingStatements DEF Draws
        <5>2. Memory("context") \in drawn
          BY <1>1, <2>2, <2>3, <2>7, <3>2, <4>1 DEF Filled, Objects
        <5> QED  BY <2>2, <5>1, <5>2
      <4> QED  BY <4>1
    <3> QED  BY <1>1, <2>1, <2>2, <2>7, <3>1, <3>2, <3>3, <3>4 DEF Filled
  <2>8. CASE helper = "getImageNSData"
    <3>1. at = 3 => "context" \in onBytes'
      <4>1. Held(helper, "bytes", 3)  BY <2>8 DEF Held, From, To, Life
      <4> QED  BY <2>1, <2>2, <2>5, <2>8, <4>1, DrawingStatements DEF Draws, Objects
    <3>2. at = 4 => "bytes" \in drawn'
      <4>1. ASSUME at = 4 PROVE "bytes" \in drawn'
        <5>1. This = Draw("context")  BY <2>1, <2>8, <4>1, DrawingStatements DEF Draws
        <5>2. Memory("context") = "bytes"
          BY <1>1, <2>2, <2>3, <2>8, <4>1 DEF Filled, Objects
        <5> QED  BY <2>2, <5>1, <5>2
      <4> QED  BY <4>1
    <3> QED  BY <1>1, <2>1, <2>2, <2>8, <3>1, <3>2 DEF Filled
  <2>9. CASE helper = "imageFromBRGABytes"
    <3>1. at = 2 => "bytes" \in drawn'
      BY <2>1, <2>2, <2>3, <2>9, DrawingStatements DEF Draws, Objects
    <3>2. at = 4 => "context" \in onBytes'
      <4>1. Held(helper, "bytes", 4)  BY <2>9 DEF Held, From, To, Life
      <4> QED  BY <2>1, <2>2, <2>5, <2>9, <4>1, DrawingStatements DEF Draws, Objects
    <3>3. at = 5 => "imageRef" \in drawn'
      <4>1. ASSUME at = 5 PROVE "imageRef" \in drawn'
        <5>1. This = Create("imageRef", {"context"})
          BY <2>1, <2>9, <4>1, DrawingStatements DEF Draws
        <5>2. Memory("context") \in drawn
          BY <1>1, <2>2, <2>3, <2>9, <4>1 DEF Filled, Objects
        <5> QED  BY <2>2, <5>1, <5>2
      <4> QED  BY <4>1
    <3> QED  BY <1>1, <2>1, <2>2, <2>9, <3>1, <3>2, <3>3 DEF Filled
  <2>10. CASE helper = "loadImage"
    <3>1. at = 2 => "context" \in onBytes'
      <4>1. Held(helper, "bytes", 2)  BY <2>10 DEF Held, From, To, Life
      <4> QED  BY <2>1, <2>2, <2>5, <2>10, <4>1, DrawingStatements DEF Draws, Objects
    <3>2. at = 3 => "bytes" \in drawn'
      <4>1. ASSUME at = 3 PROVE "bytes" \in drawn'
        <5>1. This = Draw("context")  BY <2>1, <2>10, <4>1, DrawingStatements DEF Draws
        <5>2. Memory("context") = "bytes"
          BY <1>1, <2>2, <2>3, <2>10, <4>1 DEF Filled, Objects
        <5> QED  BY <2>2, <5>1, <5>2
      <4> QED  BY <4>1
    <3> QED  BY <1>1, <2>1, <2>2, <2>10, <3>1, <3>2 DEF Filled
  <2>11. CASE helper = "textureFromPixelBuffer"
    <3>1. at = 3 => "metalTextureRef" \in drawn'
      BY <2>1, <2>2, <2>3, <2>11, DrawingStatements DEF Draws, Objects
    <3> QED  BY <1>1, <2>1, <2>2, <2>11, <3>1 DEF Filled
  <2>12. CASE helper \notin {"imageByCropToRect", "convertImageToGrayScale", "getImageNSData",
                             "imageFromBRGABytes", "loadImage", "textureFromPixelBuffer"}
    BY <2>1, <2>12 DEF Filled
  <2> QED  BY <2>6, <2>7, <2>8, <2>9, <2>10, <2>11, <2>12
<1> QED
  BY <1>2, <1>3, <1>4, <1>5, <1>6 DEF ResourcesNext, Statements

(* An answer is made of the memory the call has filled, or of its own      *)
(* context.                                                                *)
LEMMA ResultStep == ResourcesInv /\ [ResourcesNext]_resourceVars => Result'
<1> SUFFICES ASSUME ResourcesInv, [ResourcesNext]_resourceVars PROVE Result'
  OBVIOUS
<1>1. ResourcesTypeOK /\ AtStatement /\ Lives /\ Stack /\ Filled /\ Result
  BY DEF ResourcesInv
<1>2. CASE (\E h \in DOMAIN Program : Call(h)) \/ ResizeToNothing
  BY <1>2 DEF Call, ResizeToNothing, Result
<1>3. CASE Return \/ Stop \/ UNCHANGED resourceVars
  BY <1>1, <1>3 DEF Return, Stop, resourceVars, Result, history
<1>4. CASE Statements
  <2>1. /\ Running /\ helper # "none" /\ helper \in DOMAIN Program
        /\ at \in 1 .. 10 /\ Keeps(helper, at, This)
    BY <1>1, <1>4, StatementGoes, OneStatement
  <2>2. refused => refused'  BY <1>4, StackStatements
  <2>3. CASE AnswerCopy
    <3>1. This.do = "answer" /\ UNCHANGED refused
      BY <2>3 DEF AnswerCopy, Does, history
    <3>2. PICK u \in Objects : This.obj = u /\ Held(helper, u, at) /\ u # "textureCache"
      BY <2>1, <3>1 DEF Keeps
    <3>3. Fate(u)  BY <1>1 DEF Lives
    <3>4. object[u] \in {"null", "live"} /\ (object[u] = "null" => refused)
      BY <2>1, <3>2, <3>3 DEF Fate
    <3>5. ASSUME ~refused PROVE Memory(u) \in drawn
      <4>1. u # "context" /\ u \in drawn
        BY <1>1, <2>1, <3>1, <3>2, <3>5, DrawingStatements DEF Draws, Filled, Program
      <4> QED  BY <1>1, <4>1 DEF Lives, Memory
    <3>6. CASE object[u] = "null"
      <4>1. result' = "nil"  BY <2>3, <3>2, <3>6 DEF AnswerCopy
      <4> QED  BY <3>1, <3>4, <3>6, <4>1 DEF Result
    <3>7. CASE object[u] = "live"
      <4>1. result' = IF Memory(u) \in drawn THEN "picture" ELSE "undrawn"
        BY <2>3, <3>2, <3>7 DEF AnswerCopy
      <4> QED  BY <3>1, <3>5, <4>1 DEF Result
    <3> QED  BY <3>4, <3>6, <3>7
  <2>4. CASE GiveAway
    <3>1. This.do = "handOver" /\ UNCHANGED refused
      BY <2>4 DEF GiveAway, Does, history
    <3>2. "data" \in Objects /\ This.obj = "data" /\ Held(helper, "data", at)
      BY <2>1, <3>1 DEF Keeps, Frees, Objects
    <3>3. Fate("data")  BY <1>1, <3>2 DEF Lives
    <3>4. object["data"] = "live" \/ refused  BY <2>1, <3>2, <3>3 DEF Fate
    <3>5. result' = IF object["data"] = "live" THEN "picture" ELSE "nil"
      BY <2>4, <3>2 DEF GiveAway
    <3> QED  BY <3>1, <3>4, <3>5 DEF Result
  <2>5. CASE AnswerOfCurrent
    <3>1. This.do = "answerCurrent" /\ UNCHANGED refused
      BY <2>5 DEF AnswerOfCurrent, Does, history
    <3>2. at = 3 /\ (Resizing \/ Turning)
      <4>1. helper \in {"imageByResizeToSize", "imageRotation"}
        BY <2>1, <3>1 DEF Keeps
      <4>2. CASE helper = "imageByResizeToSize"
        <5>1. at \in 1 .. 4 /\ at \notin {1, 2, 4}
          BY <2>1, <3>1, <4>2, ResizeStatement
        <5> QED  BY <4>2, <5>1 DEF Resizing
      <4>3. CASE helper = "imageRotation"
        <5>1. at \in 1 .. 3 /\ at \notin {1, 2}
          BY <2>1, <3>1, <4>3, TurnStatement
        <5> QED  BY <4>3, <5>1 DEF Turning
      <4> QED  BY <4>1, <4>2, <4>3
    <3>3. contexts # <<>> /\ Top.own /\ (~Top.made => refused) /\ (Top.made => Top.drawn)
      BY <1>1, <3>2 DEF Stack
    <3>4. result' = IF Top.made THEN "picture" ELSE "nil"
      BY <2>5, <3>3 DEF AnswerOfCurrent
    <3> QED  BY <3>1, <3>3, <3>4 DEF Result
  <2>6. CASE ~AnswerCopy /\ ~GiveAway /\ ~AnswerOfCurrent
    <3>1. UNCHANGED result
      BY <1>4, <2>6 DEF Statements, Skip, Obtain, Refuse, DrawInto, LetGo, BeginContext,
         DrawIntoCurrent, EndContext
    <3> QED  BY <1>1, <2>2, <3>1 DEF Result
  <2> QED  BY <2>3, <2>4, <2>5, <2>6
<1> QED
  BY <1>2, <1>3, <1>4 DEF ResourcesNext, Statements

----------------------------------------------------------------------------
(* Nothing is there before the first call.                                 *)
LEMMA ResourcesInitially == ResourcesInit => ResourcesInv
<1> SUFFICES ASSUME ResourcesInit PROVE ResourcesInv
  OBVIOUS
<1> USE DEF ResourcesInit
<1>1. ResourcesTypeOK
  <2>1. contexts \in Seq([made : BOOLEAN, own : BOOLEAN, drawn : BOOLEAN]) /\ Len(contexts) = 0
    OBVIOUS
  <2>2. 0 \in 0 .. MaxLeft + 1  BY MaxLeftAssumption
  <2>3. left \in [Objects -> Nat] /\ refused \in BOOLEAN /\ stopped \in BOOLEAN
    OBVIOUS
  <2>4. /\ helper \in DOMAIN Program \union {"none"} /\ at \in 1 .. 11
        /\ object \in [Objects -> {"unset", "null", "live", "released", "garbage"}]
        /\ onBytes \subseteq Objects /\ drawn \subseteq Objects
        /\ result \in {"none", "nil", "picture", "undrawn", "dangling", "another's"}
        /\ turned \in Nat /\ uncached \in Nat
    OBVIOUS
  <2>5. Len(contexts) \in 0 .. MaxLeft + 1  BY <2>1, <2>2
  <2> HIDE DEF ResourcesInit
  <2> QED  BY <2>1, <2>3, <2>4, <2>5 DEF ResourcesTypeOK
<1>2. Lives /\ NoDangling  BY DEF Lives, Fate, NoDangling, Objects
<1>3. Caches  BY DEF Caches, Kept, Texture, Objects
<1>4. AtStatement /\ Stack /\ Bounded /\ Filled /\ Result /\ StopsOnlyOnRefusal
  BY MaxLeftAssumption DEF AtStatement, Stack, Resizing, Turning, Bounded, Texture, Filled,
     Result, StopsOnlyOnRefusal
<1> QED  BY <1>1, <1>2, <1>3, <1>4 DEF ResourcesInv

(* The invariant is inductive.                                             *)
LEMMA ResourcesStep == ResourcesInv /\ [ResourcesNext]_resourceVars => ResourcesInv'
BY TypeStep, LivesStep, CachesStep, StackStep, BoundedStep, FilledStep, ResultStep,
   NoDanglingStep, StopStep DEF ResourcesInv

(* So it holds of all calls, one after another.                            *)
LEMMA ResourcesInvariance == ResourcesSpec => []ResourcesInv
BY ResourcesInitially, ResourcesStep, PTL DEF ResourcesSpec

----------------------------------------------------------------------------
(* What becomes of the picture never gets in the way of the statements:    *)
(* each step of a helper is one of GraphicsResources, on its own, or       *)
(* leaves its variables alone.                                             *)
THEOREM ResourcesAsAlone == HelpersSpec => ResourcesSpec
<1>1. HelpersInit => ResourcesInit  BY DEF HelpersInit
<1>2. [HelpersNext]_<<resourceVars, vars>> => [ResourcesNext]_resourceVars
  <2> SUFFICES ASSUME [HelpersNext]_<<resourceVars, vars>>
               PROVE  [ResourcesNext]_resourceVars
    OBVIOUS
  <2>1. CASE Begins  BY <2>1 DEF Begins, ResourcesNext
  <2>2. CASE NoTexture  BY <2>2 DEF NoTexture
  <2>3. CASE Works  BY <2>3 DEF Works, Granted, ResourcesNext
  <2>4. CASE Returns  BY <2>4 DEF Returns, ResourcesNext
  <2>5. CASE UNCHANGED <<resourceVars, vars>>  BY <2>5
  <2> QED  BY <2>1, <2>2, <2>3, <2>4, <2>5 DEF HelpersNext
<1> QED  BY <1>1, <1>2, PTL DEF HelpersSpec, ResourcesSpec

(* The memory of the helpers is well-typed, and no context ever draws on   *)
(* bytes that free was given, whichever call follows which and whatever    *)
(* is refused to it.                                                       *)
THEOREM MemoryAlwaysSound == HelpersSpec => []MemoryInv
<1>1. ResourcesInv => MemoryInv  BY DEF ResourcesInv, MemoryInv
<1> QED  BY <1>1, ResourcesAsAlone, ResourcesInvariance, PTL

(* A helper leaves behind one image context for each image:rotation:, and  *)
(* one cache for each texture that a cache refused, and nothing else.      *)
THEOREM OnlyThoseLeaks == HelpersSpec => []OnlyKnownLeaks
<1>1. ResourcesInv => OnlyKnownLeaks
  <2> SUFFICES ASSUME ResourcesInv, Idle PROVE OnlyKnownLeaks
    BY DEF OnlyKnownLeaks
  <2>1. ~Kept /\ ~Resizing  BY DEF Idle, Kept, Texture, Resizing
  <2>2. left \in [Objects -> Nat] /\ turned \in Nat /\ uncached \in Nat /\ Len(contexts) \in Nat
    BY DEF ResourcesInv, ResourcesTypeOK
  <2>3. Len(contexts) = turned  BY <2>1, <2>2 DEF ResourcesInv, Stack
  <2>4. left["textureCache"] = uncached
    BY <2>1, <2>2 DEF ResourcesInv, Caches, Objects
  <2>5. left = [o \in Objects |-> IF o = "textureCache" THEN uncached ELSE 0]
    BY <2>2, <2>4 DEF ResourcesInv, Caches
  <2> QED  BY <2>3, <2>5 DEF OnlyKnownLeaks
<1> QED  BY <1>1, ResourcesAsAlone, ResourcesInvariance, PTL

(* A call to which nothing was refused answers with the picture, and no    *)
(* call with the context that another one left on UIKit's stack.           *)
THEOREM PictureIsOwn == HelpersSpec => []OwnPicture
<1>1. ResourcesInv => OwnPicture  BY DEF ResourcesInv, Result, OwnPicture
<1> QED  BY <1>1, ResourcesAsAlone, ResourcesInvariance, PTL

(* No helper ends the process but the gray conversion, where CoreGraphics  *)
(* refused the image that CFRelease is given, and the one that makes a     *)
(* texture, where its cache was refused.                                   *)
THEOREM StopsThereAlone == HelpersSpec => []StopsOnlyOnRefusal
<1>1. ResourcesInv => StopsOnlyOnRefusal  BY DEF ResourcesInv
<1> QED  BY <1>1, ResourcesAsAlone, ResourcesInvariance, PTL

----------------------------------------------------------------------------
(* Pictures: sizes, scales and rectangles of every extent.                 *)
USE SizesAssumption, ScalesAssumption, RectsAssumption

Extents == (Nat \ {0}) \X (Nat \ {0})
AllPictures ==
  [pixels : Extents, scale : Scales \union {1}, turned : BOOLEAN,
   space : {"rgb", "gray"}, content : {"kept", "lying", "skewed", "blank"}]

----------------------------------------------------------------------------
(* Division of a size by a scale.                                          *)
LEMMA Quotient ==
  ASSUME NEW n \in Nat, NEW d \in Nat \ {0}
  PROVE  n \div d \in Nat /\ n \div d <= n
<1>1. n = d * (n \div d) + (n % d) /\ n \div d \in Int /\ n % d \in 0 .. d - 1
  OBVIOUS
<1>2. n \div d >= 0  BY <1>1
<1>3. n \div d <= d * (n \div d)  BY <1>2
<1> QED  BY <1>1, <1>2, <1>3

(* Rounded up it is not 0.                                                 *)
LEMMA QuotientUp ==
  ASSUME NEW n \in Nat \ {0}, NEW d \in Nat \ {0}
  PROVE  (n + d - 1) \div d \in Nat \ {0}
<1> DEFINE m == n + d - 1
<1>1. m \in Nat /\ m >= d  OBVIOUS
<1>2. m = d * (m \div d) + (m % d) /\ m \div d \in Int /\ m % d \in 0 .. d - 1
  BY <1>1
<1>3. m \div d \in Nat  BY <1>1, Quotient
<1>4. m \div d # 0  BY <1>1, <1>2
<1> QED  BY <1>3, <1>4

(* The sizes of a picture.                                                 *)
LEMMA SizeTypes ==
  ASSUME NEW p \in AllPictures
  PROVE  /\ Size(p) \in Extents
         /\ Size(p)[1] * Size(p)[2] = p.pixels[1] * p.pixels[2]
         /\ p.scale \in Nat \ {0}
         /\ Points(p) \in Nat \X Nat
         /\ Points(p)[1] <= Size(p)[1] /\ Points(p)[2] <= Size(p)[2]
         /\ PointsUp(p) \in Extents
<1>0. p.scale \in Scales \union {1}  BY DEF AllPictures
<1>1. p.pixels \in Extents /\ p.scale \in Nat \ {0} /\ p.turned \in BOOLEAN
  <2>1. p.scale \in Nat \ {0}
    <3>1. CASE p.scale \in Scales  BY <3>1, Zenon
    <3>2. CASE p.scale = 1  BY <3>2
    <3> QED  BY <1>0, <3>1, <3>2
  <2> QED  BY <2>1 DEF AllPictures
<1>2. p.pixels[1] \in Nat \ {0} /\ p.pixels[2] \in Nat \ {0}  BY <1>1 DEF Extents
<1>3. Size(p) \in Extents /\ Size(p)[1] * Size(p)[2] = p.pixels[1] * p.pixels[2]
  BY <1>1, <1>2 DEF Size, Swapped, Extents
<1>4. Size(p)[1] \in Nat \ {0} /\ Size(p)[2] \in Nat \ {0}  BY <1>3 DEF Extents
<1>5. /\ Size(p)[1] \div p.scale \in Nat /\ Size(p)[1] \div p.scale <= Size(p)[1]
      /\ Size(p)[2] \div p.scale \in Nat /\ Size(p)[2] \div p.scale <= Size(p)[2]
  BY <1>1, <1>4, Quotient
<1>6. /\ (Size(p)[1] + p.scale - 1) \div p.scale \in Nat \ {0}
      /\ (Size(p)[2] + p.scale - 1) \div p.scale \in Nat \ {0}
  BY <1>1, <1>4, QuotientUp
<1> QED  BY <1>1, <1>3, <1>5, <1>6 DEF Points, PointsUp, Extents

(* A texture that has texels has both its sides.                           *)
LEMMA TexelsExtent ==
  ASSUME NEW p \in AllPictures, Texels(p) # {}
  PROVE  Points(p) \in Extents
<1>1. Points(p) \in Nat \X Nat  BY SizeTypes
<1>2. Points(p)[1] \in Nat /\ Points(p)[2] \in Nat
      /\ Points(p) = <<Points(p)[1], Points(p)[2]>>
  BY <1>1
<1>3. PICK t \in Texels(p) : TRUE  OBVIOUS
<1>4. t[1] \in 0 .. Points(p)[1] - 1 /\ t[2] \in 0 .. Points(p)[2] - 1
  BY <1>3 DEF Texels
<1>5. Points(p)[1] # 0 /\ Points(p)[2] # 0  BY <1>2, <1>4
<1> QED  BY <1>2, <1>5 DEF Extents

----------------------------------------------------------------------------
(* The end of the last row is within the bytes: a row takes no more than   *)
(* the image is wide, and there are no more of them than it is high.       *)
LEMMA Inside ==
  ASSUME NEW p \in AllPictures, NEW name, Points(p) \in Extents
  PROVE  LET end == Offset(p, name, <<Points(p)[1], Points(p)[2] - 1>>)
         IN  end \in Nat /\ end <= 4 * p.pixels[1] * p.pixels[2]
<1> DEFINE w == Points(p)[1]
           h == Points(p)[2]
           W == Size(p)[1]
           H == Size(p)[2]
           row == BytesPerRow(p, name)
<1>1. w \in Nat \ {0} /\ h \in Nat \ {0} /\ W \in Nat \ {0} /\ H \in Nat \ {0}
      /\ w <= W /\ h <= H /\ p.scale \in Nat \ {0}
  BY SizeTypes DEF Extents
<1>2. row \in Nat /\ row <= 4 * W
  <2>1. CASE name = "rotate"
    <3>1. 4 * W \in Nat  BY <1>1
    <3>2. (4 * W) \div p.scale \in Nat /\ (4 * W) \div p.scale <= 4 * W
      BY <1>1, <3>1, Quotient
    <3> QED  BY <2>1, <3>2 DEF BytesPerRow
  <2>2. CASE name # "rotate"  BY <2>2, <1>1 DEF BytesPerRow
  <2> QED  BY <2>1, <2>2
<1> DEFINE end == (h - 1) * row + 4 * w
<1> HIDE DEF w, h, W, H, row
<1>3. (h - 1) * row \in Nat /\ (h - 1) * row <= (h - 1) * (4 * W)
  <2>1. h - 1 \in Nat  BY <1>1
  <2> QED  BY <2>1, <1>1, <1>2
<1>4. end \in Nat /\ end <= (h - 1) * (4 * W) + 4 * W  BY <1>1, <1>3
<1>5. (h - 1) * (4 * W) + 4 * W = 4 * (h * W)  BY <1>1
<1>6. h * W <= H * W  BY <1>1
<1>7. end <= 4 * (W * H)  BY <1>1, <1>4, <1>5, <1>6
<1>8. W * H = p.pixels[1] * p.pixels[2]  BY SizeTypes DEF W, H
<1>9. p.pixels[1] \in Nat /\ p.pixels[2] \in Nat  BY DEF AllPictures, Extents
<1>10. end <= 4 * p.pixels[1] * p.pixels[2]  BY <1>7, <1>8, <1>9
<1>11. Offset(p, name, <<Points(p)[1], Points(p)[2] - 1>>) = end
  BY DEF Offset, w, h, row
<1> QED  BY <1>4, <1>10, <1>11

(* What a filter reads and answers.                                        *)
LEMMA FilterStep ==
  ASSUME picture \in AllPictures, NEW name, NEW frame,
         frame \in {Points(picture), Swapped(Points(picture))}, Filter(name, frame)
  PROVE  /\ picture' = Wrapped(frame, Uploaded(picture, name))
         /\ picture' \in AllPictures
         /\ read' \in [end : Nat, have : Nat] /\ read'.end <= read'.have
         /\ by' = "filter" /\ ended' = ended
<1>1. Points(picture) \in Extents  BY TexelsExtent DEF Filter
<1>2. frame \in Extents  BY <1>1 DEF Extents, Swapped
<1>3. Uploaded(picture, name) \in {"kept", "lying", "skewed", "blank"}
  BY DEF Uploaded, AllPictures
<1>4. picture' = Wrapped(frame, Uploaded(picture, name))  BY DEF Filter
<1>5. picture' \in AllPictures  BY <1>2, <1>3, <1>4 DEF Wrapped, AllPictures
<1>6. picture.pixels[1] \in Nat /\ picture.pixels[2] \in Nat
  BY DEF AllPictures, Extents
<1>7. 4 * picture.pixels[1] * picture.pixels[2] \in Nat  BY <1>6
<1>8. read' \in [end : Nat, have : Nat] /\ read'.end <= read'.have
  BY <1>1, <1>7, Inside DEF Filter
<1> QED  BY <1>4, <1>5, <1>8 DEF Filter

\* What a filter leaves behind it, for the next one.
Handed == by = "filter" =>
  picture.scale = 1 /\ picture.turned = FALSE /\ picture.space = "rgb"

PictureInv == TypeOK /\ ReadsInside /\ Handed

(* A helper's step.                                                        *)
LEMMA HelperStep ==
  ASSUME PictureInv, NEW p \in AllPictures, Helper(p)
  PROVE  PictureInv'
BY DEF PictureInv, Helper, TypeOK, ReadsInside, Handed, AllPictures, Extents

(* Types, the reads and what filters answer hold together.                 *)
LEMMA Invariance == Spec => []PictureInv
<1>1. Init => PictureInv
  <2> SUFFICES ASSUME Init PROVE PictureInv  OBVIOUS
  <2>1. picture \in [pixels : Sizes, scale : Scales, turned : BOOLEAN,
                     space : {"rgb", "gray"}, content : {"kept"}]
        /\ by = "file" /\ read = [end |-> 0, have |-> 0] /\ ended = FALSE
    BY DEF Init
  <2>2. picture \in AllPictures
    <3>1. Sizes \subseteq Extents  BY DEF Extents
    <3> QED  BY <2>1, <3>1 DEF AllPictures
  <2>3. TypeOK
    <3>1. read \in [end : Nat, have : Nat]  BY <2>1
    <3> QED  BY <2>1, <2>2, <3>1 DEF TypeOK, AllPictures, Extents
  <2>4. ReadsInside  BY <2>1 DEF ReadsInside
  <2> QED  BY <2>1, <2>3, <2>4 DEF PictureInv, Handed
<1>2. PictureInv /\ [Next]_vars => PictureInv'
  <2> SUFFICES ASSUME PictureInv, [Next]_vars PROVE PictureInv'  OBVIOUS
  <2>0. picture \in AllPictures  BY DEF PictureInv, TypeOK, AllPictures, Extents
  <2>1. ASSUME NEW name, NEW frame \in {Points(picture), Swapped(Points(picture))},
               Filter(name, frame)
        PROVE  PictureInv'
    <3>1. /\ picture' = Wrapped(frame, Uploaded(picture, name))
          /\ picture' \in AllPictures
          /\ read' \in [end : Nat, have : Nat] /\ read'.end <= read'.have
          /\ by' = "filter" /\ ended' = ended
      BY <2>0, <2>1, FilterStep
    <3>2. TypeOK' /\ ReadsInside'
      BY <3>1 DEF PictureInv, TypeOK, ReadsInside, AllPictures, Extents
    <3>3. Handed'  BY <3>1 DEF Handed, Wrapped
    <3> QED  BY <3>2, <3>3 DEF PictureInv
  <2>2. CASE compute  BY <2>1, <2>2 DEF compute
  <2>3. CASE roation  BY <2>1, <2>3 DEF roation
  <2>4. CASE EmptyTexture
    BY <2>4 DEF EmptyTexture, PictureInv, TypeOK, ReadsInside, Handed
  <2>5. CASE imageByCropToRect
    <3>1. PICK rect \in Rects :
            LET Cut(i) == IF rect[i] < picture.pixels[i] THEN rect[i]
                          ELSE picture.pixels[i]
            IN  /\ rect[1] > 0 /\ rect[2] > 0
                /\ Helper([picture EXCEPT !.pixels = <<Cut(1), Cut(2)>>])
      BY <2>5 DEF imageByCropToRect
    <3> DEFINE cut == <<IF rect[1] < picture.pixels[1] THEN rect[1] ELSE picture.pixels[1],
                        IF rect[2] < picture.pixels[2] THEN rect[2] ELSE picture.pixels[2]>>
    <3>2. cut \in Extents  BY <2>0, <3>1 DEF AllPictures, Extents
    <3>3. [picture EXCEPT !.pixels = cut] \in AllPictures
      BY <2>0, <3>2 DEF AllPictures
    <3> QED  BY <3>1, <3>3, HelperStep
  <2>6. CASE imageByResizeToSize
    <3>1. PICK rect \in Rects : rect[1] > 0 /\ rect[2] > 0 /\ Helper(Resized(rect))
      BY <2>6 DEF imageByResizeToSize
    <3>2. picture.scale \in Nat \ {0}  BY <2>0, SizeTypes
    <3>3. rect[1] * picture.scale \in Nat \ {0} /\ rect[2] * picture.scale \in Nat \ {0}
      BY <3>1, <3>2
    <3>4. Resized(rect) \in AllPictures
      BY <2>0, <3>3 DEF Resized, AllPictures, Extents
    <3> QED  BY <3>1, <3>4, HelperStep
  <2>7. DrawnFlat(picture) \in {"kept", "lying", "skewed", "blank"}
    BY <2>0 DEF DrawnFlat, AllPictures
  <2>8. CASE convertImageToGrayScale
    <3> DEFINE p == [pixels |-> Points(picture), scale |-> 1, turned |-> FALSE,
                     space |-> "gray", content |-> DrawnFlat(picture)]
    <3>1. Texels(picture) # {} /\ Helper(p)  BY <2>8 DEF convertImageToGrayScale
    <3>2. p \in AllPictures  BY <2>0, <2>7, <3>1, TexelsExtent DEF AllPictures
    <3> QED  BY <3>1, <3>2, HelperStep
  <2>9. CASE imageRotation
    <3>1. PICK orientation \in {"up", "down", "left", "right"} :
            Helper([pixels |-> IF orientation \in {"left", "right"}
                               THEN Swapped(PointsUp(picture)) ELSE PointsUp(picture),
                    scale |-> 1, turned |-> FALSE, space |-> "rgb",
                    content |-> IF orientation = "right" THEN "blank"
                                ELSE DrawnFlat(picture)])
      BY <2>9 DEF imageRotation
    <3>2. PointsUp(picture) \in Extents /\ Swapped(PointsUp(picture)) \in Extents
      BY <2>0, SizeTypes DEF Extents, Swapped
    <3> DEFINE size == IF orientation \in {"left", "right"}
                       THEN Swapped(PointsUp(picture)) ELSE PointsUp(picture)
               shows == IF orientation = "right" THEN "blank" ELSE DrawnFlat(picture)
    <3>3. size \in Extents /\ shows \in {"kept", "lying", "skewed", "blank"}
      BY <2>7, <3>2
    <3>4. [pixels |-> size, scale |-> 1, turned |-> FALSE, space |-> "rgb",
           content |-> shows] \in AllPictures
      BY <3>3 DEF AllPictures
    <3> QED  BY <3>1, <3>4, HelperStep
  <2>10. CASE UNCHANGED vars
    BY <2>10 DEF vars, PictureInv, TypeOK, ReadsInside, Handed
  <2> QED  BY <2>2, <2>3, <2>4, <2>5, <2>6, <2>8, <2>9, <2>10 DEF Next
<1> QED  BY <1>1, <1>2, PTL DEF Spec

----------------------------------------------------------------------------
(* An upright picture of scale 1 is read in place.                         *)
LEMMA UprightInPlace ==
  ASSUME NEW p \in AllPictures, NEW name, p.scale = 1, p.turned = FALSE
  PROVE  Points(p) = p.pixels /\ InPlace(p, name)
<1>1. /\ p.pixels[1] \in Nat /\ p.pixels[2] \in Nat
      /\ p.pixels = <<p.pixels[1], p.pixels[2]>>
  BY DEF AllPictures, Extents
<1>2. Size(p) = p.pixels  BY DEF Size
<1>3. p.pixels[1] \div 1 = p.pixels[1] /\ p.pixels[2] \div 1 = p.pixels[2]
      /\ (4 * p.pixels[1]) \div 1 = 4 * p.pixels[1]
  BY <1>1
<1>4. Points(p) = p.pixels  BY <1>1, <1>2, <1>3 DEF Points
<1>5. BytesPerRow(p, name) = 4 * p.pixels[1]
  BY <1>2, <1>3, <1>4 DEF BytesPerRow
<1>6. ASSUME NEW t \in Texels(p)
      PROVE  Offset(p, name, t) = 4 * (t[2] * p.pixels[1] + t[1])
  <2>1. t[1] \in Int /\ t[2] \in Int  BY <1>1, <1>4 DEF Texels
  <2>2. t[2] * (4 * p.pixels[1]) + 4 * t[1] = 4 * (t[2] * p.pixels[1] + t[1])
    BY <1>1, <2>1
  <2> QED  BY <1>5, <2>2 DEF Offset
<1> QED  BY <1>4, <1>6 DEF InPlace

(* A filter's step on an upright picture of scale 1.                       *)
LEMMA UprightStep ==
  ASSUME picture \in AllPictures, NEW name, NEW frame,
         frame \in {Points(picture), Swapped(Points(picture))}, Filter(name, frame),
         picture.scale = 1, picture.turned = FALSE
  PROVE  /\ \/ picture'.content = picture.content
            \/ picture'.content = "blank" /\ picture.space = "gray"
         /\ picture'.pixels \in {picture.pixels, Swapped(picture.pixels)}
<1>1. picture' = Wrapped(frame, Uploaded(picture, name))  BY FilterStep
<1>2. Points(picture) = picture.pixels /\ InPlace(picture, name)  BY UprightInPlace
<1>3. \/ Uploaded(picture, name) = picture.content
      \/ Uploaded(picture, name) = "blank" /\ picture.space = "gray"
  BY <1>2 DEF Uploaded
<1> QED  BY <1>1, <1>2, <1>3 DEF Wrapped

(* What every step that answers with a filter's picture is.                *)
LEMMA FilterOrSame ==
  ASSUME [Next]_vars, by' = "filter"
  PROVE  \/ \E name, frame : /\ frame \in {Points(picture), Swapped(Points(picture))}
                             /\ Filter(name, frame)
         \/ picture' = picture /\ by' = by
<1>1. CASE compute  BY <1>1 DEF compute
<1>2. CASE roation  BY <1>2 DEF roation
<1>3. CASE EmptyTexture  BY <1>3 DEF EmptyTexture
<1>4. CASE imageByCropToRect  BY <1>4 DEF imageByCropToRect, Helper
<1>5. CASE imageByResizeToSize  BY <1>5 DEF imageByResizeToSize, Helper
<1>6. CASE convertImageToGrayScale  BY <1>6 DEF convertImageToGrayScale, Helper
<1>7. CASE imageRotation  BY <1>7 DEF imageRotation, Helper
<1>8. CASE UNCHANGED vars  BY <1>8 DEF vars
<1> QED  BY <1>1, <1>2, <1>3, <1>4, <1>5, <1>6, <1>7, <1>8 DEF Next

LEMMA UprightIsKept == Spec => UprightKept
<1>1. PictureInv /\ [Next]_vars =>
        [by' = "filter" /\ picture.scale = 1 /\ ~picture.turned =>
          \/ picture'.content = picture.content
          \/ picture'.content = "blank" /\ picture.space = "gray"]_vars
  <2> SUFFICES ASSUME PictureInv, [Next]_vars, by' = "filter",
                      picture.scale = 1, ~picture.turned
               PROVE  \/ picture'.content = picture.content
                      \/ picture'.content = "blank" /\ picture.space = "gray"
    OBVIOUS
  <2>1. picture \in AllPictures /\ picture.turned = FALSE
    BY DEF PictureInv, TypeOK, AllPictures, Extents
  <2> QED  BY <2>1, FilterOrSame, UprightStep
<1> QED  BY <1>1, Invariance, PTL DEF Spec, UprightKept

LEMMA FilteredIsKept == Spec => FilteredKept
<1>1. PictureInv /\ [Next]_vars =>
        [by = "filter" /\ by' = "filter" =>
          /\ picture'.content = picture.content
          /\ picture'.pixels \in {picture.pixels, Swapped(picture.pixels)}]_vars
  <2> SUFFICES ASSUME PictureInv, [Next]_vars, by = "filter", by' = "filter"
               PROVE  /\ picture'.content = picture.content
                      /\ picture'.pixels \in {picture.pixels, Swapped(picture.pixels)}
    OBVIOUS
  <2>1. picture \in AllPictures
    BY DEF PictureInv, TypeOK, AllPictures, Extents
  <2>2. picture.scale = 1 /\ picture.turned = FALSE /\ picture.space = "rgb"
    BY DEF PictureInv, Handed
  <2> QED  BY <2>1, <2>2, FilterOrSame, UprightStep
<1> QED  BY <1>1, Invariance, PTL DEF Spec, FilteredKept

----------------------------------------------------------------------------
(* The statements of the helpers change no picture but at a call's end:    *)
(* to Pictures all others are a stuttering.                                *)
THEOREM PicturesAsAlone == HelpersSpec => Spec
<1>1. HelpersInit => Init  BY DEF HelpersInit
<1>2. [HelpersNext]_<<resourceVars, vars>> => [Next]_vars
  <2> SUFFICES ASSUME [HelpersNext]_<<resourceVars, vars>> PROVE [Next]_vars
    OBVIOUS
  <2>1. CASE Begins  BY <2>1 DEF Begins, Quiet
  <2>2. CASE NoTexture  BY <2>2 DEF NoTexture, Next
  <2>3. CASE Works  BY <2>3 DEF Works, Quiet
  <2>4. CASE Returns  BY <2>4 DEF Returns, Makes, Quiet, Next
  <2>5. CASE UNCHANGED <<resourceVars, vars>>  BY <2>5
  <2> QED  BY <2>1, <2>2, <2>3, <2>4, <2>5 DEF HelpersNext
<1> QED  BY <1>1, <1>2, PTL DEF HelpersSpec, Spec

(* Every variable keeps its type: no chain of calls makes a picture that   *)
(* is none.                                                                *)
THEOREM TypeCorrect == HelpersSpec => []TypeOK
BY PicturesAsAlone, Invariance, PTL DEF PictureInv

(* No filter reads past the bytes it was given, whatever the size, scale   *)
(* and orientation of its argument.                                        *)
THEOREM AlwaysInside == HelpersSpec => []ReadsInside
BY PicturesAsAlone, Invariance, PTL DEF PictureInv

(* A filter keeps what an upright picture of scale 1 shows, but for the    *)
(* rotation of a gray one.                                                 *)
THEOREM UprightAlwaysKept == HelpersSpec => UprightKept
BY PicturesAsAlone, UprightIsKept, PTL

(* What a filter returned, the next one takes as it is.                    *)
THEOREM FilteredAlwaysKept == HelpersSpec => FilteredKept
BY PicturesAsAlone, FilteredIsKept, PTL
=============================================================================
