---------------------------- MODULE PixelProofs ----------------------------
(***************************************************************************)
(* What becomes of a pixel in any chain of calls.  Its place: turns of at  *)
(* most a full turn add up, whichever of the two ways each is made, for    *)
(* every size (Rotation).  Its color: turning keeps it, and the two other  *)
(* filters keep what they have made, for every color (FilterChain).        *)
(***************************************************************************)
EXTENDS Rotation, FilterChain, TLAPS

----------------------------------------------------------------------------
(* The sampler                                                             *)

(* An exact multiple divides exactly.                                      *)
LEMMA DivExact ==
  ASSUME NEW d \in Nat \ {0}, NEW t \in Nat
  PROVE  (d * t) \div d = t /\ (d * t) % d = 0
<1> DEFINE q == (d * t) \div d
           r == (d * t) % d
<1>1. d * t \in Nat  OBVIOUS
<1>2. q \in Nat /\ r \in 0 .. d - 1 /\ d * t = d * q + r
  BY <1>1
<1> HIDE DEF q, r
<1>3. CASE q = t
  BY <1>2, <1>3 DEF q, r
<1>4. CASE q < t
  <2>1. PICK k \in Nat : t = q + 1 + k
    <3>1. t - q - 1 \in Nat /\ t = q + 1 + (t - q - 1)  BY <1>2, <1>4
    <3> QED  BY <3>1
  <2>2. d * t = d * q + d + d * k  BY <1>2, <2>1
  <2>3. d * k \in Nat /\ d * q \in Nat  BY <1>2
  <2> QED  BY <1>2, <2>2, <2>3
<1>5. CASE q > t
  <2>1. PICK k \in Nat : q = t + 1 + k
    <3>1. q - t - 1 \in Nat /\ q = t + 1 + (q - t - 1)  BY <1>2, <1>5
    <3> QED  BY <3>1
  <2>2. d * q = d * t + d + d * k  BY <1>2, <2>1
  <2>3. d * k \in Nat /\ d * t \in Nat  OBVIOUS
  <2> QED  BY <1>2, <2>2, <2>3
<1> QED  BY <1>2, <1>3, <1>4, <1>5

(* At the center of a texel the sampler reads that texel alone.            *)
LEMMA SampledAtCenter ==
  ASSUME NEW n \in Nat \ {0}, NEW t \in 0 .. n - 1
  PROVE  Sampled(n, <<2 * t + 1 - n, n>>) = {t}
<1>1. n * ((2 * t + 1 - n) + n) - n = (2 * n) * t  OBVIOUS
<1>2. 2 * n \in Nat \ {0} /\ t \in Nat  OBVIOUS
<1>3. ((2 * n) * t) \div (2 * n) = t /\ ((2 * n) * t) % (2 * n) = 0
  BY <1>2, DivExact
<1> QED  BY <1>1, <1>3 DEF Sampled

(* The same center counted from the other end.                             *)
LEMMA SampledFromEnd ==
  ASSUME NEW n \in Nat \ {0}, NEW t \in 0 .. n - 1
  PROVE  Sampled(n, <<n - 2 * t - 1, n>>) = {n - 1 - t}
<1>1. n - 1 - t \in 0 .. n - 1 /\ n - 2 * t - 1 = 2 * (n - 1 - t) + 1 - n
  OBVIOUS
<1> QED  BY <1>1, SampledAtCenter

----------------------------------------------------------------------------
(* Both ways of turning are Turned                                         *)

IsPicture(p) ==
  /\ p = [size |-> p.size, cell |-> p.cell]
  /\ p.size = <<p.size[1], p.size[2]>>
  /\ p.size[1] \in Nat \ {0} /\ p.size[2] \in Nat \ {0}
  /\ DOMAIN p.cell = Pixels(p.size)

(* Both sides of zero are covered, whatever the fractions.                 *)
LEMMA QuadCovers ==
  ASSUME NEW q, q[1][1] \in Int, q[1][2] \in Int, q[2][1] \in Int, q[2][2] \in Int
  PROVE  Covered(q)
<1>1. q[1][1] * q[2][2] + q[2][1] * q[1][2] \in Int  OBVIOUS
<1> QED  BY <1>1 DEF Covered

(* roation:angle: within a full turn.                                      *)
LEMMA DrawnIsTurned ==
  ASSUME NEW p, IsPicture(p), NEW angle \in -4 .. 4
  PROVE  Drawn(p, angle) = Turned(p, angle % 4)
<1> DEFINE w == p.size[1]
           h == p.size[2]
           frame == FrameSize(p.size, angle)
           At(target) == Unrotate(angle, Center(frame, target))
           Shown(target) ==
             UNION {p.cell[spot] : spot \in
               Sampled(w, At(target)[1]) \X Sampled(h, Negative(At(target)[2]))}
<1>1. w \in Nat \ {0} /\ h \in Nat \ {0} /\ p.size = <<w, h>>
  BY DEF IsPicture
<1>2. angle % 4 \in 0 .. 3  OBVIOUS
<1>3. frame = TurnedSize(p.size, angle % 4)
  BY DEF FrameSize, TurnedSize
<1>4. ASSUME NEW i \in 0 .. frame[1] - 1, NEW j \in 0 .. frame[2] - 1
      PROVE  /\ Covered(At(<<i, j>>))
             /\ Shown(<<i, j>>) = p.cell[Origin(p.size, angle % 4, <<i, j>>)]
  <2>0. ASSUME NEW s, NEW t, Sampled(w, At(<<i, j>>)[1]) = {s},
               Sampled(h, Negative(At(<<i, j>>)[2])) = {t}
        PROVE  Shown(<<i, j>>) = p.cell[<<s, t>>]
    <3>1. Sampled(w, At(<<i, j>>)[1]) \X Sampled(h, Negative(At(<<i, j>>)[2]))
            = {<<s, t>>}
      BY <2>0
    <3>2. Shown(<<i, j>>) = UNION {p.cell[spot] : spot \in {<<s, t>>}}
      BY <3>1
    <3> QED  BY <3>2
  <2>1. CASE angle % 4 = 0
    <3>1. frame = <<w, h>>  BY <1>1, <1>3, <2>1 DEF TurnedSize
    <3>2. i \in 0 .. w - 1 /\ j \in 0 .. h - 1  BY <3>1
    <3>3. At(<<i, j>>) = <<<<2 * i + 1 - w, w>>, <<h - 2 * j - 1, h>>>>
      BY <3>1, <2>1 DEF Unrotate, Center
    <3>4. Negative(At(<<i, j>>)[2]) = <<2 * j + 1 - h, h>>
      BY <3>2, <3>3, <1>1 DEF Negative
    <3>5. Shown(<<i, j>>) = p.cell[<<i, j>>]
      BY <1>1, <2>0, <3>2, <3>3, <3>4, SampledAtCenter
    <3>6. Covered(At(<<i, j>>))  BY <1>1, <3>2, <3>3, QuadCovers
    <3> QED  BY <2>1, <3>5, <3>6 DEF Origin
  <2>2. CASE angle % 4 = 1
    <3>1. frame = <<h, w>>  BY <1>1, <1>3, <2>2 DEF TurnedSize, Swapped
    <3>2. i \in 0 .. h - 1 /\ j \in 0 .. w - 1  BY <3>1
    <3>3. At(<<i, j>>) = <<<<2 * j + 1 - w, w>>, <<2 * i + 1 - h, h>>>>
      BY <3>1, <3>2, <2>2, <1>1 DEF Unrotate, Center, Negative
    <3>4. Negative(At(<<i, j>>)[2]) = <<h - 2 * i - 1, h>>
      BY <3>2, <3>3, <1>1 DEF Negative
    <3>5. Shown(<<i, j>>) = p.cell[<<j, h - 1 - i>>]
      BY <1>1, <2>0, <3>2, <3>3, <3>4, SampledAtCenter, SampledFromEnd
    <3>6. Covered(At(<<i, j>>))  BY <1>1, <3>2, <3>3, QuadCovers
    <3> QED  BY <1>1, <2>2, <3>5, <3>6 DEF Origin
  <2>3. CASE angle % 4 = 2
    <3>1. frame = <<w, h>>  BY <1>1, <1>3, <2>3 DEF TurnedSize
    <3>2. i \in 0 .. w - 1 /\ j \in 0 .. h - 1  BY <3>1
    <3>3. At(<<i, j>>) = <<<<w - 2 * i - 1, w>>, <<2 * j + 1 - h, h>>>>
      BY <3>1, <3>2, <2>3, <1>1 DEF Unrotate, Center, Negative
    <3>4. Negative(At(<<i, j>>)[2]) = <<h - 2 * j - 1, h>>
      BY <3>2, <3>3, <1>1 DEF Negative
    <3>5. Shown(<<i, j>>) = p.cell[<<w - 1 - i, h - 1 - j>>]
      BY <1>1, <2>0, <3>2, <3>3, <3>4, SampledFromEnd
    <3>6. Covered(At(<<i, j>>))  BY <1>1, <3>2, <3>3, QuadCovers
    <3> QED  BY <1>1, <2>3, <3>5, <3>6 DEF Origin
  <2>4. CASE angle % 4 = 3
    <3>1. frame = <<h, w>>  BY <1>1, <1>3, <2>4 DEF TurnedSize, Swapped
    <3>2. i \in 0 .. h - 1 /\ j \in 0 .. w - 1  BY <3>1
    <3>3. At(<<i, j>>) = <<<<w - 2 * j - 1, w>>, <<h - 2 * i - 1, h>>>>
      BY <3>1, <3>2, <2>4, <1>1 DEF Unrotate, Center, Negative
    <3>4. Negative(At(<<i, j>>)[2]) = <<2 * i + 1 - h, h>>
      BY <3>2, <3>3, <1>1 DEF Negative
    <3>5. Shown(<<i, j>>) = p.cell[<<w - 1 - j, i>>]
      <4>1. Sampled(w, At(<<i, j>>)[1]) = {w - 1 - j}
        BY <1>1, <3>2, <3>3, SampledFromEnd
      <4>2. Sampled(h, Negative(At(<<i, j>>)[2])) = {i}
        BY <1>1, <3>2, <3>4, SampledAtCenter
      <4> QED  BY <2>0, <4>1, <4>2
    <3>6. Covered(At(<<i, j>>))  BY <1>1, <3>2, <3>3, QuadCovers
    <3> QED  BY <1>1, <2>4, <3>5, <3>6 DEF Origin
  <2> QED  BY <1>2, <2>1, <2>2, <2>3, <2>4
<1>5. \A target \in Pixels(frame) :
        /\ Covered(At(target))
        /\ Shown(target) = p.cell[Origin(p.size, angle % 4, target)]
  <2> SUFFICES ASSUME NEW target \in Pixels(frame)
               PROVE  /\ Covered(At(target))
                      /\ Shown(target) = p.cell[Origin(p.size, angle % 4, target)]
    OBVIOUS
  <2>1. PICK i \in 0 .. frame[1] - 1, j \in 0 .. frame[2] - 1 : target = <<i, j>>
    BY DEF Pixels
  <2> QED  BY <1>4, <2>1
<1> HIDE DEF frame
<1>6. Drawn(p, angle) =
        [size |-> frame,
         cell |-> [target \in Pixels(frame) |->
                     IF Covered(At(target)) THEN Shown(target) ELSE {}]]
  BY DEF Drawn, frame
<1> HIDE DEF At, Shown
<1>7. [target \in Pixels(frame) |-> IF Covered(At(target)) THEN Shown(target) ELSE {}]
        = [target \in Pixels(frame) |-> p.cell[Origin(p.size, angle % 4, target)]]
  BY <1>5
<1> QED  BY <1>3, <1>6, <1>7 DEF Turned

(* image:rotation: for the orientations whose turn is what they say.       *)
LEMMA InContextIsTurned ==
  ASSUME NEW p, IsPicture(p), NEW orientation \in {"up", "left", "down"}
  PROVE  InContext(p, orientation) = Turned(p, Clockwise(orientation))
<1> DEFINE w == p.size[1]
           h == p.size[2]
           q == Clockwise(orientation)
           rect == Rect(p.size, orientation)
           Onto(target) ==
             {t \in Pixels(p.size) : Placed(p.size, orientation, t) =
                <<2 * target[1] + 1, 2 * (rect[2] - target[2]) - 1>>}
<1>1. w \in Nat \ {0} /\ h \in Nat \ {0} /\ p.size = <<w, h>>
  BY DEF IsPicture
<1>2. rect = TurnedSize(p.size, q)
  BY DEF Rect, TurnedSize, Clockwise
<1>3. ASSUME NEW i \in 0 .. rect[1] - 1, NEW j \in 0 .. rect[2] - 1
      PROVE  Onto(<<i, j>>) = {Origin(p.size, q, <<i, j>>)}
  <2>0. ASSUME NEW a \in 0 .. w - 1, NEW b \in 0 .. h - 1,
               \A x \in 0 .. w - 1, y \in 0 .. h - 1 :
                 Placed(p.size, orientation, <<x, y>>) =
                     <<2 * i + 1, 2 * (rect[2] - j) - 1>> <=> x = a /\ y = b
        PROVE  Onto(<<i, j>>) = {<<a, b>>}
    <3>1. Pixels(p.size) = (0 .. w - 1) \X (0 .. h - 1)  BY DEF Pixels
    <3>2. ASSUME NEW t \in Pixels(p.size)
          PROVE  Placed(p.size, orientation, t) =
                   <<2 * i + 1, 2 * (rect[2] - j) - 1>> <=> t = <<a, b>>
      <4>1. PICK x \in 0 .. w - 1, y \in 0 .. h - 1 : t = <<x, y>>  BY <3>1
      <4>2. t = <<a, b>> <=> x = a /\ y = b  BY <4>1
      <4> QED  BY <2>0, <4>1, <4>2
    <3>3. <<a, b>> \in Pixels(p.size)  BY <3>1
    <3>4. Onto(<<i, j>>) = {t \in Pixels(p.size) :
            Placed(p.size, orientation, t) = <<2 * i + 1, 2 * (rect[2] - j) - 1>>}
      OBVIOUS
    <3> QED  BY <3>2, <3>3, <3>4
  <2>1. CASE orientation = "up"
    <3>1. rect = <<w, h>> /\ q = 0
      BY <1>1, <2>1 DEF Rect, Clockwise
    <3>2. i \in 0 .. w - 1 /\ j \in 0 .. h - 1  BY <3>1
    <3>3. Origin(p.size, q, <<i, j>>) = <<i, j>>  BY <3>1 DEF Origin
    <3>4. ASSUME NEW x \in 0 .. w - 1, NEW y \in 0 .. h - 1
          PROVE  Placed(p.size, orientation, <<x, y>>) = <<2 * x + 1, 2 * (h - y) - 1>>
      BY <1>1, <2>1, <3>1 DEF Placed, Rotate, RotateCTM, Translate
    <3>5. ASSUME NEW x \in 0 .. w - 1, NEW y \in 0 .. h - 1
          PROVE  Placed(p.size, orientation, <<x, y>>) =
                     <<2 * i + 1, 2 * (rect[2] - j) - 1>>
                   <=> x = i /\ y = j
      BY <1>1, <3>1, <3>2, <3>4
    <3>6. i \in 0 .. w - 1 /\ j \in 0 .. h - 1  BY <1>1, <3>2
    <3>7. Onto(<<i, j>>) = {<<i, j>>}
      BY <2>0, <3>5, <3>6
    <3> QED  BY <3>3, <3>7
  <2>2. CASE orientation = "left"
    <3>1. rect = <<h, w>> /\ q = 3
      BY <1>1, <2>2 DEF Rect, Clockwise, Swapped
    <3>2. i \in 0 .. h - 1 /\ j \in 0 .. w - 1  BY <3>1
    <3>3. Origin(p.size, q, <<i, j>>) = <<w - 1 - j, i>>
      BY <1>1, <3>1 DEF Origin
    <3>4. ASSUME NEW x \in 0 .. w - 1, NEW y \in 0 .. h - 1
          PROVE  Placed(p.size, orientation, <<x, y>>) = <<2 * y + 1, 2 * x + 1>>
      BY <1>1, <2>2, <3>1 DEF Placed, Rotate, RotateCTM, Translate
    <3>5. ASSUME NEW x \in 0 .. w - 1, NEW y \in 0 .. h - 1
          PROVE  Placed(p.size, orientation, <<x, y>>) =
                     <<2 * i + 1, 2 * (rect[2] - j) - 1>>
                   <=> x = w - 1 - j /\ y = i
      BY <1>1, <3>1, <3>2, <3>4
    <3>6. w - 1 - j \in 0 .. w - 1 /\ i \in 0 .. h - 1  BY <1>1, <3>2
    <3>7. Onto(<<i, j>>) = {<<w - 1 - j, i>>}
      BY <2>0, <3>5, <3>6
    <3> QED  BY <3>3, <3>7
  <2>3. CASE orientation = "down"
    <3>1. rect = <<w, h>> /\ q = 2
      BY <1>1, <2>3 DEF Rect, Clockwise
    <3>2. i \in 0 .. w - 1 /\ j \in 0 .. h - 1  BY <3>1
    <3>3. Origin(p.size, q, <<i, j>>) = <<w - 1 - i, h - 1 - j>>
      BY <1>1, <3>1 DEF Origin
    <3>4. ASSUME NEW x \in 0 .. w - 1, NEW y \in 0 .. h - 1
          PROVE  Placed(p.size, orientation, <<x, y>>)
                   = <<2 * (w - x) - 1, 2 * y + 1>>
      BY <1>1, <2>3, <3>1 DEF Placed, Rotate, RotateCTM, Translate
    <3>5. ASSUME NEW x \in 0 .. w - 1, NEW y \in 0 .. h - 1
          PROVE  Placed(p.size, orientation, <<x, y>>) =
                     <<2 * i + 1, 2 * (rect[2] - j) - 1>>
                   <=> x = w - 1 - i /\ y = h - 1 - j
      BY <1>1, <3>1, <3>2, <3>4
    <3>6. w - 1 - i \in 0 .. w - 1 /\ h - 1 - j \in 0 .. h - 1  BY <1>1, <3>2
    <3>7. Onto(<<i, j>>) = {<<w - 1 - i, h - 1 - j>>}
      BY <2>0, <3>5, <3>6
    <3> QED  BY <3>3, <3>7
  <2> QED  BY <2>1, <2>2, <2>3
<1>4. \A target \in Pixels(rect) :
        UNION {p.cell[t] : t \in Onto(target)} = p.cell[Origin(p.size, q, target)]
  <2> SUFFICES ASSUME NEW target \in Pixels(rect)
               PROVE  UNION {p.cell[t] : t \in Onto(target)}
                        = p.cell[Origin(p.size, q, target)]
    OBVIOUS
  <2>1. PICK i \in 0 .. rect[1] - 1, j \in 0 .. rect[2] - 1 : target = <<i, j>>
    BY DEF Pixels
  <2>2. Onto(target) = {Origin(p.size, q, target)}  BY <1>3, <2>1
  <2> HIDE DEF Onto
  <2> QED  BY <2>2
<1> HIDE DEF rect
<1>5. InContext(p, orientation) =
        [size |-> rect,
         cell |-> [target \in Pixels(rect) |->
                     UNION {p.cell[t] : t \in Onto(target)}]]
  BY DEF InContext, rect
<1> HIDE DEF Onto
<1>6. [target \in Pixels(rect) |-> UNION {p.cell[t] : t \in Onto(target)}]
        = [target \in Pixels(rect) |-> p.cell[Origin(p.size, q, target)]]
  BY <1>4
<1> QED  BY <1>2, <1>5, <1>6 DEF Turned

----------------------------------------------------------------------------
(* Turns of turned pictures                                                *)

(* A position of the turned picture comes from one of the picture.         *)
LEMMA OriginInside ==
  ASSUME NEW w \in Nat \ {0}, NEW h \in Nat \ {0}, NEW q \in 0 .. 3,
         NEW at \in Pixels(TurnedSize(<<w, h>>, q))
  PROVE  Origin(<<w, h>>, q, at) \in Pixels(<<w, h>>)
<1> DEFINE size == TurnedSize(<<w, h>>, q)
<1>1. PICK i \in 0 .. size[1] - 1, j \in 0 .. size[2] - 1 : at = <<i, j>>
  BY DEF Pixels
<1>2. CASE q = 0  BY <1>1, <1>2 DEF Origin, Pixels, TurnedSize
<1>3. CASE q = 1  BY <1>1, <1>3 DEF Origin, Pixels, TurnedSize, Swapped
<1>4. CASE q = 2  BY <1>1, <1>4 DEF Origin, Pixels, TurnedSize
<1>5. CASE q = 3  BY <1>1, <1>5 DEF Origin, Pixels, TurnedSize, Swapped
<1> QED  BY <1>2, <1>3, <1>4, <1>5

LEMMA TurnedIsPicture ==
  ASSUME NEW p, IsPicture(p), NEW q \in 0 .. 3
  PROVE  IsPicture(Turned(p, q))
<1>1. CASE q % 2 = 0  BY <1>1 DEF IsPicture, Turned, TurnedSize
<1>2. CASE q % 2 # 0  BY <1>2 DEF IsPicture, Turned, TurnedSize, Swapped
<1> QED  BY <1>1, <1>2

(* Two turns make their sum, modulo four.                                  *)
LEMMA TurnsCompose ==
  ASSUME NEW p, IsPicture(p), NEW a \in 0 .. 3, NEW b \in 0 .. 3
  PROVE  Turned(Turned(p, a), b) = Turned(p, (a + b) % 4)
<1> DEFINE w == p.size[1]
           h == p.size[2]
           mid == TurnedSize(p.size, a)
           c == (a + b) % 4
           end == TurnedSize(p.size, c)
<1>1. w \in Nat \ {0} /\ h \in Nat \ {0} /\ p.size = <<w, h>>
  BY DEF IsPicture
<1>2. c \in 0 .. 3  OBVIOUS
<1>3. TurnedSize(mid, b) = end
  BY <1>1 DEF TurnedSize, Swapped
<1>4. ASSUME NEW at \in Pixels(end)
      PROVE  /\ Origin(mid, b, at) \in Pixels(mid)
             /\ Origin(p.size, a, Origin(mid, b, at)) = Origin(p.size, c, at)
  <2>1. PICK i \in 0 .. end[1] - 1, j \in 0 .. end[2] - 1 : at = <<i, j>>
    BY DEF Pixels
  <2>2. mid = <<mid[1], mid[2]>> /\ mid[1] \in Nat \ {0} /\ mid[2] \in Nat \ {0}
    BY <1>1 DEF TurnedSize, Swapped
  <2>3. Origin(mid, b, at) \in Pixels(mid)
    BY <1>3, <2>2, OriginInside
  <2>4. i \in Int /\ j \in Int  BY <1>1, <2>2
  <2>5. Origin(p.size, a, Origin(mid, b, <<i, j>>)) = Origin(p.size, c, <<i, j>>)
    <3>1. CASE a = 0
      <4>1. mid = <<w, h>>  BY <1>1, <3>1 DEF TurnedSize, Swapped
      <4>2. CASE b = 0
        <5>1. c = 0  BY <3>1, <4>2
        <5> QED  BY <1>1, <2>4, <3>1, <4>1, <4>2, <5>1 DEF Origin
      <4>3. CASE b = 1
        <5>1. c = 1  BY <3>1, <4>3
        <5> QED  BY <1>1, <2>4, <3>1, <4>1, <4>3, <5>1 DEF Origin
      <4>4. CASE b = 2
        <5>1. c = 2  BY <3>1, <4>4
        <5> QED  BY <1>1, <2>4, <3>1, <4>1, <4>4, <5>1 DEF Origin
      <4>5. CASE b = 3
        <5>1. c = 3  BY <3>1, <4>5
        <5> QED  BY <1>1, <2>4, <3>1, <4>1, <4>5, <5>1 DEF Origin
      <4> QED  BY <4>2, <4>3, <4>4, <4>5
    <3>2. CASE a = 1
      <4>1. mid = <<h, w>>  BY <1>1, <3>2 DEF TurnedSize, Swapped
      <4>2. CASE b = 0
        <5>1. c = 1  BY <3>2, <4>2
        <5> QED  BY <1>1, <2>4, <3>2, <4>1, <4>2, <5>1 DEF Origin
      <4>3. CASE b = 1
        <5>1. c = 2  BY <3>2, <4>3
        <5> QED  BY <1>1, <2>4, <3>2, <4>1, <4>3, <5>1 DEF Origin
      <4>4. CASE b = 2
        <5>1. c = 3  BY <3>2, <4>4
        <5> QED  BY <1>1, <2>4, <3>2, <4>1, <4>4, <5>1 DEF Origin
      <4>5. CASE b = 3
        <5>1. c = 0  BY <3>2, <4>5
        <5> QED  BY <1>1, <2>4, <3>2, <4>1, <4>5, <5>1 DEF Origin
      <4> QED  BY <4>2, <4>3, <4>4, <4>5
    <3>3. CASE a = 2
      <4>1. mid = <<w, h>>  BY <1>1, <3>3 DEF TurnedSize, Swapped
      <4>2. CASE b = 0
        <5>1. c = 2  BY <3>3, <4>2
        <5> QED  BY <1>1, <2>4, <3>3, <4>1, <4>2, <5>1 DEF Origin
      <4>3. CASE b = 1
        <5>1. c = 3  BY <3>3, <4>3
        <5> QED  BY <1>1, <2>4, <3>3, <4>1, <4>3, <5>1 DEF Origin
      <4>4. CASE b = 2
        <5>1. c = 0  BY <3>3, <4>4
        <5> QED  BY <1>1, <2>4, <3>3, <4>1, <4>4, <5>1 DEF Origin
      <4>5. CASE b = 3
        <5>1. c = 1  BY <3>3, <4>5
        <5> QED  BY <1>1, <2>4, <3>3, <4>1, <4>5, <5>1 DEF Origin
      <4> QED  BY <4>2, <4>3, <4>4, <4>5
    <3>4. CASE a = 3
      <4>1. mid = <<h, w>>  BY <1>1, <3>4 DEF TurnedSize, Swapped
      <4>2. CASE b = 0
        <5>1. c = 3  BY <3>4, <4>2
        <5> QED  BY <1>1, <2>4, <3>4, <4>1, <4>2, <5>1 DEF Origin
      <4>3. CASE b = 1
        <5>1. c = 0  BY <3>4, <4>3
        <5> QED  BY <1>1, <2>4, <3>4, <4>1, <4>3, <5>1 DEF Origin
      <4>4. CASE b = 2
        <5>1. c = 1  BY <3>4, <4>4
        <5> QED  BY <1>1, <2>4, <3>4, <4>1, <4>4, <5>1 DEF Origin
      <4>5. CASE b = 3
        <5>1. c = 2  BY <3>4, <4>5
        <5> QED  BY <1>1, <2>4, <3>4, <4>1, <4>5, <5>1 DEF Origin
      <4> QED  BY <4>2, <4>3, <4>4, <4>5
    <3> QED  BY <3>1, <3>2, <3>3, <3>4
  <2> QED  BY <2>1, <2>3, <2>5
<1> HIDE DEF mid, end, c
<1>5. Turned(p, a) =
        [size |-> mid, cell |-> [at \in Pixels(mid) |-> p.cell[Origin(p.size, a, at)]]]
  BY DEF Turned, mid
<1>6. Turned(Turned(p, a), b) =
        [size |-> end,
         cell |-> [at \in Pixels(end) |-> Turned(p, a).cell[Origin(mid, b, at)]]]
  BY <1>3, <1>5 DEF Turned
<1>7. \A at \in Pixels(end) :
        Turned(p, a).cell[Origin(mid, b, at)] = p.cell[Origin(p.size, c, at)]
  BY <1>4, <1>5
<1>8. Turned(p, c) =
        [size |-> end, cell |-> [at \in Pixels(end) |-> p.cell[Origin(p.size, c, at)]]]
  BY DEF Turned, end
<1> QED  BY <1>6, <1>7, <1>8 DEF c

----------------------------------------------------------------------------
(* The specification                                                       *)

LEMMA OriginalSize ==
  ASSUME original \in Sizes
  PROVE  /\ original = <<original[1], original[2]>>
         /\ original[1] \in Nat \ {0} /\ original[2] \in Nat \ {0}
BY SizesAssumption

LEMMA PictureType ==
  ASSUME TypeOK
  PROVE  IsPicture(picture)
<1>1. original = <<original[1], original[2]>>
      /\ original[1] \in Nat \ {0} /\ original[2] \in Nat \ {0}
  BY OriginalSize DEF TypeOK
<1>2. picture.size = <<picture.size[1], picture.size[2]>>
      /\ picture.size[1] \in Nat \ {0} /\ picture.size[2] \in Nat \ {0}
  BY <1>1 DEF TypeOK, Swapped
<1> QED  BY <1>2 DEF TypeOK, IsPicture

LEMMA RoationType ==
  ASSUME TypeOK, NEW angle \in Angles, roation(angle)
  PROVE  TypeOK'
<1>1. angle \in Int  BY AnglesAssumption
<1>2. turns' \in 0 .. 3  BY <1>1 DEF TypeOK, roation
<1>3. picture' = [size |-> picture'.size, cell |-> picture'.cell]
  BY DEF roation, Drawn
<1>4. picture'.size \in {original, Swapped(original)}
  BY OriginalSize DEF roation, Drawn, FrameSize, TypeOK, Swapped
<1>5. picture'.cell \in [Pixels(picture'.size) -> SUBSET Pixels(original)]
  <2>1. \A n, x : Sampled(n, x) \subseteq 0 .. n - 1  BY DEF Sampled
  <2>2. \A spot \in Pixels(picture.size) : picture.cell[spot] \subseteq Pixels(original)
    BY DEF TypeOK
  <2>3. \A x, y : UNION {picture.cell[spot] : spot \in
               Sampled(picture.size[1], x) \X Sampled(picture.size[2], y)}
             \subseteq Pixels(original)
    BY <2>1, <2>2 DEF Pixels
  <2> QED  BY <2>3 DEF roation, Drawn
<1>6. within' \in BOOLEAN /\ UNCHANGED <<original, contexts>>  BY DEF roation
<1> QED  BY <1>2, <1>3, <1>4, <1>5, <1>6 DEF TypeOK

LEMMA ImageRotationType ==
  ASSUME TypeOK, NEW orientation \in Orientations, imageRotation(orientation)
  PROVE  TypeOK'
<1>1. orientation \in {"up", "left", "right", "down"}  BY OrientationsAssumption
<1>2. turns' \in 0 .. 3
  BY <1>1 DEF TypeOK, imageRotation, Clockwise
<1>3. picture' = [size |-> picture'.size, cell |-> picture'.cell]
  BY DEF imageRotation, InContext
<1>4. picture'.size \in {original, Swapped(original)}
  BY OriginalSize DEF imageRotation, InContext, Rect, TypeOK, Swapped
<1>5. picture'.cell \in [Pixels(picture'.size) -> SUBSET Pixels(original)]
  <2>1. \A spot \in Pixels(picture.size) : picture.cell[spot] \subseteq Pixels(original)
    BY DEF TypeOK
  <2>2. \A S \in SUBSET Pixels(picture.size) :
          UNION {picture.cell[spot] : spot \in S} \subseteq Pixels(original)
    BY <2>1
  <2> QED  BY <2>2 DEF imageRotation, InContext
<1>6. contexts' \in 0 .. MaxContexts
  BY MaxContextsAssumption DEF TypeOK, imageRotation
<1>7. UNCHANGED <<original, within>>  BY DEF imageRotation
<1> QED  BY <1>2, <1>3, <1>4, <1>5, <1>6, <1>7 DEF TypeOK

(* The state is what its declarations say, blended and blank pictures      *)
(* included.                                                               *)
THEOREM TypeCorrect == Spec => []TypeOK
<1>1. Init => TypeOK
  <2> SUFFICES ASSUME Init PROVE TypeOK  OBVIOUS
  <2>1. picture.cell \in [Pixels(original) -> SUBSET Pixels(original)]
    BY DEF Init, Source
  <2> QED  BY <2>1, MaxContextsAssumption DEF Init, Source, TypeOK
<1>2. TypeOK /\ [Next]_vars => TypeOK'
  <2> SUFFICES ASSUME TypeOK, [Next]_vars PROVE TypeOK'  OBVIOUS
  <2>1. CASE \E angle \in Angles : roation(angle)  BY <2>1, RoationType
  <2>2. CASE \E orientation \in Orientations : imageRotation(orientation)
    BY <2>2, ImageRotationType
  <2>3. CASE UNCHANGED vars  BY <2>3 DEF vars, TypeOK
  <2> QED  BY <2>1, <2>2, <2>3 DEF Next
<1> QED  BY <1>1, <1>2, PTL DEF Spec

LEMMA SourceUnturned ==
  ASSUME NEW size \in Sizes
  PROVE  IsPicture(Source(size)) /\ Turned(Source(size), 0) = Source(size)
<1>1. size = <<size[1], size[2]>> /\ size[1] \in Nat \ {0} /\ size[2] \in Nat \ {0}
  BY SizesAssumption
<1>2. IsPicture(Source(size))  BY <1>1 DEF IsPicture, Source
<1> QED  BY <1>2 DEF Source, Turned, TurnedSize, Origin

(* Where image:rotation: is not asked for a turn to the right, turns of at *)
(* most a full turn add up, for pictures of any size.                      *)
THEOREM TurnsAlwaysAddUp ==
  ASSUME "right" \notin Orientations
  PROVE  Spec => []TurnsAddUp
<1>1. Init => TurnsAddUp
  BY SourceUnturned DEF Init, TurnsAddUp
<1>2. TypeOK /\ TurnsAddUp /\ [Next]_vars => TurnsAddUp'
  <2> SUFFICES ASSUME TypeOK, TurnsAddUp, [Next]_vars, within'
               PROVE  picture' = Turned(Source(original'), turns')
    BY DEF TurnsAddUp
  <2>1. IsPicture(picture)  BY PictureType
  <2>2. IsPicture(Source(original)) /\ turns \in 0 .. 3
    BY SourceUnturned DEF TypeOK
  <2>3. ASSUME NEW q \in 0 .. 3, within, picture' = Turned(picture, q),
               original' = original, turns' = (turns + q) % 4
        PROVE  picture' = Turned(Source(original'), turns')
    <3>1. picture' = Turned(Turned(Source(original), turns), q)
      BY <2>3 DEF TurnsAddUp
    <3>2. picture' = Turned(Source(original), (turns + q) % 4)
      BY <2>2, <3>1, TurnsCompose
    <3> QED  BY <2>3, <3>2
  <2>4. ASSUME NEW angle \in Angles, roation(angle)
        PROVE  picture' = Turned(Source(original'), turns')
    <3>1. within /\ angle \in -4 .. 4  BY <2>4 DEF roation
    <3>2. picture' = Turned(picture, angle % 4)
      BY <2>1, <2>4, <3>1, DrawnIsTurned DEF roation
    <3>3. angle % 4 \in 0 .. 3 /\ (turns + angle) % 4 = (turns + (angle % 4)) % 4
      BY <2>2, <3>1
    <3>4. original' = original /\ turns' = (turns + (angle % 4)) % 4
      BY <2>4, <3>3 DEF roation
    <3>5. PICK q \in 0 .. 3 : q = angle % 4  BY <3>3
    <3>6. picture' = Turned(picture, q) /\ turns' = (turns + q) % 4
      BY <2>2, <3>1, <3>2, <3>4, <3>5
    <3> QED  BY <2>3, <3>1, <3>4, <3>6
  <2>5. ASSUME NEW orientation \in Orientations, imageRotation(orientation)
        PROVE  picture' = Turned(Source(original'), turns')
    <3>1. orientation \in {"up", "left", "down"}  BY OrientationsAssumption
    <3>2. picture' = Turned(picture, Clockwise(orientation))
      BY <2>1, <2>5, <3>1, InContextIsTurned DEF imageRotation
    <3>3. Clockwise(orientation) \in 0 .. 3  BY <3>1 DEF Clockwise
    <3> QED  BY <2>3, <2>5, <3>2, <3>3 DEF imageRotation
  <2>6. CASE UNCHANGED vars
    BY <2>6 DEF vars, TurnsAddUp
  <2> QED  BY <2>4, <2>5, <2>6 DEF Next
<1> QED  BY <1>1, <1>2, TypeCorrect, PTL DEF Spec

----------------------------------------------------------------------------
(* No gaps, whatever the angle                                             *)

(* Inside the square the sampler reads at least one texel.                 *)
LEMMA SampledSomething ==
  ASSUME NEW n \in Nat \ {0}, NEW a \in Int, NEW d \in Nat \ {0}, -d < a, a < d
  PROVE  Sampled(n, <<a, d>>) # {}
<1> DEFINE m == n * (a + d) - d
           below == m \div (2 * d)
           rest == m % (2 * d)
<1>1. PICK k \in Nat, l \in Nat : n = k + 1 /\ a + d = l + 1 /\ l + 1 < 2 * d
  <2>1. n - 1 \in Nat /\ n = (n - 1) + 1  OBVIOUS
  <2>2. a + d - 1 \in Nat /\ a + d = (a + d - 1) + 1 /\ a + d < 2 * d  OBVIOUS
  <2> QED  BY <2>1, <2>2
<1>2. m \in Int /\ 2 * d \in Nat \ {0}  OBVIOUS
<1>3. below \in Int /\ rest \in 0 .. 2 * d - 1 /\ m = (2 * d) * below + rest
  BY <1>2
<1>4. m > -d
  <2>1. n * (a + d) = k * l + k + l + 1 /\ k * l \in Nat  BY <1>1
  <2> QED  BY <2>1
<1>5. m < (2 * d) * n
  <2>1. PICK e \in Nat : 2 * d = (a + d) + e
    <3>1. d - a \in Nat /\ 2 * d = (a + d) + (d - a)  OBVIOUS
    <3> QED  BY <3>1
  <2>2. (2 * d) * n = n * (a + d) + e * n /\ e * n \in Nat  BY <2>1
  <2> QED  BY <2>2
<1> HIDE DEF m, below, rest
<1>6. below < n
  <2> SUFFICES ASSUME below >= n PROVE FALSE  BY <1>3
  <2>1. PICK e \in Nat : below = n + e
    <3>1. below - n \in Nat /\ below = n + (below - n)  BY <1>3
    <3> QED  BY <3>1
  <2>2. (2 * d) * below = (2 * d) * n + (2 * d) * e /\ (2 * d) * e \in Nat
    BY <2>1
  <2> QED  BY <1>2, <1>3, <1>5, <2>2
<1>7. below >= -1
  <2> SUFFICES ASSUME below < -1 PROVE FALSE  BY <1>3
  <2>1. PICK e \in Nat : below = -2 - e
    <3>1. -2 - below \in Nat /\ below = -2 - (-2 - below)  BY <1>3
    <3> QED  BY <3>1
  <2>2. (2 * d) * below = -(4 * d) - (2 * d) * e /\ (2 * d) * e \in Nat
    BY <2>1
  <2> QED  BY <1>2, <1>3, <1>4, <2>2
<1>8. CASE below >= 0
  <2>1. below \in 0 .. n - 1  BY <1>3, <1>6, <1>8
  <2> QED  BY <2>1 DEF Sampled, below, m
<1>9. CASE below = -1
  <2>1. rest # 0
    <3>1. (2 * d) * below = -(2 * d)  BY <1>9
    <3> QED  BY <1>2, <1>3, <1>4, <3>1
  <2>2. 0 \in 0 .. n - 1 /\ 0 = below + 1  BY <1>9
  <2> QED  BY <2>1, <2>2 DEF Sampled, below, rest, m
<1> QED  BY <1>3, <1>7, <1>8, <1>9

\* A fraction between -1 and 1, both excluded.
IsInside(x) ==
  /\ x = <<x[1], x[2]>>
  /\ x[1] \in Int /\ x[2] \in Nat \ {0}
  /\ -x[2] < x[1] /\ x[1] < x[2]

(* Every pixel of the target lies in the square, turned or not.            *)
LEMMA UnrotateInside ==
  ASSUME NEW w \in Nat \ {0}, NEW h \in Nat \ {0}, NEW at \in Pixels(<<w, h>>),
         NEW angle \in Int
  PROVE  LET q == Unrotate(angle, Center(<<w, h>>, at))
         IN  IsInside(q[1]) /\ IsInside(q[2]) /\ IsInside(Negative(q[2]))
<1> DEFINE x == <<2 * at[1] + 1 - w, w>>
           y == <<h - 2 * at[2] - 1, h>>
           q == Unrotate(angle, Center(<<w, h>>, at))
<1>1. at[1] \in 0 .. w - 1 /\ at[2] \in 0 .. h - 1  BY DEF Pixels
<1>2. IsInside(x) /\ IsInside(y)  BY <1>1 DEF IsInside
<1>3. \A z : IsInside(z) => IsInside(Negative(z)) /\ Negative(Negative(z)) = z
  BY DEF IsInside, Negative
<1>4. Center(<<w, h>>, at) = <<x, y>>  BY DEF Center
<1> HIDE DEF x, y
<1>5. angle % 4 \in 0 .. 3  OBVIOUS
<1>6. /\ q[1] \in {x, y, Negative(x), Negative(y)}
      /\ q[2] \in {x, y, Negative(x), Negative(y)}
  <2>1. CASE angle % 4 = 0  BY <1>4, <2>1 DEF Unrotate
  <2>2. CASE angle % 4 = 1  BY <1>4, <2>2 DEF Unrotate
  <2>3. CASE angle % 4 = 2  BY <1>4, <2>3 DEF Unrotate
  <2>4. CASE angle % 4 = 3  BY <1>4, <2>4 DEF Unrotate
  <2> QED  BY <1>5, <2>1, <2>2, <2>3, <2>4
<1> HIDE DEF q
<1> QED  BY <1>2, <1>3, <1>6 DEF q

(* A picture without gaps is drawn without gaps.                           *)
LEMMA DrawnWithoutGaps ==
  ASSUME NEW p, IsPicture(p), \A at \in Pixels(p.size) : p.cell[at] # {},
         NEW angle \in Int
  PROVE  \A at \in Pixels(Drawn(p, angle).size) : Drawn(p, angle).cell[at] # {}
<1> DEFINE frame == FrameSize(p.size, angle)
<1>1. frame = <<frame[1], frame[2]>> /\ frame[1] \in Nat \ {0} /\ frame[2] \in Nat \ {0}
  BY DEF IsPicture, FrameSize, Swapped
<1>2. Drawn(p, angle).size = frame  BY DEF Drawn
<1> HIDE DEF frame
<1>3. SUFFICES ASSUME NEW at \in Pixels(frame)
               PROVE  Drawn(p, angle).cell[at] # {}
  BY <1>2
<1> DEFINE q == Unrotate(angle, Center(frame, at))
           read == Sampled(p.size[1], q[1]) \X Sampled(p.size[2], Negative(q[2]))
<1>4. IsInside(q[1]) /\ IsInside(q[2]) /\ IsInside(Negative(q[2]))
  BY <1>1, UnrotateInside
<1>5. Drawn(p, angle).cell[at] =
        IF Covered(q) THEN UNION {p.cell[spot] : spot \in read} ELSE {}
  BY DEF Drawn, frame
<1> HIDE DEF q
<1>6. Covered(q)  BY <1>4, QuadCovers DEF IsInside
<1>7. \A n \in Nat \ {0} : \A x : IsInside(x) => Sampled(n, x) # {}
  <2> SUFFICES ASSUME NEW n \in Nat \ {0}, NEW x, IsInside(x)
               PROVE  Sampled(n, x) # {}
    OBVIOUS
  <2>1. PICK a \in Int, d \in Nat \ {0} : x = <<a, d>> /\ -d < a /\ a < d
    BY DEF IsInside
  <2> QED  BY <2>1, SampledSomething
<1>8. PICK s \in Sampled(p.size[1], q[1]), t \in Sampled(p.size[2], Negative(q[2])) : TRUE
  BY <1>4, <1>7 DEF IsPicture
<1>9. <<s, t>> \in read /\ <<s, t>> \in Pixels(p.size)
  BY <1>8 DEF Sampled, Pixels
<1> HIDE DEF read
<1> QED  BY <1>5, <1>6, <1>9

(* Where image:rotation: is not asked for a turn to the right, every pixel *)
(* of every result shows a part of the picture, for angles of any size.    *)
THEOREM NeverGaps ==
  ASSUME "right" \notin Orientations
  PROVE  Spec => []NoGaps
<1>1. Init => NoGaps  BY DEF Init, NoGaps, Source
<1>2. TypeOK /\ NoGaps /\ [Next]_vars => NoGaps'
  <2> SUFFICES ASSUME TypeOK, NoGaps, [Next]_vars PROVE NoGaps'  OBVIOUS
  <2>1. IsPicture(picture)  BY PictureType
  <2>2. CASE \E angle \in Angles : roation(angle)
    <3>1. PICK angle \in Int : picture' = Drawn(picture, angle)
      BY <2>2, AnglesAssumption DEF roation
    <3> QED  BY <2>1, <3>1, DrawnWithoutGaps DEF NoGaps
  <2>3. CASE \E orientation \in Orientations : imageRotation(orientation)
    <3>1. PICK orientation \in {"up", "left", "down"} :
            picture' = InContext(picture, orientation)
      BY <2>3, OrientationsAssumption DEF imageRotation
    <3>2. picture' = Turned(picture, Clockwise(orientation))
      BY <2>1, <3>1, InContextIsTurned
    <3>3. PICK q \in 0 .. 3 : picture' = Turned(picture, q)
      BY <3>2 DEF Clockwise
    <3>4. \A at \in Pixels(TurnedSize(picture.size, q)) :
            Origin(picture.size, q, at) \in Pixels(picture.size)
      BY <2>1, OriginInside DEF IsPicture
    <3> QED  BY <3>3, <3>4 DEF NoGaps, Turned
  <2>4. CASE UNCHANGED vars  BY <2>4 DEF vars, NoGaps
  <2> QED  BY <2>2, <2>3, <2>4 DEF Next
<1> QED  BY <1>1, <1>2, TypeCorrect, PTL DEF Spec

----------------------------------------------------------------------------
(* A chain of filters                                                      *)

Bytes == 0 .. 255
ByteColors == [r : Bytes, g : Bytes, b : Bytes, a : Bytes]

\* No component exceeds the alpha it was multiplied by.
Premultiplied(color) ==
  color.r <= color.a /\ color.g <= color.a /\ color.b <= color.a

\* The bytes of color with red and blue exchanged, as samplingShader has them.
Exchanged(color) == <<color.b, color.g, color.r, color.a>>

\* What the texture holds of the argument after each step of a call.
TexelOfArg ==
  /\ stage # "image" => arg = image
  /\ stage = "uploaded" =>
       (filter.name = "rotate" \/ arg.a = Opaque => texel = RGBABytes(arg))
  /\ stage = "drawn" =>
       CASE filter.name = "rotate" -> texel = Exchanged(arg)
         [] filter.name = "gray" ->
              \E v \in Bytes : /\ texel = WriteTexel(Gray(v))
                               /\ arg = Gray(arg.g) => v = arg.g
         [] filter.name = "binary" ->
              \E v \in {0, 255} :
                /\ texel = WriteTexel(Gray(v))
                /\ arg \in {Gray(0), Gray(255)} /\ filter.threshold \in 1 .. 254
                     => arg = Gray(v)

ChainInv ==
  /\ ChainTypeOK
  /\ Premultiplied(image)
  /\ TexelOfArg
  /\ RotateKeepsColor
  /\ GrayIsStable
  /\ BinaryIsStable
----------------------------------------------------------------------------
(* Upload                                                                  *)

(* Color premultiplied by its alpha leaves room for what shows through.    *)
LEMMA BlendIsByte ==
  ASSUME NEW c \in Bytes, NEW a \in Bytes, NEW m \in Bytes, c <= a
  PROVE  /\ c + ((Opaque - a) * m + 127) \div 255 \in Bytes
         /\ a = Opaque \/ m = 0 => c + ((Opaque - a) * m + 127) \div 255 = c
<1>1. PICK k \in Nat : 255 = m + k
  <2>1. 255 - m \in Nat /\ 255 = m + (255 - m)  BY DEF Bytes
  <2> QED  BY <2>1
<1>2. Opaque - a \in Nat /\ m \in Nat /\ a \in Nat /\ c \in Nat /\ Opaque = 255
  BY DEF Bytes, Opaque
<1> DEFINE rest == Opaque - a
           shown == rest * m
<1>3. rest * 255 = shown + rest * k  BY <1>1, <1>2
<1>4. rest * k \in Nat /\ shown \in Nat  BY <1>2
<1>5. shown <= rest * 255  BY <1>2, <1>3, <1>4
<1>6. a = Opaque \/ m = 0 => shown = 0  BY <1>2
<1>7. rest \in Nat /\ rest + a = 255  BY <1>2
<1> HIDE DEF shown, rest
<1>8. (shown + 127) \div 255 \in 0 .. rest  BY <1>4, <1>5, <1>7
<1>9. shown = 0 => (shown + 127) \div 255 = 0  OBVIOUS
<1> QED  BY <1>2, <1>6, <1>7, <1>8, <1>9 DEF rest, shown, Bytes

(* Drawn over memory, a premultiplied color gives bytes; opaque, its own.  *)
LEMMA OverBytes ==
  ASSUME NEW color \in ByteColors, Premultiplied(color),
         NEW memory \in [{"r", "g", "b", "a"} -> Bytes]
  PROVE  /\ RGBABytes(Over(color, memory)) \in Bytes \X Bytes \X Bytes \X Bytes
         /\ color.a = Opaque \/ (\A i \in {"r", "g", "b", "a"} : memory[i] = 0)
              => RGBABytes(Over(color, memory)) = RGBABytes(color)
<1>1. ASSUME NEW i \in {"r", "g", "b", "a"}
      PROVE  /\ Over(color, memory)[i] \in Bytes
             /\ color.a = Opaque \/ memory[i] = 0 => Over(color, memory)[i] = color[i]
  <2>1. color[i] \in Bytes /\ color.a \in Bytes /\ memory[i] \in Bytes
    BY DEF ByteColors
  <2>2. color[i] <= color.a  BY <2>1 DEF Premultiplied, Bytes
  <2>3. Over(color, memory)[i] = color[i] + ((Opaque - color.a) * memory[i] + 127) \div 255
    BY DEF Over
  <2> QED  BY <2>1, <2>2, <2>3, BlendIsByte
<1> QED  BY <1>1 DEF RGBABytes

(* The texel is the pixel, where that is opaque or the memory was cleared. *)
LEMMA UploadStep == ChainInv /\ Upload => ChainInv'
<1> SUFFICES ASSUME ChainInv, Upload PROVE ChainInv'  OBVIOUS
<1>1. /\ stage = "image" /\ stage' = "uploaded" /\ filter' \in Filters
      /\ arg' = image /\ image' = image
      /\ image \in ByteColors /\ Premultiplied(image)
  BY DEF ChainInv, ChainTypeOK, Upload, ByteColors, Bytes
<1> DEFINE zero == [i \in {"r", "g", "b", "a"} |-> 0]
<1>2. zero \in [{"r", "g", "b", "a"} -> Bytes]  BY DEF Bytes
<1>3. PICK memory \in [{"r", "g", "b", "a"} -> Bytes] :
        /\ texel' = RGBABytes(Over(image, memory))
        /\ filter'.name = "rotate" => memory = zero
  <2>1. CASE filter'.name = "rotate"
    BY <1>2, <2>1 DEF Upload, loadImage
  <2>2. CASE filter'.name # "rotate"
    <3>1. PICK garbage \in Garbage : texel' = getImageData(image, garbage)
      BY <2>2 DEF Upload
    <3> QED  BY <2>2, <3>1, GarbageAssumption DEF getImageData, Bytes
  <2> QED  BY <2>1, <2>2
<1>4. texel' \in Bytes \X Bytes \X Bytes \X Bytes  BY <1>1, <1>3, OverBytes
<1>5. filter'.name = "rotate" \/ image.a = Opaque => texel' = RGBABytes(image)
  BY <1>1, <1>3, OverBytes
<1>6. ChainTypeOK'  BY <1>1, <1>4 DEF ChainTypeOK, ByteColors, Bytes
<1>7. TexelOfArg'  BY <1>1, <1>5 DEF TexelOfArg
<1> QED
  BY <1>1, <1>6, <1>7 DEF ChainInv, Premultiplied, RotateKeepsColor, GrayIsStable,
     BinaryIsStable

----------------------------------------------------------------------------
(* Draw                                                                    *)

(* Whatever the half arithmetic answers, a texture stores a level; where   *)
(* red, green and blue are one level, it stores that one.                  *)
LEMMA GrayLevels ==
  ASSUME NEW color, color.r \in Bytes, color.g \in Bytes, color.b \in Bytes
  PROVE  grayscale(color) \subseteq {Gray(v) : v \in Bytes}
<1>0. color.r \in Int /\ color.g \in Int /\ color.b \in Int  BY DEF Bytes
<1>1. Luma(color) \in Int  BY <1>0 DEF Luma
<1>2. Stored(Luma(color) - HalfError) \in Bytes /\ Stored(Luma(color) + HalfError) \in Bytes
  BY <1>1 DEF Stored, HalfError, Bytes
<1> QED  BY <1>2 DEF grayscale, Bytes

(* A gray pixel is its own gray: the band is narrower than a level.        *)
LEMMA GrayOfGray ==
  ASSUME NEW color, NEW g \in Bytes, color.r = g, color.g = g, color.b = g
  PROVE  grayscale(color) = {Gray(g)}
<1>1. Luma(color) = 10000 * g  BY DEF Luma, Bytes
<1>2. Stored(Luma(color) - HalfError) = g /\ Stored(Luma(color) + HalfError) = g
  BY <1>1 DEF Stored, HalfError, Bytes
<1> QED  BY <1>2 DEF grayscale, Bytes

(* Black and white are their own binary, at thresholds of 1 to 254.        *)
LEMMA BinaryOfBinary ==
  ASSUME NEW color, NEW g \in {0, 255}, color.r = g, color.g = g, color.b = g,
         NEW threshold \in 1 .. 254
  PROVE  binaryscale(color, threshold) = {Gray(g)}
<1>1. Luma(color) = 10000 * g  BY DEF Luma
<1> QED  BY <1>1 DEF binaryscale, HalfError

(* The shaders, one after the other.                                       *)
LEMMA DrawStep == ChainInv /\ Draw => ChainInv'
<1> SUFFICES ASSUME ChainInv, Draw PROVE ChainInv'  OBVIOUS
<1>1. /\ stage = "uploaded" /\ stage' = "drawn"
      /\ UNCHANGED <<filter, arg, image>>
      /\ arg = image /\ arg \in ByteColors /\ filter \in Filters
      /\ texel \in Bytes \X Bytes \X Bytes \X Bytes
  BY DEF ChainInv, ChainTypeOK, TexelOfArg, Draw, ByteColors, Bytes
<1> SUFFICES TexelOfArg' /\ texel' \in Bytes \X Bytes \X Bytes \X Bytes
  BY <1>1 DEF ChainInv, ChainTypeOK, Bytes, Premultiplied, RotateKeepsColor,
     GrayIsStable, BinaryIsStable
<1> DEFINE in == ReadTexel(texel)
<1>2. in.r \in Bytes /\ in.g \in Bytes /\ in.b \in Bytes
  BY <1>1 DEF ReadTexel
<1>3. arg.a = Opaque => in.r = arg.b /\ in.g = arg.g /\ in.b = arg.r
  BY <1>1 DEF ChainInv, TexelOfArg, ReadTexel, RGBABytes
<1>4. CASE filter.name = "rotate"
  <2>1. texel' = WriteTexel(samplingShader(in))  BY <1>4 DEF Draw
  <2>2. texel = RGBABytes(arg)  BY <1>1, <1>4 DEF ChainInv, TexelOfArg
  <2>3. texel' = Exchanged(arg)
    BY <2>1, <2>2 DEF ReadTexel, RGBABytes, samplingShader, WriteTexel, Exchanged
  <2>4. Exchanged(arg) \in Bytes \X Bytes \X Bytes \X Bytes
    BY <1>1 DEF Exchanged, ByteColors
  <2> QED  BY <1>1, <1>4, <2>3, <2>4 DEF TexelOfArg
<1>5. CASE filter.name = "gray"
  <2>1. PICK color \in grayscale(in) : texel' = WriteTexel(color)
    BY <1>5 DEF Draw
  <2>2. PICK v \in Bytes : color = Gray(v)  BY <1>2, <2>1, GrayLevels
  <2>3. ASSUME arg = Gray(arg.g) PROVE v = arg.g
    <3>1. /\ arg.g \in Bytes /\ arg.a = Opaque
          /\ in.r = arg.g /\ in.g = arg.g /\ in.b = arg.g
      BY <1>1, <1>3, <2>3 DEF Gray, ByteColors
    <3>2. color = Gray(arg.g)  BY <2>1, <3>1, GrayOfGray
    <3> QED  BY <2>2, <3>2 DEF Gray
  <2>4. texel' \in Bytes \X Bytes \X Bytes \X Bytes
    BY <2>1, <2>2 DEF WriteTexel, Gray, Opaque, Bytes
  <2> QED  BY <1>1, <1>5, <2>1, <2>2, <2>3, <2>4 DEF TexelOfArg
<1>6. CASE filter.name = "binary"
  <2>1. PICK color \in binaryscale(in, filter.threshold) : texel' = WriteTexel(color)
    BY <1>6 DEF Draw
  <2>2. PICK v \in {0, 255} : color = Gray(v)  BY <2>1 DEF binaryscale
  <2>3. ASSUME arg \in {Gray(0), Gray(255)}, filter.threshold \in 1 .. 254
        PROVE  arg = Gray(v)
    <3>1. PICK g \in {0, 255} : arg = Gray(g)  BY <2>3
    <3>2. arg.a = Opaque /\ in.r = g /\ in.g = g /\ in.b = g
      BY <1>3, <3>1 DEF Gray
    <3>3. color = Gray(g)  BY <2>1, <2>3, <3>2, BinaryOfBinary
    <3> QED  BY <2>2, <3>1, <3>3
  <2>4. texel' \in Bytes \X Bytes \X Bytes \X Bytes
    BY <2>1, <2>2 DEF WriteTexel, Gray, Opaque, Bytes
  <2> QED  BY <1>1, <1>6, <2>1, <2>2, <2>3, <2>4 DEF TexelOfArg
<1> QED  BY <1>1, <1>4, <1>5, <1>6 DEF Filters

----------------------------------------------------------------------------
(* Wrap                                                                    *)

(* The next call is given what this one made.                              *)
LEMMA WrapStep == ChainInv /\ Wrap => ChainInv'
<1> SUFFICES ASSUME ChainInv, Wrap PROVE ChainInv'  OBVIOUS
<1>1. /\ stage = "drawn" /\ stage' = "image"
      /\ UNCHANGED <<filter, arg, texel>>
      /\ image' = imageFromBRGABytes(texel)
      /\ arg = image /\ arg \in ByteColors /\ Premultiplied(arg) /\ filter \in Filters
  BY DEF ChainInv, ChainTypeOK, TexelOfArg, Wrap, ByteColors, Bytes
<1> SUFFICES /\ image' \in ByteColors /\ Premultiplied(image')
             /\ RotateKeepsColor' /\ GrayIsStable' /\ BinaryIsStable'
  BY <1>1 DEF ChainInv, ChainTypeOK, ByteColors, Bytes, TexelOfArg, Premultiplied
<1>2. ASSUME NEW v, texel = WriteTexel(Gray(v)) PROVE image' = Gray(v)
  BY <1>1, <1>2 DEF WriteTexel, Gray, imageFromBRGABytes
<1>3. ASSUME NEW v \in Bytes, image' = Gray(v)
      PROVE  image' \in ByteColors /\ Premultiplied(image')
  BY <1>3 DEF Gray, Opaque, Bytes, ByteColors, Premultiplied
<1>4. CASE filter.name = "rotate"
  <2>1. texel = Exchanged(arg)  BY <1>1, <1>4 DEF ChainInv, TexelOfArg
  <2>2. image' = arg
    BY <1>1, <2>1 DEF Exchanged, imageFromBRGABytes, ByteColors
  <2> QED
    BY <1>1, <1>4, <2>2 DEF RotateKeepsColor, GrayIsStable, BinaryIsStable
<1>5. CASE filter.name = "gray"
  <2>1. PICK v \in Bytes : /\ texel = WriteTexel(Gray(v))
                           /\ arg = Gray(arg.g) => v = arg.g
    BY <1>1, <1>5 DEF ChainInv, TexelOfArg
  <2>2. image' = Gray(v) /\ image'.g = v  BY <1>2, <2>1 DEF Gray
  <2> QED
    BY <1>1, <1>3, <1>5, <2>1, <2>2 DEF RotateKeepsColor, GrayIsStable, BinaryIsStable
<1>6. CASE filter.name = "binary"
  <2>1. PICK v \in {0, 255} :
          /\ texel = WriteTexel(Gray(v))
          /\ arg \in {Gray(0), Gray(255)} /\ filter.threshold \in 1 .. 254
               => arg = Gray(v)
    BY <1>1, <1>6 DEF ChainInv, TexelOfArg
  <2>2. image' = Gray(v)  BY <1>2, <2>1
  <2>3. v \in Bytes  BY DEF Bytes
  <2> QED
    BY <1>1, <1>3, <1>6, <2>1, <2>2, <2>3 DEF RotateKeepsColor, GrayIsStable, BinaryIsStable
<1> QED  BY <1>1, <1>4, <1>5, <1>6 DEF Filters

----------------------------------------------------------------------------
(* Before the first call nothing was filtered.                             *)
LEMMA ChainInvInit == ChainInit => ChainInv
<1> SUFFICES ASSUME ChainInit PROVE ChainInv  OBVIOUS
<1>1. image \in ByteColors /\ Premultiplied(image)
  BY LevelsAssumption DEF ChainInit, Colors, ByteColors, Bytes, Premultiplied
<1>2. filter \in Filters  BY DEF ChainInit, Filters
<1> QED
  BY <1>1, <1>2 DEF ChainInit, ChainInv, ChainTypeOK, TexelOfArg, RotateKeepsColor,
     GrayIsStable, BinaryIsStable, ByteColors, Bytes

(* The invariant is inductive.                                             *)
LEMMA ChainInvHolds == ChainSpec => []ChainInv
<1>1. ChainInv /\ [ChainNext]_chainVars => ChainInv'
  <2> SUFFICES ASSUME ChainInv, UNCHANGED chainVars PROVE ChainInv'
    BY UploadStep, DrawStep, WrapStep DEF ChainNext
  <2>1. UNCHANGED <<stage, filter, arg, texel, image>>  BY DEF chainVars
  <2>2. ChainTypeOK'  BY <2>1 DEF ChainInv, ChainTypeOK
  <2>3. TexelOfArg'  BY <2>1 DEF ChainInv, TexelOfArg
  <2> QED
    BY <2>1, <2>2, <2>3 DEF ChainInv, Premultiplied, RotateKeepsColor,
       GrayIsStable, BinaryIsStable
<1> QED  BY <1>1, ChainInvInit, PTL DEF ChainSpec

(* Turning a picture changes the color and alpha of no pixel, for every    *)
(* color a picture can have and wherever in a chain of filters.            *)
THEOREM RotationKeepsColors == ChainSpec => []ColorInv
<1>1. ChainInv => ColorInv  BY DEF ChainInv, ColorInv
<1> QED  BY <1>1, ChainInvHolds, PTL

(* A gray picture is gray for good: grayTrans: answers one, and does not   *)
(* change one.                                                             *)
THEOREM GrayStaysStable == ChainSpec => []GrayIsStable
<1>1. ChainInv => GrayIsStable  BY DEF ChainInv
<1> QED  BY <1>1, ChainInvHolds, PTL

(* Of all of the thresholds a caller may give, those from 1 to 254 leave a *)
(* black and white picture as it is.                                       *)
THEOREM BinaryStaysStable == ChainSpec => []BinaryIsStable
<1>1. ChainInv => BinaryIsStable  BY DEF ChainInv
<1> QED  BY <1>1, ChainInvHolds, PTL
=============================================================================
