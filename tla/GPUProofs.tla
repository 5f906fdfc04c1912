------------------------------ MODULE GPUProofs -------------------------------
(***************************************************************************)
(* Proofs about GPU: its types, the depth test, the hidden target and the  *)
(* lines, for every size of the screen, every set of colours and every     *)
(* script of commands.                                                     *)
(***************************************************************************)
EXTENDS GPU, SequenceTheorems, TLAPS

(***************************************************************************)
(* Lines.  With D and E steps to make along the two sides, and i and j     *)
(* made, W is how far the pixel is off the ideal line, D + E times; err is *)
(* D - E + W.                                                              *)
(***************************************************************************)
Near(D, E, W) == (-D <= 2 * W /\ 2 * W <= D) \/ (-E <= 2 * W /\ 2 * W <= E)
GoesX(D, E, W) == 2 * (D - E + W) >= -E
GoesY(D, E, W) == 2 * (D - E + W) <= D

LEMMA StepStaysNear ==
  ASSUME NEW D \in Nat, NEW E \in Nat, NEW W \in Int, Near(D, E, W)
  PROVE  /\ D >= E => GoesX(D, E, W)
         /\ E >= D => GoesY(D, E, W)
         /\ Near(D, E, (W - (IF GoesX(D, E, W) THEN E ELSE 0)) + (IF GoesY(D, E, W) THEN D ELSE 0))
<1>1. CASE D >= E
  BY <1>1 DEF Near, GoesX, GoesY
<1>2. CASE E >= D
  BY <1>2 DEF Near, GoesX, GoesY
<1> QED BY <1>1, <1>2

(* A step in a direction in which nothing is left to make is never taken.  *)
LEMMA StepStaysInBox ==
  ASSUME NEW D \in Nat, NEW E \in Nat, NEW i \in 0 .. D, NEW j \in 0 .. E, i # D \/ j # E
  PROVE  /\ GoesX(D, E, j * D - i * E) => i < D
         /\ GoesY(D, E, j * D - i * E) => j < E
<1>1. ASSUME GoesX(D, E, j * D - i * E), i = D PROVE FALSE
  <2> DEFINE k == E - j
  <2>1. k \in Nat /\ k >= 1 /\ E >= 1
    BY <1>1
  <2>2. j * D - i * E = -(k * D)
    BY <1>1
  <2>3. k * D \in Nat /\ k * D >= D
    BY <2>1
  <2> HIDE DEF k
  <2>4. 2 * (D - E + -(k * D)) >= -E
    BY <1>1, <2>2, <2>3 DEF GoesX
  <2> QED BY <2>1, <2>3, <2>4
<1>2. ASSUME GoesY(D, E, j * D - i * E), j = E PROVE FALSE
  <2> DEFINE k == D - i
  <2>1. k \in Nat /\ k >= 1 /\ D >= 1
    BY <1>2
  <2>2. j * D - i * E = k * E
    BY <1>2
  <2>3. k * E \in Nat /\ k * E >= E
    BY <2>1
  <2> HIDE DEF k
  <2>4. 2 * (D - E + k * E) <= D
    BY <1>2, <2>2, <2>3 DEF GoesY
  <2> QED BY <2>1, <2>3, <2>4
<1> QED BY <1>1, <1>2

LineSet ==
  [from : Point, x : Int, y : Int, x1 : Int, y1 : Int,
   dx : Int, dy : Int, sx : {1, -1}, sy : {1, -1}, err : Int]

(* The ends lie D and E steps apart in the directions of the line, and err *)
(* is what it is for the steps made.                                       *)
Sound(l) ==
  LET D == l.dx  E == -l.dy  i == Made(l)[1]  j == Made(l)[2]
  IN  /\ D >= 0 /\ E >= 0
      /\ (l.x1 - l.from[1]) * l.sx = D /\ (l.y1 - l.from[2]) * l.sy = E
      /\ i \in 0 .. D /\ j \in 0 .. E
      /\ Near(D, E, j * D - i * E)
      /\ l.err = D - E + (j * D - i * E)

LEMMA SoundOnLine ==
  ASSUME NEW l \in LineSet, Sound(l)
  PROVE  OnLine(l)
<1> DEFINE D == l.dx  E == -l.dy  W == Made(l)[2] * D - Made(l)[1] * E
<1>1. D \in Int /\ E \in Int /\ W \in Int
  BY DEF LineSet, Made, Point
<1>2. Near(D, E, W) /\ Made(l)[1] \in 0 .. D /\ Made(l)[2] \in 0 .. E
  BY DEF Sound
<1>3. \E m \in {D, E} : -m <= 2 * W /\ 2 * W <= m
  <2> HIDE DEF D, E, W
  <2> QED BY <1>1, <1>2 DEF Near
<1> QED BY <1>2, <1>3 DEF OnLine

LEMMA LineFromSound ==
  ASSUME NEW x0 \in Int, NEW y0 \in Int, NEW x1 \in Int, NEW y1 \in Int
  PROVE  LineFrom(x0, y0, x1, y1) \in LineSet /\ Sound(LineFrom(x0, y0, x1, y1))
<1> DEFINE l == LineFrom(x0, y0, x1, y1)
<1>1. /\ Distance(x0, x1) \in Nat /\ Distance(y0, y1) \in Nat
      /\ Towards(x0, x1) \in {1, -1} /\ Towards(y0, y1) \in {1, -1}
      /\ (x1 - x0) * Towards(x0, x1) = Distance(x0, x1)
      /\ (y1 - y0) * Towards(y0, y1) = Distance(y0, y1)
  BY DEF Distance, Towards
<1>2. l \in LineSet
  BY <1>1 DEF LineFrom, LineSet, Point
<1>3. /\ l.from = <<x0, y0>> /\ l.x = x0 /\ l.y = y0 /\ l.x1 = x1 /\ l.y1 = y1
      /\ l.dx = Distance(x0, x1) /\ l.dy = -Distance(y0, y1)
      /\ l.sx = Towards(x0, x1) /\ l.sy = Towards(y0, y1)
      /\ l.err = Distance(x0, x1) - Distance(y0, y1)
  BY DEF LineFrom
<1> HIDE DEF l
<1>4. Made(l)[1] = 0 /\ Made(l)[2] = 0
  BY <1>1, <1>3 DEF Made
<1>5. Sound(l)
  BY <1>1, <1>3, <1>4 DEF Sound, Near
<1> QED BY <1>2, <1>5 DEF l

LEMMA RoundsType ==
  ASSUME NEW l \in LineSet, Sound(l)
  PROVE  RoundsLeft(l) \in Nat
<1> DEFINE D == l.dx  E == -l.dy  i == Made(l)[1]  j == Made(l)[2]
<1>1. /\ D \in Nat /\ E \in Nat /\ i \in 0 .. D /\ j \in 0 .. E
      /\ RoundsLeft(l) = IF D >= E THEN D - i ELSE E - j
  BY DEF Sound, LineSet, Point, Made, RoundsLeft
<1> HIDE DEF D, E, i, j
<1> QED BY <1>1

LEMMA MovedSound ==
  ASSUME NEW l \in LineSet, Sound(l), ~AtLineEnd(l)
  PROVE  /\ Moved(l) \in LineSet /\ Sound(Moved(l))
         /\ l.dx >= -l.dy => Moved(l).x # l.x
         /\ -l.dy >= l.dx => Moved(l).y # l.y
         /\ RoundsLeft(Moved(l)) = RoundsLeft(l) - 1
<1> DEFINE D == l.dx  E == -l.dy  i == Made(l)[1]  j == Made(l)[2]  W == j * D - i * E
           a == IF GoesX(D, E, W) THEN 1 ELSE 0
           b == IF GoesY(D, E, W) THEN 1 ELSE 0
           n == Moved(l)
<1>1. /\ D \in Nat /\ E \in Nat /\ i \in 0 .. D /\ j \in 0 .. E
      /\ Near(D, E, W) /\ l.err = D - E + W /\ W \in Int
  BY DEF Sound, LineSet, Point, Made
<1>2. i = (l.x - l.from[1]) * l.sx /\ j = (l.y - l.from[2]) * l.sy
  BY DEF Made
<1>3. /\ l.x \in Int /\ l.y \in Int /\ l.x1 \in Int /\ l.y1 \in Int /\ l.err \in Int
      /\ l.from \in Point /\ l.from[1] \in Int /\ l.from[2] \in Int /\ l.dx \in Int /\ l.dy \in Int
      /\ l.sx \in {1, -1} /\ l.sy \in {1, -1}
  BY DEF LineSet, Point
<1>4. i # D \/ j # E
  <2>1. (l.x1 - l.from[1]) * l.sx = D /\ (l.y1 - l.from[2]) * l.sy = E
    BY DEF Sound
  <2> QED BY <1>2, <1>3, <2>1 DEF AtLineEnd
<1>5. StepsX(l) <=> GoesX(D, E, W)
  BY <1>1, <1>3 DEF StepsX, GoesX
<1>6. StepsY(l) <=> GoesY(D, E, W)
  BY <1>1, <1>3 DEF StepsY, GoesY
<1>7. /\ n.from = l.from /\ n.x1 = l.x1 /\ n.y1 = l.y1 /\ n.dx = l.dx /\ n.dy = l.dy
      /\ n.sx = l.sx /\ n.sy = l.sy
      /\ n.x = IF StepsX(l) THEN l.x + l.sx ELSE l.x
      /\ n.y = IF StepsY(l) THEN l.y + l.sy ELSE l.y
      /\ n.err = l.err + (IF StepsX(l) THEN l.dy ELSE 0) + (IF StepsY(l) THEN l.dx ELSE 0)
  BY DEF Moved, Onwards
<1>8. n \in LineSet
  BY <1>3 DEF Moved, Onwards, LineSet
<1>9. (GoesX(D, E, W) => i < D) /\ (GoesY(D, E, W) => j < E)
  <2> HIDE DEF D, E, i, j
  <2> QED BY <1>1, <1>4, StepStaysInBox DEF W
<1>10. /\ D >= E => GoesX(D, E, W)
       /\ E >= D => GoesY(D, E, W)
       /\ Near(D, E, (W - (IF GoesX(D, E, W) THEN E ELSE 0)) + (IF GoesY(D, E, W) THEN D ELSE 0))
  <2> HIDE DEF D, E, W
  <2> QED BY <1>1, StepStaysNear
<1>11. n.x = l.x + a * l.sx /\ n.y = l.y + b * l.sy
  BY <1>3, <1>5, <1>6, <1>7
<1>12. Made(n)[1] = i + a /\ Made(n)[2] = j + b
  <2>1. Made(n)[1] = ((l.x + a * l.sx) - l.from[1]) * l.sx /\ Made(n)[2] = ((l.y + b * l.sy) - l.from[2]) * l.sy
    BY <1>7, <1>11 DEF Made
  <2>2. a \in {0, 1} /\ b \in {0, 1}
    OBVIOUS
  <2> HIDE DEF a, b
  <2> QED BY <1>2, <1>3, <2>1, <2>2
<1>13. (j + b) * D - (i + a) * E
         = (W - (IF GoesX(D, E, W) THEN E ELSE 0)) + (IF GoesY(D, E, W) THEN D ELSE 0)
  <2> HIDE DEF D, E, i, j
  <2>1. (j + b) * D = j * D + (IF GoesY(D, E, W) THEN D ELSE 0)
    BY <1>1
  <2>2. (i + a) * E = i * E + (IF GoesX(D, E, W) THEN E ELSE 0)
    BY <1>1
  <2>3. j * D \in Int /\ i * E \in Int
    BY <1>1
  <2> QED BY <1>1, <2>1, <2>2, <2>3
<1>14. n.err = D - E + ((W - (IF GoesX(D, E, W) THEN E ELSE 0)) + (IF GoesY(D, E, W) THEN D ELSE 0))
  BY <1>1, <1>3, <1>5, <1>6, <1>7
<1>15. i + a \in 0 .. D /\ j + b \in 0 .. E
  <2> HIDE DEF D, E, i, j, W
  <2> QED BY <1>1, <1>9
<1>16. (n.x1 - n.from[1]) * n.sx = D /\ (n.y1 - n.from[2]) * n.sy = E /\ n.dx = D /\ -n.dy = E
  BY <1>7 DEF Sound
<1>17. Sound(n)
  <2> DEFINE V == (j + b) * D - (i + a) * E
  <2>1. Near(D, E, V) /\ n.err = D - E + V
    BY <1>10, <1>13, <1>14
  <2> HIDE DEF D, E, i, j, a, b, n
  <2> QED BY <1>1, <1>12, <1>15, <1>16, <2>1 DEF Sound
<1>18. /\ l.dx >= -l.dy => n.x # l.x
       /\ -l.dy >= l.dx => n.y # l.y
  BY <1>3, <1>5, <1>6, <1>7, <1>10
<1>19. RoundsLeft(n) = RoundsLeft(l) - 1
  <2>1. (D >= E => a = 1) /\ (~(D >= E) => b = 1)
    BY <1>1, <1>10
  <2>2. /\ RoundsLeft(l) = IF D >= E THEN D - i ELSE E - j
        /\ RoundsLeft(n) = IF n.dx >= -n.dy THEN n.dx - Made(n)[1] ELSE -n.dy - Made(n)[2]
    BY DEF RoundsLeft
  <2> HIDE DEF D, E, i, j, a, b, n
  <2> QED BY <1>1, <1>12, <1>16, <2>1, <2>2
<1> QED BY <1>8, <1>17, <1>18, <1>19
-----------------------------------------------------------------------------
(***************************************************************************)
(* What the commands paint.                                                *)
(***************************************************************************)
Paintable(frags) == \A p \in DOMAIN frags : frags[p] \in Color

LEMMA CommandTyped ==
  ASSUME NEW s \in Seq(CommandSet), s # <<>>
  PROVE  s[1] \in CommandSet /\ Tail(s) \in Seq(CommandSet)
BY HeadTailProperties, ElementOfSeq

LEMMA FlatPaintable ==
  ASSUME NEW pixels, NEW c \in Color
  PROVE  Paintable(Flat(pixels, c))
BY DEF Paintable, Flat

(* A pixel of row r and column k lies in a texture of w by h.              *)
LEMMA RowColumn ==
  ASSUME NEW w \in Nat, NEW h \in Nat, NEW n \in Nat, w * h <= n,
         NEW r \in 0 .. h - 1, NEW k \in 0 .. w - 1
  PROVE  1 + r * w + k \in 1 .. n
<1>1. r * w \in Nat
  OBVIOUS
<1>2. h - 1 - r \in Nat /\ (h - 1 - r) * w >= 0
  OBVIOUS
<1>3. (h - 1 - r) * w = (h * w - w) - r * w
  OBVIOUS
<1>4. w * h = h * w /\ h * w \in Nat
  OBVIOUS
<1> QED BY <1>1, <1>2, <1>3, <1>4

LEMMA MirrorInside ==
  ASSUME NEW n \in Int, NEW k \in 0 .. n - 1, NEW flip \in BOOLEAN
  PROVE  Mirror(k, n, flip) \in 0 .. n - 1
<1>1. CASE flip
  <2>1. Mirror(k, n, flip) = n - 1 - k
    BY <1>1, Zenon DEF Mirror
  <2> QED BY <2>1
<1>2. CASE ~flip
  <2>1. Mirror(k, n, flip) = k
    BY <1>2, Zenon DEF Mirror
  <2> QED BY <2>1
<1> QED BY <1>1, <1>2

LEMMA SpritePaintable ==
  ASSUME NEW tex \in Seq(Color), NEW x \in Int, NEW y \in Int, NEW w \in Int, NEW h \in Int,
         NEW flip_x \in BOOLEAN, NEW flip_y \in BOOLEAN, w > 0 /\ h > 0 => Len(tex) >= w * h
  PROVE  Paintable(Sprite(tex, x, y, w, h, flip_x, flip_y))
<1> SUFFICES ASSUME NEW p \in Rectangle(x, y, w, h)
             PROVE  tex[1 + Mirror(p[2] - y, h, flip_y) * w + Mirror(p[1] - x, w, flip_x)] \in Color
  BY DEF Paintable, Sprite
<1>1. p[1] \in x .. x + w - 1 /\ p[2] \in y .. y + h - 1
  BY DEF Rectangle
<1>2. w \in Nat /\ h \in Nat /\ w > 0 /\ h > 0
  BY <1>1
<1>3. Mirror(p[2] - y, h, flip_y) \in 0 .. h - 1 /\ Mirror(p[1] - x, w, flip_x) \in 0 .. w - 1
  <2>1. p[2] - y \in 0 .. h - 1 /\ p[1] - x \in 0 .. w - 1
    BY <1>1
  <2> QED BY <2>1, MirrorInside
<1>4. Len(tex) \in Nat /\ w * h <= Len(tex)
  BY <1>2
<1>5. 1 + Mirror(p[2] - y, h, flip_y) * w + Mirror(p[1] - x, w, flip_x) \in 1 .. Len(tex)
  BY <1>2, <1>3, <1>4, RowColumn
<1> QED BY <1>5, ElementOfSeq

LEMMA BlitPaintable ==
  ASSUME NEW src \in Seq(Color), NEW x \in Int, NEW y \in Int, NEW w \in Nat, NEW h \in Nat,
         NEW stride \in Nat, Len(src) = stride * h, stride >= w
  PROVE  Paintable(Blit(src, stride, x, y, w, h))
<1> SUFFICES ASSUME NEW p \in Rectangle(x, y, w, h)
             PROVE  src[1 + (p[2] - y) * stride + (p[1] - x)] \in Color
  BY DEF Paintable, Blit
<1>1. p[1] \in x .. x + w - 1 /\ p[2] \in y .. y + h - 1
  BY DEF Rectangle
<1>2. p[2] - y \in 0 .. h - 1 /\ p[1] - x \in 0 .. stride - 1
  BY <1>1
<1>3. Len(src) \in Nat /\ stride * h <= Len(src)
  OBVIOUS
<1>4. 1 + (p[2] - y) * stride + (p[1] - x) \in 1 .. Len(src)
  BY <1>2, <1>3, RowColumn
<1> QED BY <1>4, ElementOfSeq

LEMMA PaintedTyped ==
  ASSUME NEW t \in RenderTarget, NEW frags, Paintable(frags), depth_test_enabled \in BOOLEAN
  PROVE  Painted(t, frags) \in RenderTarget
<1>1. \A c \in Color : Alpha[c] \in 0 .. MaxDepth
  BY GPUAssumption
<1>2. t.color \in [Screen -> Color] /\ t.depth \in [Screen -> 0 .. MaxDepth]
  BY DEF RenderTarget
<1>3. Painted(t, frags).color \in [Screen -> Color]
  BY <1>2 DEF Painted, Paintable
<1>4. Painted(t, frags).depth \in [Screen -> 0 .. MaxDepth]
  BY <1>1, <1>2 DEF Painted, Paintable
<1> QED BY <1>3, <1>4 DEF RenderTarget, Painted

-----------------------------------------------------------------------------
(***************************************************************************)
(* The invariant: the types, the depth test, the script and the lines.     *)
(***************************************************************************)
BuffersOK ==
  /\ targets \in [{0, 1} -> RenderTarget]
  /\ seen \in [{0, 1} -> [Screen -> SUBSET Color]]
  /\ over \in [{0, 1} -> SUBSET Screen]
ModesOK == active_target \in {0, 1} /\ depth_test_enabled \in BOOLEAN /\ failed \in BOOLEAN
TexturesOK ==
  /\ next_texture_id \in Nat \ {0}
  /\ DOMAIN textures = 1 .. next_texture_id - 1
  /\ \A id \in DOMAIN textures : textures[id] \in Seq(Color)
LinesOK == pen \in Color /\ lines \in Seq(LineSet) /\ \A k \in DOMAIN lines : Sound(lines[k])
ScriptOK == script \in Seq(CommandSet)

GpuInv == BuffersOK /\ ModesOK /\ TexturesOK /\ LinesOK /\ ScriptOK /\ NearestShown

LEMMA InvTyped == GpuInv => GpuTypeOK
BY DEF GpuInv, GpuTypeOK, BuffersOK, ModesOK, TexturesOK, LinesOK

LEMMA InitGpu == GpuInit => GpuInv
<1> SUFFICES ASSUME GpuInit PROVE GpuInv
  OBVIOUS
<1>1. BuffersOK
  <2>1. Cleared \in [Screen -> 0 .. MaxDepth] /\ Black \in Color
    BY GPUAssumption DEF Cleared
  <2> QED BY <2>1 DEF GpuInit, BuffersOK, RenderTarget
<1>2. ModesOK
  BY DEF GpuInit, ModesOK
<1>6. LinesOK
  <2>1. pen \in Color /\ lines = <<>>
    BY GPUAssumption DEF GpuInit
  <2> QED BY <2>1 DEF LinesOK
<1>5. TexturesOK
  <2>1. textures = <<>> /\ next_texture_id = 1
    BY DEF GpuInit
  <2>2. DOMAIN textures = {} /\ 1 .. next_texture_id - 1 = {}
    BY <2>1
  <2> QED BY <2>1, <2>2 DEF TexturesOK
<1>3. ScriptOK
  BY ScriptsAssumption DEF GpuInit, ScriptOK
<1>4. NearestShown
  BY GPUAssumption DEF GpuInit, NearestShown, NearestAt, Cleared
<1> QED BY <1>1, <1>2, <1>3, <1>4, <1>5, <1>6 DEF GpuInv

(* Painting keeps the buffers, the other target and the depth test.        *)
LEMMA PaintKeeps ==
  ASSUME BuffersOK, ModesOK, NearestShown, NEW frags, Paintable(frags), Paint(frags)
  PROVE  BuffersOK' /\ NearestShown' /\ (active_target = 1 => targets'[0] = targets[0])
<1>a. PICK a \in {0, 1} : a = active_target
  BY DEF ModesOK
<1>1. a \in {0, 1} /\ depth_test_enabled \in BOOLEAN
  BY DEF ModesOK
<1>2. targets' = [targets EXCEPT ![a] = Painted(targets[a], frags)]
  BY <1>a DEF Paint
<1>3. /\ targets' \in [{0, 1} -> RenderTarget]
      /\ targets'[a] = Painted(targets[a], frags)
      /\ \A t \in {0, 1} : t # a => targets'[t] = targets[t]
  BY <1>1, <1>2, PaintedTyped DEF BuffersOK
<1>4. CASE depth_test_enabled
  <2>1. seen' = [seen EXCEPT ![a] =
                   [p \in Screen |-> IF p \in DOMAIN frags THEN seen[a][p] \cup {frags[p]} ELSE seen[a][p]]]
    BY <1>a, <1>4 DEF Paint
  <2>2. over' = over
    BY <1>4 DEF Paint
  <2>3. /\ seen' \in [{0, 1} -> [Screen -> SUBSET Color]]
        /\ \A p \in Screen :
             seen'[a][p] = IF p \in DOMAIN frags THEN seen[a][p] \cup {frags[p]} ELSE seen[a][p]
        /\ \A t \in {0, 1} : t # a => seen'[t] = seen[t]
    <3> DEFINE row == [p \in Screen |->
                        IF p \in DOMAIN frags THEN seen[a][p] \cup {frags[p]} ELSE seen[a][p]]
    <3>1. seen[a] \in [Screen -> SUBSET Color]
      BY <1>1 DEF BuffersOK
    <3>2. row \in [Screen -> SUBSET Color]
      BY <3>1 DEF Paintable
    <3>3. \A p \in Screen :
            row[p] = IF p \in DOMAIN frags THEN seen[a][p] \cup {frags[p]} ELSE seen[a][p]
      OBVIOUS
    <3> HIDE DEF row
    <3>4. seen' = [seen EXCEPT ![a] = row]
      BY <2>1 DEF row
    <3>5. seen \in [{0, 1} -> [Screen -> SUBSET Color]]
      BY DEF BuffersOK
    <3>6. seen' \in [{0, 1} -> [Screen -> SUBSET Color]]
      BY <1>1, <3>2, <3>4, <3>5
    <3>7. seen'[a] = row /\ \A t \in {0, 1} : t # a => seen'[t] = seen[t]
      BY <1>1, <3>4, <3>5
    <3> QED BY <3>3, <3>6, <3>7
  <2>4. BuffersOK'
    BY <1>3, <2>2, <2>3 DEF BuffersOK
  <2>5. ASSUME NEW p \in Screen PROVE NearestAt(a, p)'
    <3>1. NearestAt(a, p)
      BY <1>1 DEF NearestShown
    <3>2. targets[a].depth[p] \in 0 .. MaxDepth /\ targets[a].color[p] \in Color /\ seen[a][p] \subseteq Color
      BY <1>1 DEF BuffersOK, RenderTarget
    <3>3. MaxDepth \in Nat /\ \A c \in Color : Alpha[c] \in 0 .. MaxDepth
      BY GPUAssumption
    <3>4. CASE p \in DOMAIN frags /\ Alpha[frags[p]] < targets[a].depth[p]
      <4>1. targets'[a].depth[p] = Alpha[frags[p]] /\ targets'[a].color[p] = frags[p]
        BY <1>3, <1>4, <3>4 DEF Painted, Passes
      <4>2. seen'[a][p] = seen[a][p] \cup {frags[p]} /\ frags[p] \in Color
        BY <2>3, <3>4 DEF Paintable
      <4>3. \A c \in seen[a][p] : targets[a].depth[p] <= Alpha[c]
        BY <3>1 DEF NearestAt
      <4>4. \A c \in seen'[a][p] : targets'[a].depth[p] <= Alpha[c]
        BY <3>2, <3>3, <3>4, <4>1, <4>2, <4>3
      <4> QED BY <1>1, <4>1, <4>2, <4>4 DEF NearestAt
    <3>5. CASE p \in DOMAIN frags /\ ~(Alpha[frags[p]] < targets[a].depth[p])
      <4>1. targets'[a].depth[p] = targets[a].depth[p] /\ targets'[a].color[p] = targets[a].color[p]
        BY <1>3, <1>4, <3>5 DEF Painted, Passes
      <4>2. seen'[a][p] = seen[a][p] \cup {frags[p]} /\ frags[p] \in Color
        BY <2>3, <3>5 DEF Paintable
      <4>3. targets[a].depth[p] <= Alpha[frags[p]]
        BY <3>2, <3>3, <3>5, <4>2
      <4> QED BY <1>1, <2>2, <3>1, <4>1, <4>2, <4>3 DEF NearestAt
    <3>6. CASE p \notin DOMAIN frags
      <4>1. targets'[a].depth[p] = targets[a].depth[p] /\ targets'[a].color[p] = targets[a].color[p]
        BY <1>3, <3>6 DEF Painted
      <4>2. seen'[a][p] = seen[a][p]
        BY <2>3, <3>6
      <4> QED BY <1>1, <2>2, <3>1, <4>1, <4>2 DEF NearestAt
    <3> QED BY <3>4, <3>5, <3>6
  <2>6. ASSUME NEW t \in {0, 1}, t # a, NEW p \in Screen PROVE NearestAt(t, p)'
    <3>1. targets'[t] = targets[t] /\ seen'[t] = seen[t] /\ over'[t] = over[t] /\ NearestAt(t, p)
      BY <1>3, <2>2, <2>3, <2>6 DEF NearestShown
    <3> QED BY <3>1 DEF NearestAt
  <2> QED BY <1>a, <1>1, <1>3, <2>4, <2>5, <2>6 DEF NearestShown
<1>5. CASE ~depth_test_enabled
  <2>1. /\ seen' = seen
        /\ over' = [over EXCEPT ![a] = over[a] \cup (Screen \cap DOMAIN frags)]
    BY <1>a, <1>5 DEF Paint
  <2>2. /\ over' \in [{0, 1} -> SUBSET Screen]
        /\ over'[a] = over[a] \cup (Screen \cap DOMAIN frags)
        /\ \A t \in {0, 1} : t # a => over'[t] = over[t]
    BY <1>1, <2>1 DEF BuffersOK
  <2>3. BuffersOK'
    BY <1>3, <2>1, <2>2 DEF BuffersOK
  <2>4. ASSUME NEW p \in Screen PROVE NearestAt(a, p)'
    <3>1. NearestAt(a, p)
      BY <1>1 DEF NearestShown
    <3>2. targets'[a].depth[p] = targets[a].depth[p]
      BY <1>3, <1>5 DEF Painted
    <3>3. p \notin DOMAIN frags => targets'[a].color[p] = targets[a].color[p]
      BY <1>3 DEF Painted
    <3> QED BY <1>1, <2>1, <2>2, <3>1, <3>2, <3>3 DEF NearestAt
  <2>5. ASSUME NEW t \in {0, 1}, t # a, NEW p \in Screen PROVE NearestAt(t, p)'
    <3>1. targets'[t] = targets[t] /\ seen'[t] = seen[t] /\ over'[t] = over[t] /\ NearestAt(t, p)
      BY <1>3, <2>1, <2>2, <2>5 DEF NearestShown
    <3> QED BY <3>1 DEF NearestAt
  <2> QED BY <1>a, <1>1, <1>3, <2>3, <2>4, <2>5 DEF NearestShown
<1> QED BY <1>a, <1>1, <1>3, <1>4, <1>5
-----------------------------------------------------------------------------
(***************************************************************************)
(* The commands keep the invariant, and while the second target is active  *)
(* they leave the first one alone or exchange the two.                     *)
(***************************************************************************)
Steady == active_target = 1 => targets'[0] \in {targets[0], targets[1]}

LEMMA Executed ==
  ASSUME ScriptOK, NEW op, Executes(op)
  PROVE  Command \in CommandSet /\ Command.op = op /\ ScriptOK'
BY CommandTyped DEF ScriptOK, Executes, Command

(* What the fields of each command are.                                    *)
LEMMA Fields ==
  ASSUME NEW c \in CommandSet
  PROVE  /\ c.op = "pixel" => c.color \in Color
         /\ c.op = "fill" => c.color \in Color
         /\ c.op = "rect" => c.color \in Color
         /\ c.op = "line" => c.a \in Point /\ c.b \in Point /\ c.color \in Color
         /\ c.op \in {"triangle", "wireframe"} =>
              c.a \in Point /\ c.b \in Point /\ c.c \in Point /\ c.color \in Color
         /\ c.op = "sprite" =>
              /\ c.x \in Int /\ c.y \in Int /\ c.w \in Int /\ c.h \in Int
              /\ c.flip_x \in BOOLEAN /\ c.flip_y \in BOOLEAN
         /\ c.op = "blit" =>
              /\ c.src \in Seq(Color) /\ c.stride \in Nat /\ c.x \in Int /\ c.y \in Int
              /\ c.w \in Nat /\ c.h \in Nat /\ Len(c.src) = c.stride * c.h
         /\ c.op = "upload" => c.src \in Seq(Color) /\ c.w \in Nat /\ c.h \in Nat
         /\ c.op = "mode" => c.test \in BOOLEAN
BY DEF CommandSet, BlitCommand

(* A command that paints, whatever it paints.                              *)
LEMMA DrawsKeeps ==
  ASSUME GpuInv, NEW op, Draws(op), NEW frags, Paintable(frags), Paint(frags)
  PROVE  GpuInv' /\ Steady
<1>1. BuffersOK' /\ NearestShown' /\ (active_target = 1 => targets'[0] = targets[0])
  BY PaintKeeps DEF GpuInv
<1>2. ScriptOK'
  BY Executed DEF GpuInv, Draws
<1>3. UNCHANGED <<active_target, depth_test_enabled, textures, next_texture_id, lines, pen, failed>>
  BY DEF Draws, textureVars, lineVars
<1>4. ModesOK' /\ TexturesOK' /\ LinesOK'
  <2>1. ModesOK'
    BY <1>3 DEF GpuInv, ModesOK
  <2>2. TexturesOK'
    BY <1>3 DEF GpuInv, TexturesOK
  <2>3. LinesOK'
    BY <1>3 DEF GpuInv, LinesOK, Sound, Made, Near
  <2> QED BY <2>1, <2>2, <2>3
<1> QED BY <1>1, <1>2, <1>4 DEF GpuInv, Steady

LEMMA PaintersKeep ==
  ASSUME GpuInv, DrawPixel \/ SubmitRectangle \/ FillTriangle \/ DrawSprite \/ DmaBlit
  PROVE  GpuInv' /\ Steady
<1>1. ASSUME NEW op, Draws(op) PROVE Command \in CommandSet /\ Command.op = op
  BY <1>1, Executed DEF GpuInv, Draws
<1>2. CASE DrawPixel
  <2>1. Command.color \in Color
    BY <1>1, <1>2, Fields DEF DrawPixel
  <2> QED BY <1>2, <2>1, FlatPaintable, DrawsKeeps DEF DrawPixel
<1>3. CASE SubmitRectangle
  <2>1. Command.color \in Color
    BY <1>1, <1>3, Fields DEF SubmitRectangle
  <2> QED BY <1>3, <2>1, FlatPaintable, DrawsKeeps DEF SubmitRectangle
<1>4. CASE FillTriangle
  <2>1. Command.color \in Color
    BY <1>1, <1>4, Fields DEF FillTriangle
  <2> QED BY <1>4, <2>1, FlatPaintable, DrawsKeeps DEF FillTriangle
<1>5. CASE DrawSprite
  <2>1. /\ Command.x \in Int /\ Command.y \in Int /\ Command.w \in Int /\ Command.h \in Int
        /\ Command.flip_x \in BOOLEAN /\ Command.flip_y \in BOOLEAN
    BY <1>1, <1>5, Fields DEF DrawSprite
  <2>2. textures[Command.texture] \in Seq(Color)
    BY <1>5 DEF DrawSprite, SpriteAccepted, GpuInv, TexturesOK
  <2>3. Command.w > 0 /\ Command.h > 0 => Len(textures[Command.texture]) >= Command.w * Command.h
    BY <1>5 DEF DrawSprite, SpriteAccepted, SpriteFits
  <2>4. Paintable(Sprite(textures[Command.texture], Command.x, Command.y, Command.w, Command.h,
                         Command.flip_x, Command.flip_y))
    BY <2>1, <2>2, <2>3, SpritePaintable
  <2> QED BY <1>5, <2>4, DrawsKeeps DEF DrawSprite
<1>6. CASE DmaBlit
  <2>1. /\ Command.src \in Seq(Color) /\ Command.stride \in Nat /\ Command.x \in Int
        /\ Command.y \in Int /\ Command.w \in Nat /\ Command.h \in Nat
        /\ Len(Command.src) = Command.stride * Command.h
    BY <1>1, <1>6, Fields DEF DmaBlit
  <2>2. Paintable(Blit(Command.src, Command.stride, Command.x, Command.y, Command.w, Command.h))
    BY <1>6, <2>1, BlitPaintable DEF DmaBlit
  <2> QED BY <1>6, <2>2, DrawsKeeps DEF DmaBlit
<1> QED BY <1>2, <1>3, <1>4, <1>5, <1>6

LEMMA FillAllKeeps ==
  ASSUME GpuInv, FillAll
  PROVE  GpuInv' /\ Steady
<1>a. PICK a \in {0, 1} : a = active_target
  BY DEF GpuInv, ModesOK
<1>1. Command.color \in Color /\ ScriptOK'
  BY Executed, Fields DEF GpuInv, Draws, FillAll
<1>2. PICK c \in Color : c = Command.color
  BY <1>1
<1>3. targets[a].depth \in [Screen -> 0 .. MaxDepth] /\ targets \in [{0, 1} -> RenderTarget]
  BY DEF GpuInv, BuffersOK, RenderTarget
<1>4. targets' = [targets EXCEPT ![a] = [color |-> [p \in Screen |-> c], depth |-> targets[a].depth]]
  BY <1>a, <1>2 DEF FillAll
<1>5. /\ targets' \in [{0, 1} -> RenderTarget] /\ targets'[a].depth = targets[a].depth
      /\ \A t \in {0, 1} : t # a => targets'[t] = targets[t]
  <2> DEFINE T == [color |-> [p \in Screen |-> c], depth |-> targets[a].depth]
  <2>1. T \in RenderTarget /\ T.depth = targets[a].depth
    BY <1>3 DEF RenderTarget
  <2> HIDE DEF T
  <2>2. targets' = [targets EXCEPT ![a] = T]
    BY <1>4 DEF T
  <2> QED BY <1>3, <2>1, <2>2
<1>6. over' = [over EXCEPT ![a] = Screen] /\ seen' = seen
  BY <1>a DEF FillAll
<1>7. /\ over' \in [{0, 1} -> SUBSET Screen] /\ over'[a] = Screen
      /\ \A t \in {0, 1} : t # a => over'[t] = over[t]
  BY <1>6 DEF GpuInv, BuffersOK
<1>8. BuffersOK'
  BY <1>5, <1>6, <1>7 DEF GpuInv, BuffersOK
<1>9. ASSUME NEW t \in {0, 1}, NEW p \in Screen PROVE NearestAt(t, p)'
  <2>1. NearestAt(t, p)
    BY DEF GpuInv, NearestShown
  <2>2. CASE t = a
    BY <1>5, <1>6, <1>7, <2>1, <2>2 DEF NearestAt
  <2>3. CASE t # a
    <3>1. targets'[t] = targets[t] /\ over'[t] = over[t]
      BY <1>5, <1>7, <2>3
    <3> QED BY <1>6, <2>1, <3>1 DEF NearestAt
  <2> QED BY <2>2, <2>3
<1>10. NearestShown'
  BY <1>9 DEF NearestShown
<1>11. ModesOK' /\ TexturesOK' /\ LinesOK'
  <2>1. UNCHANGED <<active_target, depth_test_enabled, textures, next_texture_id, lines, pen, failed>>
    BY DEF FillAll, Draws, textureVars, lineVars
  <2>2. ModesOK'
    BY <2>1 DEF GpuInv, ModesOK
  <2>3. TexturesOK'
    BY <2>1 DEF GpuInv, TexturesOK
  <2>4. LinesOK'
    BY <2>1 DEF GpuInv, LinesOK, Sound, Made, Near
  <2> QED BY <2>2, <2>3, <2>4
<1>12. Steady
  BY <1>a, <1>5 DEF Steady
<1> QED BY <1>1, <1>8, <1>10, <1>11, <1>12 DEF GpuInv

(* What a command leaves alone.                                            *)
LEMMA BuffersKept ==
  ASSUME GpuInv, UNCHANGED bufferVars
  PROVE  BuffersOK' /\ NearestShown' /\ Steady
<1>1. targets' = targets /\ seen' = seen /\ over' = over
  BY DEF bufferVars
<1> QED BY <1>1 DEF GpuInv, BuffersOK, NearestShown, NearestAt, Steady

LEMMA ModesKept ==
  ASSUME GpuInv, UNCHANGED <<active_target, depth_test_enabled, failed>>
  PROVE  ModesOK'
BY DEF GpuInv, ModesOK

LEMMA TexturesKept ==
  ASSUME GpuInv, UNCHANGED textureVars
  PROVE  TexturesOK'
BY DEF GpuInv, TexturesOK, textureVars

LEMMA LinesKept ==
  ASSUME GpuInv, UNCHANGED lineVars
  PROVE  LinesOK'
BY DEF GpuInv, LinesOK, Sound, Made, Near, lineVars

LEMMA UploadKeeps ==
  ASSUME GpuInv, UploadTexture
  PROVE  GpuInv' /\ Steady
<1>1. Command \in CommandSet /\ Command.op = "upload" /\ ScriptOK'
  BY Executed DEF GpuInv, UploadTexture
<1>2. Command.src \in Seq(Color) /\ Command.w \in Nat /\ Command.h \in Nat
  BY <1>1, Fields
<1>3. PICK pixels : pixels = SubSeq(Command.src, 1, Command.w * Command.h)
  OBVIOUS
<1>4. pixels \in Seq(Color)
  <2>1. Command.w * Command.h \in Nat
    BY <1>2
  <2>2. Command.w * Command.h <= Len(Command.src)
    BY DEF UploadTexture
  <2>3. \A k \in 1 .. Command.w * Command.h : Command.src[k] \in Color
    BY <1>2, <2>1, <2>2, ElementOfSeq
  <2> QED BY <1>2, <1>3, <2>1, <2>2, <2>3, SubSeqProperties
<1>5. TexturesOK'
  <2> DEFINE n == next_texture_id
  <2>1. /\ textures' = [id \in DOMAIN textures \cup {n} |-> IF id = n THEN pixels ELSE textures[id]]
        /\ next_texture_id' = n + 1
    BY <1>3 DEF UploadTexture
  <2>2. /\ n \in Nat \ {0} /\ DOMAIN textures = 1 .. n - 1
        /\ \A id \in DOMAIN textures : textures[id] \in Seq(Color)
    BY DEF GpuInv, TexturesOK
  <2>3. DOMAIN textures \cup {n} = 1 .. (n + 1) - 1
    BY <2>2
  <2>4. DOMAIN textures' = 1 .. next_texture_id' - 1
    BY <2>1, <2>3
  <2>5. \A id \in DOMAIN textures' : textures'[id] \in Seq(Color)
    BY <1>4, <2>1, <2>2
  <2>6. next_texture_id' \in Nat \ {0}
    BY <2>1, <2>2
  <2> QED BY <2>4, <2>5, <2>6 DEF TexturesOK
<1>6. BuffersOK' /\ NearestShown' /\ Steady
  BY BuffersKept DEF UploadTexture
<1>7. ModesOK'
  BY ModesKept DEF UploadTexture
<1>8. LinesOK'
  BY LinesKept DEF UploadTexture
<1> QED BY <1>1, <1>5, <1>6, <1>7, <1>8 DEF GpuInv

LEMMA SetRenderTargetKeeps ==
  ASSUME GpuInv, SetRenderTarget
  PROVE  GpuInv' /\ Steady
<1>1. ScriptOK'
  BY Executed DEF GpuInv, SetRenderTarget
<1>2. BuffersOK' /\ NearestShown' /\ Steady
  BY BuffersKept DEF SetRenderTarget
<1>3. ModesOK'
  BY DEF SetRenderTarget, GpuInv, ModesOK
<1>4. TexturesOK' /\ LinesOK'
  BY TexturesKept, LinesKept DEF SetRenderTarget
<1> QED BY <1>1, <1>2, <1>3, <1>4 DEF GpuInv

LEMMA SwapKeeps ==
  ASSUME GpuInv, SwapBuffers
  PROVE  GpuInv' /\ Steady
<1>1. ScriptOK'
  BY Executed DEF GpuInv, SwapBuffers, Draws
<1>2. \A t \in {0, 1} : 1 - t \in {0, 1}
  OBVIOUS
<1>3. \A t \in {0, 1} : /\ targets'[t] = targets[1 - t] /\ seen'[t] = seen[1 - t]
                         /\ over'[t] = over[1 - t]
  BY DEF SwapBuffers, Swapped
<1>4. BuffersOK'
  <2>1. targets' \in [{0, 1} -> RenderTarget]
    BY <1>2 DEF SwapBuffers, Swapped, GpuInv, BuffersOK
  <2>2. seen' \in [{0, 1} -> [Screen -> SUBSET Color]]
    BY <1>2 DEF SwapBuffers, Swapped, GpuInv, BuffersOK
  <2>3. over' \in [{0, 1} -> SUBSET Screen]
    BY <1>2 DEF SwapBuffers, Swapped, GpuInv, BuffersOK
  <2> QED BY <2>1, <2>2, <2>3 DEF BuffersOK
<1>5. ASSUME NEW t \in {0, 1}, NEW p \in Screen PROVE NearestAt(t, p)'
  <2>1. PICK s \in {0, 1} : s = 1 - t
    BY <1>2
  <2>2. NearestAt(s, p)
    BY DEF GpuInv, NearestShown
  <2>3. targets'[t] = targets[s] /\ seen'[t] = seen[s] /\ over'[t] = over[s]
    BY <1>3, <2>1
  <2> QED BY <2>2, <2>3 DEF NearestAt
<1>6. NearestShown'
  BY <1>5 DEF NearestShown
<1>7. UNCHANGED <<active_target, depth_test_enabled, failed, textureVars, lineVars>>
  BY DEF SwapBuffers, Draws
<1>8. ModesOK' /\ TexturesOK' /\ LinesOK'
  BY <1>7, ModesKept, TexturesKept, LinesKept
<1>9. Steady
  BY <1>3 DEF Steady
<1> QED BY <1>1, <1>4, <1>6, <1>8, <1>9 DEF GpuInv

LEMMA SetDepthModeKeeps ==
  ASSUME GpuInv, SetDepthMode
  PROVE  GpuInv' /\ Steady
<1>1. ScriptOK' /\ Command \in CommandSet /\ Command.op = "mode"
  BY Executed DEF GpuInv, SetDepthMode
<1>2. ModesOK'
  <2>1. Command.test \in BOOLEAN
    BY <1>1, Fields
  <2>2. depth_test_enabled' \in BOOLEAN
    BY <2>1 DEF SetDepthMode
  <2>3. active_target' = active_target /\ failed' = failed
    BY DEF SetDepthMode
  <2> QED BY <2>2, <2>3 DEF ModesOK, GpuInv
<1>3. TexturesOK' /\ LinesOK'
  BY TexturesKept, LinesKept DEF SetDepthMode
<1>4. BuffersOK' /\ NearestShown' /\ Steady
  <2>1. CASE ~Command.clear
    <3>1. UNCHANGED bufferVars
      BY <2>1 DEF SetDepthMode
    <3> QED BY <3>1, BuffersKept
  <2>2. CASE Command.clear
    <3>a. PICK a \in {0, 1} : a = active_target
      BY DEF GpuInv, ModesOK
    <3> DEFINE T == [color |-> targets[a].color, depth |-> Cleared]
               S == [p \in Screen |-> {}]
    <3>1. /\ targets' = [targets EXCEPT ![a] = T] /\ seen' = [seen EXCEPT ![a] = S]
          /\ over' = [over EXCEPT ![a] = {}]
      BY <2>2, <3>a DEF SetDepthMode
    <3>2. T \in RenderTarget /\ \A p \in Screen : T.depth[p] = MaxDepth
      <4>1. targets[a].color \in [Screen -> Color]
        BY DEF GpuInv, BuffersOK, RenderTarget
      <4>2. Cleared \in [Screen -> 0 .. MaxDepth]
        BY GPUAssumption DEF Cleared
      <4> QED BY <4>1, <4>2 DEF RenderTarget, Cleared
    <3>3. S \in [Screen -> SUBSET Color] /\ \A p \in Screen : S[p] = {}
      OBVIOUS
    <3> HIDE DEF T, S
    <3>4. BuffersOK
      BY DEF GpuInv
    <3>5. /\ targets' \in [{0, 1} -> RenderTarget] /\ targets'[a] = T
          /\ \A t \in {0, 1} : t # a => targets'[t] = targets[t]
      BY <3>1, <3>2, <3>4 DEF BuffersOK
    <3>6. /\ seen' \in [{0, 1} -> [Screen -> SUBSET Color]] /\ seen'[a] = S
          /\ \A t \in {0, 1} : t # a => seen'[t] = seen[t]
      BY <3>1, <3>3, <3>4 DEF BuffersOK
    <3>7. /\ over' \in [{0, 1} -> SUBSET Screen]
          /\ \A t \in {0, 1} : t # a => over'[t] = over[t]
      BY <3>1, <3>4 DEF BuffersOK
    <3>8. BuffersOK'
      BY <3>5, <3>6, <3>7 DEF BuffersOK
    <3>9. ASSUME NEW t \in {0, 1}, NEW p \in Screen PROVE NearestAt(t, p)'
      <4>1. CASE t = a
        <5>1. targets'[t].depth[p] = MaxDepth /\ seen'[t][p] = {} /\ ~(MaxDepth < MaxDepth)
          BY <3>2, <3>3, <3>5, <3>6, <4>1, GPUAssumption
        <5> QED BY <5>1 DEF NearestAt
      <4>2. CASE t # a
        <5>1. targets'[t] = targets[t] /\ seen'[t] = seen[t] /\ over'[t] = over[t] /\ NearestAt(t, p)
          BY <3>5, <3>6, <3>7, <4>2 DEF GpuInv, NearestShown
        <5> QED BY <5>1 DEF NearestAt
      <4> QED BY <4>1, <4>2
    <3>10. NearestShown'
      BY <3>9 DEF NearestShown
    <3>11. Steady
      BY <3>a, <3>5 DEF Steady
    <3> QED BY <3>8, <3>10, <3>11
  <2> QED BY <2>1, <2>2
<1> QED BY <1>1, <1>2, <1>3, <1>4 DEF GpuInv

LEMMA ThrowKeeps ==
  ASSUME GpuInv, Throw
  PROVE  GpuInv' /\ Steady
<1>1. ScriptOK'
  BY DEF GpuInv, ScriptOK, Throw
<1>2. BuffersOK' /\ NearestShown' /\ Steady
  BY BuffersKept DEF Throw
<1>3. ModesOK'
  BY DEF Throw, GpuInv, ModesOK
<1>4. TexturesOK' /\ LinesOK'
  BY TexturesKept, LinesKept DEF Throw
<1> QED BY <1>1, <1>2, <1>3, <1>4 DEF GpuInv
-----------------------------------------------------------------------------
LEMMA LineBetweenSound ==
  ASSUME NEW a \in Point, NEW b \in Point
  PROVE  LineBetween(a, b) \in LineSet /\ Sound(LineBetween(a, b))
<1>1. a[1] \in Int /\ a[2] \in Int /\ b[1] \in Int /\ b[2] \in Int
  BY DEF Point
<1> QED BY <1>1, LineFromSound DEF LineBetween

(* Beginning a line or three.                                              *)
LEMMA BeginKeeps ==
  ASSUME GpuInv, NEW op, BeginLines(op), Command.color \in Color,
         lines' \in Seq(LineSet), \A k \in DOMAIN lines' : Sound(lines'[k])
  PROVE  GpuInv' /\ Steady
<1>1. ScriptOK'
  BY Executed DEF GpuInv, BeginLines
<1>2. BuffersOK' /\ NearestShown' /\ Steady
  BY BuffersKept DEF BeginLines
<1>3. ModesOK' /\ TexturesOK'
  BY ModesKept, TexturesKept DEF BeginLines
<1>4. LinesOK'
  <2>1. pen' \in Color
    BY DEF BeginLines
  <2> QED BY <2>1 DEF LinesOK, Sound, Made, Near
<1> QED BY <1>1, <1>2, <1>3, <1>4 DEF GpuInv

LEMMA DrawLineKeeps ==
  ASSUME GpuInv, DrawLine
  PROVE  GpuInv' /\ Steady
<1>1. Command.a \in Point /\ Command.b \in Point /\ Command.color \in Color
  BY Executed, Fields DEF GpuInv, DrawLine, BeginLines
<1>2. PICK l \in LineSet : l = LineBetween(Command.a, Command.b) /\ Sound(l)
  BY <1>1, LineBetweenSound
<1>3. lines' = <<l>>
  BY <1>2 DEF DrawLine
<1>4. lines' \in Seq(LineSet) /\ \A k \in DOMAIN lines' : Sound(lines'[k])
  BY <1>2, <1>3
<1> QED BY <1>1, <1>4, BeginKeeps DEF DrawLine

LEMMA DrawWireframeKeeps ==
  ASSUME GpuInv, DrawWireframe
  PROVE  GpuInv' /\ Steady
<1>1. Command.a \in Point /\ Command.b \in Point /\ Command.c \in Point /\ Command.color \in Color
  BY Executed, Fields DEF GpuInv, DrawWireframe, BeginLines
<1>2. PICK l \in LineSet : l = LineBetween(Command.a, Command.b) /\ Sound(l)
  BY <1>1, LineBetweenSound
<1>3. PICK m \in LineSet : m = LineBetween(Command.b, Command.c) /\ Sound(m)
  BY <1>1, LineBetweenSound
<1>4. PICK n \in LineSet : n = LineBetween(Command.c, Command.a) /\ Sound(n)
  BY <1>1, LineBetweenSound
<1>5. lines' = <<l, m, n>>
  BY <1>2, <1>3, <1>4 DEF DrawWireframe
<1>6. lines' \in Seq(LineSet) /\ \A k \in DOMAIN lines' : Sound(lines'[k])
  BY <1>2, <1>3, <1>4, <1>5
<1> QED BY <1>1, <1>6, BeginKeeps DEF DrawWireframe

(* The first of a sequence replaced, and what is left after it.            *)
LEMMA HeadReplaced ==
  ASSUME NEW s \in Seq(LineSet), s # <<>>, \A k \in DOMAIN s : Sound(s[k]),
         NEW l \in LineSet, Sound(l)
  PROVE  /\ Tail(s) \in Seq(LineSet) /\ \A k \in DOMAIN Tail(s) : Sound(Tail(s)[k])
         /\ <<l>> \o Tail(s) \in Seq(LineSet)
         /\ \A k \in DOMAIN (<<l>> \o Tail(s)) : Sound((<<l>> \o Tail(s))[k])
         /\ (<<l>> \o Tail(s))[1] = l
<1>1. /\ Tail(s) \in Seq(LineSet) /\ Len(s) \in Nat \ {0} /\ Len(Tail(s)) = Len(s) - 1
      /\ \A k \in 1 .. Len(s) - 1 : Tail(s)[k] = s[k + 1]
  BY HeadTailProperties
<1>2. DOMAIN s = 1 .. Len(s) /\ DOMAIN Tail(s) = 1 .. Len(s) - 1
  BY <1>1
<1>3. \A k \in DOMAIN Tail(s) : Sound(Tail(s)[k])
  <2> TAKE k \in DOMAIN Tail(s)
  <2>1. k \in 1 .. Len(s) - 1 /\ k + 1 \in DOMAIN s
    BY <1>1, <1>2
  <2> QED BY <1>1, <2>1
<1> DEFINE n == <<l>> \o Tail(s)
<1>4. /\ n \in Seq(LineSet) /\ Len(n) = Len(s)
      /\ \A k \in 1 .. Len(n) : n[k] = IF k <= 1 THEN l ELSE Tail(s)[k - 1]
  <2>1. <<l>> \in Seq(LineSet) /\ Len(<<l>>) = 1 /\ <<l>>[1] = l
    OBVIOUS
  <2> QED BY <1>1, <2>1, ConcatProperties
<1>5. \A k \in DOMAIN n : Sound(n[k])
  <2>1. DOMAIN n = 1 .. Len(s)
    BY <1>4
  <2> HIDE DEF n
  <2> TAKE k \in DOMAIN n
  <2>2. CASE k = 1
    BY <1>1, <1>4, <2>1, <2>2
  <2>3. CASE k # 1
    <3>1. k - 1 \in DOMAIN Tail(s) /\ n[k] = Tail(s)[k - 1]
      BY <1>1, <1>2, <1>4, <2>1, <2>3
    <3> QED BY <1>3, <3>1
  <2> QED BY <2>2, <2>3
<1>6. n[1] = l
  BY <1>1, <1>4
<1> QED BY <1>1, <1>3, <1>4, <1>5, <1>6

LEMMA PlotKeeps ==
  ASSUME GpuInv, PlotNext
  PROVE  GpuInv' /\ Steady
<1>1. lines # <<>> /\ lines \in Seq(LineSet) /\ pen \in Color /\ \A k \in DOMAIN lines : Sound(lines[k])
  BY DEF PlotNext, GpuInv, LinesOK
<1>2. Line \in LineSet /\ Sound(Line)
  <2>1. 1 \in DOMAIN lines /\ lines[1] \in LineSet
    BY <1>1, HeadTailProperties, ElementOfSeq
  <2> QED BY <1>1, <2>1 DEF Line
<1>3. BuffersOK' /\ NearestShown' /\ Steady
  <2>1. Paintable(Flat({<<Line.x, Line.y>>}, pen)) /\ Paint(Flat({<<Line.x, Line.y>>}, pen))
    BY <1>1, FlatPaintable DEF PlotNext
  <2> QED BY <2>1, PaintKeeps DEF GpuInv, Steady
<1>4. ScriptOK'
  BY DEF PlotNext, GpuInv, ScriptOK
<1>5. ModesOK' /\ TexturesOK'
  BY ModesKept, TexturesKept DEF PlotNext
<1>6. lines' \in Seq(LineSet) /\ \A k \in DOMAIN lines' : Sound(lines'[k])
  <2>1. CASE AtLineEnd(Line)
    <3>1. lines' = Tail(lines)
      BY <2>1 DEF PlotNext
    <3> QED BY <1>1, <1>2, <3>1, HeadReplaced
  <2>2. CASE ~AtLineEnd(Line)
    <3>1. PICK n \in LineSet : n = Moved(Line) /\ Sound(n)
      BY <1>2, <2>2, MovedSound
    <3>2. lines' = <<n>> \o Tail(lines)
      BY <2>2, <3>1 DEF PlotNext
    <3> QED BY <1>1, <3>1, <3>2, HeadReplaced
  <2> QED BY <2>1, <2>2
<1>7. LinesOK'
  <2>1. pen' = pen
    BY DEF PlotNext
  <2> QED BY <1>1, <1>6, <2>1 DEF LinesOK, Sound, Made, Near
<1> QED BY <1>3, <1>4, <1>5, <1>7 DEF GpuInv

LEMMA NextGpu == GpuInv /\ [GpuNext]_gpuVars => GpuInv' /\ Steady
<1> SUFFICES ASSUME GpuInv, [GpuNext]_gpuVars PROVE GpuInv' /\ Steady
  OBVIOUS
<1>1. CASE DrawPixel \/ SubmitRectangle \/ FillTriangle \/ DrawSprite \/ DmaBlit
  BY <1>1, PaintersKeep
<1>2. CASE FillAll
  BY <1>2, FillAllKeeps
<1>3. CASE UploadTexture
  BY <1>3, UploadKeeps
<1>4. CASE SetRenderTarget
  BY <1>4, SetRenderTargetKeeps
<1>5. CASE SwapBuffers
  BY <1>5, SwapKeeps
<1>6. CASE SetDepthMode
  BY <1>6, SetDepthModeKeeps
<1>7. CASE Throw
  BY <1>7, ThrowKeeps
<1>8. CASE DrawLine
  BY <1>8, DrawLineKeeps
<1>9. CASE DrawWireframe
  BY <1>9, DrawWireframeKeeps
<1>10. CASE PlotNext
  BY <1>10, PlotKeeps
<1>11. CASE UNCHANGED gpuVars
  <2>1. UNCHANGED <<bufferVars, active_target, depth_test_enabled, textureVars, script, lineVars, failed>>
    BY <1>11 DEF gpuVars
  <2>2. ScriptOK'
    BY <2>1 DEF GpuInv, ScriptOK
  <2> QED BY <2>1, <2>2, BuffersKept, ModesKept, TexturesKept, LinesKept DEF GpuInv
<1> QED BY <1>1, <1>2, <1>3, <1>4, <1>5, <1>6, <1>7, <1>8, <1>9, <1>10, <1>11 DEF GpuNext
-----------------------------------------------------------------------------
(* Every member of the GPU keeps its type, whatever it draws: a sprite     *)
(* never reads beyond its texture, nor a blit beyond its rows (draw_sprite,*)
(* dma_blit, upload_texture).                                              *)
THEOREM GpuTypeCorrect == GpuSpec => []GpuTypeOK
<1>1. GpuSpec => []GpuInv
  BY InitGpu, NextGpu, PTL DEF GpuSpec
<1> QED BY <1>1, InvTyped, PTL

(* The depth of a pixel is that of the nearest colour it was tested for,   *)
(* and the pixel shows it, over any swaps (depth_pass, swap_buffers).      *)
THEOREM NearestCorrect == GpuSpec => []NearestShown
<1>1. GpuSpec => []GpuInv
  BY InitGpu, NextGpu, PTL DEF GpuSpec
<1>2. GpuInv => NearestShown
  BY DEF GpuInv
<1> QED BY <1>1, <1>2, PTL

(* What is drawn on the second target shows only after a swap              *)
(* (set_render_target, swap_buffers).                                      *)
THEOREM SteadyCorrect == GpuSpec => ScreenSteady
<1>1. GpuInv /\ [GpuNext]_gpuVars => [active_target = 1 => targets'[0] \in {targets[0], targets[1]}]_gpuVars
  BY NextGpu DEF Steady
<1> QED BY <1>1, InitGpu, NextGpu, PTL DEF GpuSpec, ScreenSteady

(* Every pixel of every line lies in the box of its ends and within half a *)
(* pixel of the ideal line (draw_line).                                    *)
THEOREM LineTrueCorrect == GpuSpec => []LineTrue
<1>1. GpuSpec => []GpuInv
  BY InitGpu, NextGpu, PTL DEF GpuSpec
<1>2. GpuInv => LineTrue
  <2> SUFFICES ASSUME GpuInv, NEW k \in DOMAIN lines PROVE OnLine(lines[k])
    BY DEF LineTrue
  <2>1. lines \in Seq(LineSet) /\ Sound(lines[k])
    BY DEF GpuInv, LinesOK
  <2>2. lines[k] \in LineSet
    BY <2>1
  <2> QED BY <2>1, <2>2, SoundOnLine
<1> QED BY <1>1, <1>2, PTL

(* No line has a gap or a doubled pixel (draw_line).                       *)
THEOREM LineThinCorrect == GpuSpec => LineThin
<1> DEFINE Thin == lines # <<>> /\ lines' # <<>> /\ ~AtLineEnd(Line) =>
                     /\ Line.dx >= -Line.dy => lines'[1].x # Line.x
                     /\ -Line.dy >= Line.dx => lines'[1].y # Line.y
<1>1. GpuInv /\ [GpuNext]_gpuVars => [Thin]_gpuVars
  <2> SUFFICES ASSUME GpuInv, GpuNext, lines # <<>>, ~AtLineEnd(Line) PROVE Thin
    BY DEF GpuInv
  <2>1. PlotNext
    BY DEF GpuNext, DrawPixel, FillAll, SubmitRectangle, FillTriangle, DrawSprite, DmaBlit, Draws,
           UploadTexture, SetRenderTarget, SwapBuffers, SetDepthMode, Throw, DrawLine, DrawWireframe,
           BeginLines, Executes
  <2>2. lines \in Seq(LineSet) /\ \A k \in DOMAIN lines : Sound(lines[k])
    BY DEF GpuInv, LinesOK
  <2>3. Line \in LineSet /\ Sound(Line)
    <3>1. 1 \in DOMAIN lines /\ lines[1] \in LineSet
      BY <2>2, HeadTailProperties, ElementOfSeq
    <3> QED BY <2>2, <3>1 DEF Line
  <2>4. PICK n \in LineSet : n = Moved(Line) /\ Sound(n)
    BY <2>3, MovedSound
  <2>5. lines' = <<n>> \o Tail(lines)
    BY <2>1, <2>4 DEF PlotNext
  <2>6. lines'[1] = Moved(Line)
    BY <2>2, <2>4, <2>5, HeadReplaced
  <2> QED BY <2>3, <2>6, MovedSound
<1> QED BY <1>1, InitGpu, NextGpu, PTL DEF GpuSpec, LineThin

(* A line of D by E is max(D, E) rounds and the pixel it starts with, the  *)
(* last of them at its end point: every round is one of them (draw_line).  *)
THEOREM LineLength ==
  ASSUME NEW l \in LineSet, Sound(l)
  PROVE  /\ RoundsLeft(l) \in Nat
         /\ AtLineEnd(l) <=> RoundsLeft(l) = 0
         /\ ~AtLineEnd(l) => RoundsLeft(Moved(l)) = RoundsLeft(l) - 1
<1> DEFINE D == l.dx  E == -l.dy  i == Made(l)[1]  j == Made(l)[2]
<1>1. /\ D \in Nat /\ E \in Nat /\ i \in 0 .. D /\ j \in 0 .. E
      /\ RoundsLeft(l) = IF D >= E THEN D - i ELSE E - j
  BY DEF Sound, LineSet, Point, Made, RoundsLeft
<1>2. RoundsLeft(l) \in Nat
  BY RoundsType
<1>3. ASSUME AtLineEnd(l) PROVE RoundsLeft(l) = 0
  <2>1. i = D /\ j = E
    BY <1>3 DEF AtLineEnd, Sound, Made
  <2> HIDE DEF D, E, i, j
  <2> QED BY <1>1, <2>1
<1>4. ASSUME ~AtLineEnd(l) PROVE RoundsLeft(l) # 0 /\ RoundsLeft(Moved(l)) = RoundsLeft(l) - 1
  <2>1. PICK n \in LineSet : n = Moved(l) /\ Sound(n) /\ RoundsLeft(n) = RoundsLeft(l) - 1
    BY <1>4, MovedSound
  <2>2. RoundsLeft(n) \in Nat
    BY <2>1, RoundsType
  <2> QED BY <1>2, <2>1, <2>2
<1> QED BY <1>2, <1>3, <1>4
-----------------------------------------------------------------------------
LEMMA TripleDescends ==
  ASSUME NEW a \in Nat, NEW b \in Nat, NEW c \in Nat, NEW x \in Nat, NEW y \in Nat, NEW z \in Nat,
         x < a \/ (x = a /\ y < b) \/ (x = a /\ y = b /\ z < c)
  PROVE  Descends(<<a, b, c>>, <<x, y, z>>)
<1> DEFINE r == <<a, b, c>>
           s == <<x, y, z>>
<1>1. /\ DOMAIN r = {1, 2, 3} /\ DOMAIN s = {1, 2, 3}
      /\ r[1] = a /\ r[2] = b /\ r[3] = c /\ s[1] = x /\ s[2] = y /\ s[3] = z
  OBVIOUS
<1> HIDE DEF r, s
<1>2. IsRank(r) /\ IsRank(s)
  BY <1>1 DEF IsRank
<1>3. Descends(r, s)
  BY <1>1, <1>2 DEF Descends
<1> QED BY <1>3 DEF r, s

LEMMA LeftTyped ==
  GpuInv => CommandsLeft \in Nat /\ Len(lines) \in Nat /\ LineLeft \in Nat
<1> SUFFICES ASSUME GpuInv PROVE CommandsLeft \in Nat /\ Len(lines) \in Nat /\ LineLeft \in Nat
  OBVIOUS
<1>1. script \in Seq(CommandSet) /\ lines \in Seq(LineSet) /\ \A k \in DOMAIN lines : Sound(lines[k])
  BY DEF GpuInv, ScriptOK, LinesOK
<1>2. CommandsLeft \in Nat /\ Len(lines) \in Nat
  BY <1>1 DEF CommandsLeft
<1>3. ASSUME lines # <<>> PROVE RoundsLeft(Line) \in Nat
  <2>1. 1 \in DOMAIN lines /\ lines[1] \in LineSet
    BY <1>1, <1>3, HeadTailProperties, ElementOfSeq
  <2> QED BY <1>1, <2>1, RoundsType DEF Line
<1> QED BY <1>2, <1>3 DEF LineLeft

LEMMA StepShrinks ==
  ASSUME GpuInv, GpuNext
  PROVE  Descends(<<CommandsLeft, Len(lines), LineLeft>>, <<CommandsLeft', Len(lines'), LineLeft'>>)
<1>1. /\ CommandsLeft \in Nat /\ Len(lines) \in Nat /\ LineLeft \in Nat
      /\ CommandsLeft' \in Nat /\ Len(lines') \in Nat /\ LineLeft' \in Nat
  <2>1. GpuInv'
    BY NextGpu
  <2>2. (GpuInv => CommandsLeft \in Nat /\ Len(lines) \in Nat /\ LineLeft \in Nat)'
    BY LeftTyped, PTL
  <2> QED BY LeftTyped, <2>1, <2>2
<1>2. script \in Seq(CommandSet) /\ lines \in Seq(LineSet) /\ \A k \in DOMAIN lines : Sound(lines[k])
  BY DEF GpuInv, ScriptOK, LinesOK
<1>3. CASE PlotNext
  <2>1. lines # <<>> /\ CommandsLeft' = CommandsLeft
    BY <1>3 DEF PlotNext, CommandsLeft
  <2>2. 1 \in DOMAIN lines /\ Line \in LineSet /\ Sound(Line)
    BY <1>2, <2>1, HeadTailProperties, ElementOfSeq DEF Line
  <2>3. CASE AtLineEnd(Line)
    <3>1. Len(lines') = Len(lines) - 1
      BY <1>2, <1>3, <2>1, <2>3, HeadTailProperties DEF PlotNext
    <3> QED BY <1>1, <2>1, <3>1, TripleDescends
  <2>4. CASE ~AtLineEnd(Line)
    <3>1. PICK n \in LineSet : n = Moved(Line) /\ Sound(n) /\ RoundsLeft(n) = RoundsLeft(Line) - 1
      BY <2>2, <2>4, MovedSound
    <3>2. lines' = <<n>> \o Tail(lines)
      BY <1>3, <2>4, <3>1 DEF PlotNext
    <3>3. Len(lines') = Len(lines) /\ lines'[1] = n /\ lines' # <<>>
      <4>1. Tail(lines) \in Seq(LineSet) /\ Len(lines) \in Nat \ {0} /\ Len(Tail(lines)) = Len(lines) - 1
        BY <1>2, <2>1, HeadTailProperties
      <4>2. Len(lines') = Len(lines)
        BY <3>2, <4>1, ConcatProperties
      <4> QED BY <1>2, <2>1, <3>1, <3>2, <4>1, <4>2, HeadReplaced
    <3>4. LineLeft' = LineLeft - 1
      BY <2>1, <3>1, <3>3 DEF LineLeft, Line, RoundsLeft, Made
    <3> QED BY <1>1, <2>1, <3>3, <3>4, TripleDescends
  <2> QED BY <2>3, <2>4
<1>4. CASE Throw
  <2>1. CommandsLeft' < CommandsLeft
    BY <1>2, <1>4 DEF Throw, CommandsLeft
  <2> QED BY <1>1, <2>1, TripleDescends
<1>5. ASSUME NEW op, Executes(op), failed' = failed
      PROVE  Descends(<<CommandsLeft, Len(lines), LineLeft>>, <<CommandsLeft', Len(lines'), LineLeft'>>)
  <2>1. Len(script) \in Nat /\ Len(script') = Len(script) - 1
    BY <1>2, <1>5, HeadTailProperties DEF Executes
  <2>2. CommandsLeft' < CommandsLeft
    BY <1>5, <2>1 DEF CommandsLeft
  <2> QED BY <1>1, <2>2, TripleDescends
<1> QED
  BY <1>3, <1>4, <1>5 DEF GpuNext, DrawPixel, FillAll, SubmitRectangle, FillTriangle, DrawSprite,
     DmaBlit, Draws, UploadTexture, SetRenderTarget, SwapBuffers, SetDepthMode, DrawLine,
     DrawWireframe, BeginLines

(* Each step of a script leaves less to do: commands, lines, or rounds of  *)
(* the current line.                                                       *)
THEOREM ScriptCorrect == GpuSpec => ScriptShrinks
<1>1. GpuInv /\ [GpuNext]_gpuVars =>
        [Descends(<<CommandsLeft, Len(lines), LineLeft>>,
                  <<CommandsLeft', Len(lines'), LineLeft'>>)]_gpuVars
  BY StepShrinks
<1> QED BY <1>1, InitGpu, NextGpu, PTL DEF GpuSpec, ScriptShrinks
-----------------------------------------------------------------------------
(***************************************************************************)
(* Triangles.  The three edge values of a pixel are its weights: they add  *)
(* up to that of the triangle, and weigh its corners to the pixel.         *)
(***************************************************************************)
LEMMA EdgeTyped ==
  ASSUME NEW a \in Point, NEW b \in Point, NEW c \in Point
  PROVE  Edge(a, b, c) \in Int
BY DEF Edge, Point

LEMMA Barycentric ==
  ASSUME NEW a \in Point, NEW b \in Point, NEW c \in Point, NEW p \in Point
  PROVE  /\ Edge(b, c, p) + Edge(c, a, p) + Edge(a, b, p) = Edge(a, b, c)
         /\ \A d \in {1, 2} : Edge(b, c, p) * a[d] + Edge(c, a, p) * b[d] + Edge(a, b, p) * c[d]
                               = Edge(a, b, c) * p[d]
<1>1. PICK a1 \in Int, a2 \in Int, b1 \in Int, b2 \in Int, c1 \in Int, c2 \in Int, p1 \in Int, p2 \in Int :
        a1 = a[1] /\ a2 = a[2] /\ b1 = b[1] /\ b2 = b[2] /\ c1 = c[1] /\ c2 = c[2] /\ p1 = p[1] /\ p2 = p[2]
  BY DEF Point
<1> DEFINE A  == (c1 - a1) * (b2 - a2) - (c2 - a2) * (b1 - a1)
           w0 == (p1 - b1) * (c2 - b2) - (p2 - b2) * (c1 - b1)
           w1 == (p1 - c1) * (a2 - c2) - (p2 - c2) * (a1 - c1)
           w2 == (p1 - a1) * (b2 - a2) - (p2 - a2) * (b1 - a1)
<1>2. /\ w0 + w1 + w2 = A
      /\ w0 * a1 + w1 * b1 + w2 * c1 = A * p1
      /\ w0 * a2 + w1 * b2 + w2 * c2 = A * p2
  OBVIOUS
<1>3. Edge(a, b, c) = A /\ Edge(b, c, p) = w0 /\ Edge(c, a, p) = w1 /\ Edge(a, b, p) = w2
  BY <1>1 DEF Edge
<1> HIDE DEF A, w0, w1, w2
<1> QED BY <1>1, <1>2, <1>3

(* The edge value is an affine function of the pixel, and the same for the *)
(* corners in any rotation.                                                *)
LEMMA EdgeOfMean ==
  ASSUME NEW a \in Point, NEW b \in Point, NEW c \in Point, NEW p \in Point,
         NEW i \in Int, NEW j \in Int, NEW k \in Int, NEW n \in Int, n = i + j + k,
         \A d \in {1, 2} : i * a[d] + j * b[d] + k * c[d] = n * p[d]
  PROVE  n * Edge(b, c, p) = i * Edge(a, b, c)
<1>1. PICK a1 \in Int, a2 \in Int, b1 \in Int, b2 \in Int, c1 \in Int, c2 \in Int, p1 \in Int, p2 \in Int :
        a1 = a[1] /\ a2 = a[2] /\ b1 = b[1] /\ b2 = b[2] /\ c1 = c[1] /\ c2 = c[2] /\ p1 = p[1] /\ p2 = p[2]
  BY DEF Point
<1>2. i * a1 + j * b1 + k * c1 = n * p1 /\ i * a2 + j * b2 + k * c2 = n * p2
  BY <1>1
<1>3. n * (p1 - b1) = i * (a1 - b1) + k * (c1 - b1)
  BY <1>2
<1>4. n * (p2 - b2) = i * (a2 - b2) + k * (c2 - b2)
  BY <1>2
<1>5. n * ((p1 - b1) * (c2 - b2) - (p2 - b2) * (c1 - b1))
        = (n * (p1 - b1)) * (c2 - b2) - (n * (p2 - b2)) * (c1 - b1)
  OBVIOUS
<1>6. (i * (a1 - b1) + k * (c1 - b1)) * (c2 - b2) - (i * (a2 - b2) + k * (c2 - b2)) * (c1 - b1)
        = i * ((c1 - a1) * (b2 - a2) - (c2 - a2) * (b1 - a1))
  OBVIOUS
<1>7. /\ Edge(b, c, p) = (p1 - b1) * (c2 - b2) - (p2 - b2) * (c1 - b1)
      /\ Edge(a, b, c) = (c1 - a1) * (b2 - a2) - (c2 - a2) * (b1 - a1)
  BY <1>1 DEF Edge
<1> QED BY <1>3, <1>4, <1>5, <1>6, <1>7

LEMMA EdgeRotates ==
  ASSUME NEW a \in Point, NEW b \in Point, NEW c \in Point
  PROVE  Edge(b, c, a) = Edge(a, b, c) /\ Edge(c, a, b) = Edge(a, b, c)
BY DEF Edge, Point

LEMMA Cancel ==
  ASSUME NEW n \in Nat, n > 0, NEW w \in Int, NEW i \in Nat, NEW A \in {n, -n}, n * w = i * A
  PROVE  w = IF A > 0 THEN i ELSE -i
<1>1. CASE A = n
  <2>1. n * (w - i) = 0
    BY <1>1
  <2>2. w - i = 0
    BY <2>1
  <2> QED BY <1>1, <2>2
<1>2. CASE A = -n
  <2>1. n * (w + i) = 0
    BY <1>2
  <2>2. w + i = 0
    BY <2>1
  <2> QED BY <1>2, <2>2
<1> QED BY <1>1, <1>2

(* A mean of three numbers lies between two of them.                       *)
LEMMA MeanWithin ==
  ASSUME NEW u \in Int, NEW v \in Int, NEW w \in Int, NEW q \in Int,
         NEW i \in Nat, NEW j \in Nat, NEW k \in Nat, NEW n \in Nat, n > 0, n = i + j + k,
         i * u + j * v + k * w = n * q
  PROVE  Within(q, {u, v, w})
<1>1. ASSUME u > q, v > q, w > q PROVE FALSE
  <2>1. i * (u - q) >= i /\ j * (v - q) >= j /\ k * (w - q) >= k
    BY <1>1
  <2>2. i * (u - q) + j * (v - q) + k * (w - q) = n * q - n * q
    OBVIOUS
  <2> QED BY <2>1, <2>2
<1>2. ASSUME u < q, v < q, w < q PROVE FALSE
  <2>1. i * (q - u) >= i /\ j * (q - v) >= j /\ k * (q - w) >= k
    BY <1>2
  <2>2. i * (q - u) + j * (q - v) + k * (q - w) = n * q - n * q
    OBVIOUS
  <2> QED BY <2>1, <2>2
<1> QED BY <1>1, <1>2 DEF Within

LEMMA TriangleIsMeans ==
  ASSUME NEW a \in Point, NEW b \in Point, NEW c \in Point, NEW p \in Screen
  PROVE  p \in Triangle(a, b, c) <=> Mean(a, b, c, p)
<1> DEFINE A  == Edge(a, b, c)
           w0 == Edge(b, c, p)
           w1 == Edge(c, a, p)
           w2 == Edge(a, b, p)
           n  == IF A < 0 THEN -A ELSE A
<1>0. p \in Point
  BY DEF Point, Screen
<1>1. /\ a[1] \in Int /\ a[2] \in Int /\ b[1] \in Int /\ b[2] \in Int
      /\ c[1] \in Int /\ c[2] \in Int /\ p[1] \in Int /\ p[2] \in Int
  BY DEF Point, Screen
<1>2. A \in Int /\ w0 \in Int /\ w1 \in Int /\ w2 \in Int
  BY <1>1 DEF Edge
<1>3. /\ w0 + w1 + w2 = A
      /\ \A d \in {1, 2} : w0 * a[d] + w1 * b[d] + w2 * c[d] = A * p[d]
  BY <1>0, Barycentric
<1>4. \A d \in {1, 2} : a[d] \in Int /\ b[d] \in Int /\ c[d] \in Int /\ p[d] \in Int
  BY <1>1
<1>5. ASSUME p \in Triangle(a, b, c) PROVE Mean(a, b, c, p)
  <2>1. /\ A # 0
        /\ \/ w0 >= 0 /\ w1 >= 0 /\ w2 >= 0
           \/ w0 <= 0 /\ w1 <= 0 /\ w2 <= 0
    BY <1>5 DEF Triangle, Sides
  <2> HIDE DEF A, w0, w1, w2
  <2>2. CASE w0 >= 0 /\ w1 >= 0 /\ w2 >= 0
    <3>1. A > 0 /\ n = A /\ w0 \in 0 .. n /\ w1 \in 0 .. n - w0 /\ n - w0 - w1 = w2
      BY <1>2, <1>3, <2>1, <2>2
    <3>2. \A d \in {1, 2} : w0 * a[d] + w1 * b[d] + (n - w0 - w1) * c[d] = n * p[d]
      BY <1>3, <3>1
    <3> QED BY <3>1, <3>2 DEF Mean, A
  <2>3. CASE w0 <= 0 /\ w1 <= 0 /\ w2 <= 0
    <3>1. A < 0 /\ n = -A /\ n > 0
      BY <1>2, <1>3, <2>1, <2>3
    <3>2. PICK i \in 0 .. n : i = -w0
      BY <1>2, <1>3, <2>3, <3>1
    <3>3. PICK j \in 0 .. n - i : j = -w1
      BY <1>2, <1>3, <2>3, <3>1, <3>2
    <3>4. ASSUME NEW d \in {1, 2} PROVE i * a[d] + j * b[d] + (n - i - j) * c[d] = n * p[d]
      <4>1. n - i - j = -w2
        BY <1>2, <1>3, <3>1, <3>2, <3>3
      <4>2. PICK x \in Int, y \in Int, z \in Int, q \in Int : x = a[d] /\ y = b[d] /\ z = c[d] /\ q = p[d]
        BY <1>4
      <4>3. w0 * x + w1 * y + w2 * z = A * q
        BY <1>3, <4>2
      <4>4. (-w0) * x + (-w1) * y + (-w2) * z = (-A) * q
        BY <1>2, <4>3
      <4> QED BY <3>1, <3>2, <3>3, <4>1, <4>2, <4>4
    <3> QED BY <3>1, <3>4 DEF Mean, A
  <2> QED BY <2>1, <2>2, <2>3
<1>6. ASSUME Mean(a, b, c, p) PROVE p \in Triangle(a, b, c)
  <2>1. n > 0 /\ n \in Nat /\ A \in {n, -n} /\ A # 0
    BY <1>2, <1>6 DEF Mean
  <2>2. PICK i \in 0 .. n : \E j \in 0 .. n - i :
          \A d \in {1, 2} : i * a[d] + j * b[d] + (n - i - j) * c[d] = n * p[d]
    BY <1>6 DEF Mean
  <2>3. PICK j \in 0 .. n - i :
          \A d \in {1, 2} : i * a[d] + j * b[d] + (n - i - j) * c[d] = n * p[d]
    BY <2>2
  <2>4. PICK k \in Nat : k = n - i - j
    BY <2>1
  <2> HIDE DEF n
  <2>5. i \in Nat /\ j \in Nat /\ n = i + j + k /\ n = j + k + i /\ n = k + i + j
    BY <2>1, <2>4
  <2>6. /\ i * a[1] + j * b[1] + k * c[1] = n * p[1]
        /\ i * a[2] + j * b[2] + k * c[2] = n * p[2]
    BY <2>3, <2>4
  <2>7. \A d \in {1, 2} : /\ i * a[d] + j * b[d] + k * c[d] = n * p[d]
                           /\ j * b[d] + k * c[d] + i * a[d] = n * p[d]
                           /\ k * c[d] + i * a[d] + j * b[d] = n * p[d]
    BY <1>1, <2>5, <2>6
  <2>8. n * w0 = i * A
    BY <1>0, <2>1, <2>5, <2>7, EdgeOfMean
  <2>9. n * w1 = j * A
    <3>1. n * w1 = j * Edge(b, c, a)
      BY <1>0, <2>1, <2>5, <2>7, EdgeOfMean
    <3> QED BY <3>1, EdgeRotates
  <2>10. n * w2 = k * A
    <3>1. n * w2 = k * Edge(c, a, b)
      BY <1>0, <2>1, <2>5, <2>7, EdgeOfMean
    <3> QED BY <3>1, EdgeRotates
  <2> HIDE DEF A, w0, w1, w2
  <2>11. /\ w0 = IF A > 0 THEN i ELSE -i
         /\ w1 = IF A > 0 THEN j ELSE -j
         /\ w2 = IF A > 0 THEN k ELSE -k
    BY <1>2, <2>1, <2>5, <2>8, <2>9, <2>10, Cancel
  <2>12. \/ w0 >= 0 /\ w1 >= 0 /\ w2 >= 0
         \/ w0 <= 0 /\ w1 <= 0 /\ w2 <= 0
    BY <2>5, <2>11
  <2>13. Within(p[1], {a[1], b[1], c[1]}) /\ Within(p[2], {a[2], b[2], c[2]})
    BY <1>1, <2>1, <2>5, <2>6, MeanWithin
  <2> QED BY <2>1, <2>12, <2>13 DEF Triangle, Sides, A, w0, w1, w2
<1> QED BY <1>5, <1>6

(* A filled triangle covers the pixels of the screen that are weighted     *)
(* means of its corners, and no others (draw_triangle).                    *)
THEOREM TriangleCorrect == GpuSpec => TriangleCovers
<1> DEFINE Covers ==
      ~failed /\ lines = <<>> /\ script # <<>> /\ Command.op = "triangle" /\ ~depth_test_enabled =>
        \A p \in Screen :
          targets'[active_target].color[p] =
            IF Mean(Command.a, Command.b, Command.c, p) THEN Command.color
            ELSE targets[active_target].color[p]
<1>1. GpuInv /\ [GpuNext]_gpuVars => [Covers]_gpuVars
  <2> SUFFICES ASSUME GpuInv, GpuNext, ~failed, lines = <<>>, script # <<>>, Command.op = "triangle",
                      ~depth_test_enabled, NEW p \in Screen
               PROVE  targets'[active_target].color[p] =
                        IF Mean(Command.a, Command.b, Command.c, p) THEN Command.color
                        ELSE targets[active_target].color[p]
    OBVIOUS
  <2>1. FillTriangle
    BY DEF GpuNext, DrawPixel, FillAll, SubmitRectangle, FillTriangle, DrawSprite, DmaBlit, Draws,
           UploadTexture, SetRenderTarget, SwapBuffers, SetDepthMode, Throw, DrawLine, DrawWireframe,
           BeginLines, Executes, PlotNext
  <2>2. Command.a \in Point /\ Command.b \in Point /\ Command.c \in Point
    BY <2>1, Executed, Fields DEF GpuInv, FillTriangle, Draws
  <2>3. PICK a \in {0, 1} : a = active_target
    BY DEF GpuInv, ModesOK
  <2> DEFINE frags == Flat(Triangle(Command.a, Command.b, Command.c), Command.color)
  <2>4. DOMAIN frags = Triangle(Command.a, Command.b, Command.c)
        /\ \A q \in DOMAIN frags : frags[q] = Command.color
    BY DEF Flat
  <2>5. Paint(frags)
    BY <2>1 DEF FillTriangle
  <2> HIDE DEF frags
  <2>6. targets'[a] = Painted(targets[a], frags)
    BY <2>3, <2>5 DEF Paint, GpuInv, BuffersOK
  <2>7. targets'[a].color[p] = IF p \in DOMAIN frags THEN frags[p] ELSE targets[a].color[p]
    BY <2>6 DEF Painted, Passes
  <2> QED BY <2>2, <2>3, <2>4, <2>7, TriangleIsMeans
<1> QED BY <1>1, InitGpu, NextGpu, PTL DEF GpuSpec, TriangleCovers
=============================================================================
