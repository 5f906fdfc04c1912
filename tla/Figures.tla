------------------------------ MODULE Figures -------------------------------
(***************************************************************************)
(* The pixels of the figures gpu.cpp draws, before clipping, and the inner *)
(* loop of draw_line.  A pixel is a pair <<x, y>> of integers: the code's  *)
(* int, as long as no sum of coordinates overflows it, and its float, as   *)
(* long as no product of two differences passes 2^24.                      *)
(***************************************************************************)
EXTENDS Integers, Sequences

CONSTANTS Width, Height    (* 128 and 72                                   *)

ASSUME FiguresAssumption == Width \in Nat \ {0} /\ Height \in Nat \ {0}

Screen == (0 .. Width - 1) \X (0 .. Height - 1)

(* submit_rectangle: nothing for a width or height of 0 and less.          *)
Rectangle(x, y, w, h) == (x .. x + w - 1) \X (y .. y + h - 1)

(* Twice the signed area of abc.                                           *)
Edge(a, b, c) == (c[1] - a[1]) * (b[2] - a[2]) - (c[2] - a[2]) * (b[1] - a[1])

(* draw_triangle, filled: in the clipped bounding box, the pixels on the   *)
(* same side of all edges.                                                 *)
Within(k, S) == \E i, j \in S : i <= k /\ k <= j
Sides(a, b, c, p) == {Edge(b, c, p), Edge(c, a, p), Edge(a, b, p)}
TriangleOneSided(a, b, c) ==                                \* mutant
  { p \in Screen :
      /\ Within(p[1], {a[1], b[1], c[1]}) /\ Within(p[2], {a[2], b[2], c[2]})
      /\ \A s \in Sides(a, b, c, p) : s >= 0 }
Triangle(a, b, c) ==
  { p \in Screen :
      /\ Edge(a, b, c) # 0
      /\ Within(p[1], {a[1], b[1], c[1]}) /\ Within(p[2], {a[2], b[2], c[2]})
      /\ \/ \A s \in Sides(a, b, c, p) : s >= 0
         \/ \A s \in Sides(a, b, c, p) : s <= 0 }

(* draw_sprite and dma_blit: the colour of each pixel, from a sequence of  *)
(* rows.                                                                   *)
Mirror(k, n, flip) == IF flip THEN n - 1 - k ELSE k
Sprite(tex, x, y, w, h, flip_x, flip_y) ==
  [p \in Rectangle(x, y, w, h) |->
    tex[1 + Mirror(p[2] - y, h, flip_y) * w + Mirror(p[1] - x, w, flip_x)]]
Blit(src, stride, x, y, w, h) ==
  [p \in Rectangle(x, y, w, h) |-> src[1 + (p[2] - y) * stride + (p[1] - x)]]

(* draw_line: its variables before the loop; x and y are the code's x0 and *)
(* y0, and from is where they began.                                       *)
Distance(i, j) == IF i < j THEN j - i ELSE i - j
Towards(i, j) == IF i < j THEN 1 ELSE -1
LineFrom(x0, y0, x1, y1) ==
  [from |-> <<x0, y0>>, x |-> x0, y |-> y0, x1 |-> x1, y1 |-> y1,
   dx |-> Distance(x0, x1), dy |-> -Distance(y0, y1),
   sx |-> Towards(x0, x1), sy |-> Towards(y0, y1),
   err |-> Distance(x0, x1) - Distance(y0, y1)]

AtLineEnd(l) == l.x = l.x1 /\ l.y = l.y1

(* One round of the loop: e2 is taken before err changes.                  *)
StepsXStrictly(l) == 2 * l.err > -l.dy                      \* mutant
StepsX(l) == 2 * l.err >= l.dy
StepsY(l) == 2 * l.err <= l.dx
Onwards(l, x, y, err) ==
  [from |-> l.from, x |-> x, y |-> y, x1 |-> l.x1, y1 |-> l.y1,
   dx |-> l.dx, dy |-> l.dy, sx |-> l.sx, sy |-> l.sy, err |-> err]
MovedLate(l) ==                                             \* mutant
  LET err == IF StepsX(l) THEN l.err + l.dy ELSE l.err
      y   == 2 * err <= l.dx
  IN  Onwards(l, IF StepsX(l) THEN l.x + l.sx ELSE l.x, IF y THEN l.y + l.sy ELSE l.y,
              err + (IF y THEN l.dx ELSE 0))
Moved(l) ==
  Onwards(l, IF StepsX(l) THEN l.x + l.sx ELSE l.x, IF StepsY(l) THEN l.y + l.sy ELSE l.y,
          l.err + (IF StepsX(l) THEN l.dy ELSE 0) + (IF StepsY(l) THEN l.dx ELSE 0))
=============================================================================
