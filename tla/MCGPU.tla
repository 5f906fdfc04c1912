------------------------------- MODULE MCGPU --------------------------------
(***************************************************************************)
(* A screen of three by two pixels, colours of four depths, and scripts:   *)
(* three commands of any kind on a few figures, each line and each filled  *)
(* triangle of a larger grid alone, and longer mixes of depth and targets. *)
(***************************************************************************)
EXTENDS GPU, TLC

Alphas == "black" :> 0 @@ "near" :> 1 @@ "far" :> 2 @@ "opaque" :> 3
Colors == DOMAIN Alphas

P(x, y) == <<x, y>>
At(x, y, c) == [op |-> "pixel", x |-> x, y |-> y, color |-> c]
Fill(c) == [op |-> "fill", color |-> c]
Rect(x, y, w, h, c) == [op |-> "rect", x |-> x, y |-> y, w |-> w, h |-> h, color |-> c]
LineOf(a, b, c) == [op |-> "line", a |-> a, b |-> b, color |-> c]
Tri(op, a, b, c, col) == [op |-> op, a |-> a, b |-> b, c |-> c, color |-> col]
Sprt(id, x, w, h, fx, fy) ==
  [op |-> "sprite", texture |-> id, x |-> x, y |-> 0, w |-> w, h |-> h, flip_x |-> fx, flip_y |-> fy]
BlitOf(src, stride, w, h) == [op |-> "blit", src |-> src, stride |-> stride, x |-> 1, y |-> -1, w |-> w, h |-> h]
Upload(src, w, h) == [op |-> "upload", src |-> src, w |-> w, h |-> h]
Target(i) == [op |-> "target", index |-> i]
Flip == [op |-> "flip"]
Mode(test, clear) == [op |-> "mode", test |-> test, clear |-> clear]

TexA == <<"near", "far", "opaque", "black">>
Commands ==
  { At(1, 1, "near"), At(-1, 0, "far"), Fill("far"), Rect(1, 0, 9, 9, "far"), Rect(0, 0, 0, 2, "near"),
    LineOf(P(0, 0), P(2, 1), "near"), Tri("wireframe", P(0, 0), P(3, 0), P(0, 1), "opaque"),
    Tri("triangle", P(0, 0), P(0, 1), P(2, 0), "near"),
    Upload(TexA, 2, 2), Upload(TexA, 3, 2), Sprt(1, 1, 2, 2, TRUE, FALSE), Sprt(1, 0, 2, 1, FALSE, TRUE),
    Sprt(1, 0, 3, 2, FALSE, FALSE), Sprt(2, 0, 1, 1, FALSE, FALSE), BlitOf(TexA, 2, 1, 2), BlitOf(<<"near", "far">>, 1, 2, 2),
    Target(1), Target(0), Target(2), Flip, Mode(TRUE, FALSE), Mode(FALSE, TRUE) }
Mixed == UNION {[1 .. n -> Commands] : n \in 0 .. 3}

Grid == {P(x, y) : x \in -1 .. 4, y \in -1 .. 3}
AllLines == {<<LineOf(a, b, "near")>> : a, b \in Grid}

Corners == {P(x, y) : x \in 0 .. 3, y \in -1 .. 2}
AllTriangles == {<<Tri("triangle", a, b, c, "near")>> : a, b, c \in Corners}

(* Depth: two targets, each cleared, tested and swapped.                   *)
DepthCommands ==
  { At(0, 0, "near"), At(0, 0, "far"), At(0, 0, "opaque"), Fill("near"), Target(1), Flip, Mode(TRUE, TRUE), Mode(FALSE, FALSE) }
Depths == {<<Mode(TRUE, FALSE)>> \o s : s \in [1 .. 4 -> DepthCommands]}

MCScripts == Mixed \cup AllLines \cup AllTriangles \cup Depths
=============================================================================
