-------------------------------- MODULE GPU ---------------------------------
(***************************************************************************)
(* class GPU (gpu.cpp): two render targets with their depth buffers, the   *)
(* textures, and the commands that both the drawing instructions and the   *)
(* command port of the window call (CPU::execute and the write callback).  *)
(*                                                                         *)
(* A command is one action, but draw_line, the loop of which is a step per *)
(* pixel; a triangle that is not filled is three lines.  A colour is a     *)
(* value with an alpha, which unpack_depth takes for its depth; MaxDepth   *)
(* is the alpha of an opaque colour and the depth of a cleared buffer.     *)
(* Blending and the debug hook are left out: nothing calls set_blend_mode  *)
(* or set_debug_hook.                                                      *)
(***************************************************************************)
EXTENDS Figures, Ranks

CONSTANTS
  Color, Alpha, MaxDepth, Black,   (* Black is the colour 0                *)
  Scripts                          (* sequences of commands                *)

ASSUME GPUAssumption ==
  /\ MaxDepth \in Nat /\ Alpha \in [Color -> 0 .. MaxDepth] /\ Black \in Color

(* What the instructions and the port ask for; DMABLT hands over whole     *)
(* rows.  GPUTEX hands over as many pixels as it asks to be kept.          *)
Point == Int \X Int
BlitCommand == [op : {"blit"}, src : Seq(Color), stride : Nat, x : Int, y : Int, w : Nat, h : Nat]
CommandSet ==
  [op : {"pixel"}, x : Int, y : Int, color : Color]
  \cup [op : {"fill"}, color : Color]
  \cup [op : {"rect"}, x : Int, y : Int, w : Int, h : Int, color : Color]
  \cup [op : {"line"}, a : Point, b : Point, color : Color]
  \cup [op : {"triangle", "wireframe"}, a : Point, b : Point, c : Point, color : Color]
  \cup [op : {"sprite"}, texture : Nat, x : Int, y : Int, w : Int, h : Int,
        flip_x : BOOLEAN, flip_y : BOOLEAN]
  \cup {c \in BlitCommand : Len(c.src) = c.stride * c.h}
  \cup [op : {"upload"}, src : Seq(Color), w : Nat, h : Nat]
  \cup [op : {"target"}, index : Nat]
  \cup [op : {"flip"}]
  \cup [op : {"mode"}, test : BOOLEAN, clear : BOOLEAN]

ASSUME ScriptsAssumption == Scripts \subseteq Seq(CommandSet)

VARIABLES
  targets, active_target, depth_test_enabled,
  textures, next_texture_id,
  script,        (* the commands still to come                             *)
  lines, pen,    (* the lines still to draw, the current first, and the    *)
                 (* colour of the command they belong to                   *)
  failed,        (* an exception has left the GPU                          *)
  seen, over     (* history, per target and since its depth was cleared:   *)
                 (* the colours each pixel was tested for, and the pixels  *)
                 (* that were written without a test                       *)

bufferVars == <<targets, seen, over>>
textureVars == <<textures, next_texture_id>>
lineVars == <<lines, pen>>
gpuVars == <<bufferVars, active_target, depth_test_enabled, textureVars, script, lineVars, failed>>
-----------------------------------------------------------------------------
Cleared == [p \in Screen |-> MaxDepth]
RenderTarget == [color : [Screen -> Color], depth : [Screen -> 0 .. MaxDepth]]

GpuInit ==
  /\ targets = [t \in {0, 1} |-> [color |-> [p \in Screen |-> Black], depth |-> Cleared]]
  /\ active_target = 0 /\ depth_test_enabled = FALSE
  /\ textures = <<>> /\ next_texture_id = 1
  /\ script \in Scripts
  /\ lines = <<>> /\ pen = Black /\ failed = FALSE
  /\ seen = [t \in {0, 1} |-> [p \in Screen |-> {}]] /\ over = [t \in {0, 1} |-> {}]

(* write_pixel for every pixel of frags, a function from pixels to         *)
(* colours; the pixels of a figure are distinct.                           *)
Passes(t, p, c) == depth_test_enabled => Alpha[c] < t.depth[p]

Painted(t, frags) ==
  LET Hit(p) == p \in DOMAIN frags /\ Passes(t, p, frags[p])
  IN  [color |-> [p \in Screen |-> IF Hit(p) THEN frags[p] ELSE t.color[p]],
       depth |-> [p \in Screen |-> IF Hit(p) /\ depth_test_enabled THEN Alpha[frags[p]] ELSE t.depth[p]]]

PaintFirst(frags) ==                                                \* mutant
  /\ targets' = [targets EXCEPT ![0] = Painted(@, frags)]
  /\ UNCHANGED <<seen, over>>
Paint(frags) ==
  /\ targets' = [targets EXCEPT ![active_target] = Painted(@, frags)]
  /\ seen' = IF depth_test_enabled
             THEN [seen EXCEPT ![active_target] =
                    [p \in Screen |-> IF p \in DOMAIN frags THEN @[p] \cup {frags[p]} ELSE @[p]]]
             ELSE seen
  /\ over' = IF depth_test_enabled THEN over
             ELSE [over EXCEPT ![active_target] = @ \cup (Screen \cap DOMAIN frags)]

Flat(pixels, c) == [p \in pixels |-> c]
-----------------------------------------------------------------------------
Command == script[1]
Executes(op) ==
  /\ ~failed /\ lines = <<>> /\ script # <<>> /\ Command.op = op
  /\ script' = Tail(script)
Draws(op) ==
  Executes(op) /\ UNCHANGED <<active_target, depth_test_enabled, textureVars, lineVars, failed>>

DrawPixel == Draws("pixel") /\ Paint(Flat({<<Command.x, Command.y>>}, Command.color))

(* fill writes the colours and leaves the depth.                           *)
FillAll ==
  /\ Draws("fill")
  /\ targets' = [targets EXCEPT ![active_target] =
                    [color |-> [p \in Screen |-> Command.color], depth |-> @.depth]]
  /\ over' = [over EXCEPT ![active_target] = Screen]
  /\ UNCHANGED seen

SubmitRectangle ==
  /\ Draws("rect")
  /\ Paint(Flat(Rectangle(Command.x, Command.y, Command.w, Command.h), Command.color))

FillTriangle ==
  /\ Draws("triangle")
  /\ Paint(Flat(Triangle(Command.a, Command.b, Command.c), Command.color))

SpriteFits == Len(textures[Command.texture]) >= Command.w * Command.h
SpriteAccepted ==
  /\ Command.texture \in DOMAIN textures
  /\ Command.w > 0 /\ Command.h > 0 => SpriteFits
DrawSprite ==
  /\ Draws("sprite") /\ SpriteAccepted
  /\ Paint(Sprite(textures[Command.texture], Command.x, Command.y, Command.w, Command.h,
                  Command.flip_x, Command.flip_y))

DmaBlit ==
  /\ Draws("blit") /\ Command.stride >= Command.w
  /\ Paint(Blit(Command.src, Command.stride, Command.x, Command.y, Command.w, Command.h))

UploadTextureSame ==                                                \* mutant
  /\ Executes("upload") /\ Command.w * Command.h <= Len(Command.src)
  /\ textures' = [id \in DOMAIN textures \cup {next_texture_id} |-> Command.src]
  /\ UNCHANGED <<bufferVars, active_target, depth_test_enabled, next_texture_id, lineVars, failed>>
UploadTexture ==
  /\ Executes("upload") /\ Command.w * Command.h <= Len(Command.src)
  /\ textures' = [id \in DOMAIN textures \cup {next_texture_id} |->
       IF id = next_texture_id THEN SubSeq(Command.src, 1, Command.w * Command.h) ELSE textures[id]]
  /\ next_texture_id' = next_texture_id + 1
  /\ UNCHANGED <<bufferVars, active_target, depth_test_enabled, lineVars, failed>>

SetRenderTarget ==
  /\ Executes("target") /\ Command.index \in {0, 1}
  /\ active_target' = Command.index
  /\ UNCHANGED <<bufferVars, depth_test_enabled, textureVars, lineVars, failed>>

(* The contents change places, with their depth; the index does not.       *)
Swapped(f) == [t \in {0, 1} |-> f[1 - t]]
SwapBuffersColor ==                                                 \* mutant
  /\ Draws("flip")
  /\ targets' = [t \in {0, 1} |-> [targets[t] EXCEPT !.color = targets[1 - t].color]]
  /\ seen' = Swapped(seen) /\ over' = Swapped(over)
SwapBuffers ==
  /\ Draws("flip")
  /\ targets' = Swapped(targets) /\ seen' = Swapped(seen) /\ over' = Swapped(over)

(* Command 8 of the port: set_depth_test, and clear_depth if asked to.     *)
SetDepthMode ==
  /\ Executes("mode")
  /\ depth_test_enabled' = Command.test
  /\ IF Command.clear
     THEN /\ targets' = [targets EXCEPT ![active_target] = [color |-> @.color, depth |-> Cleared]]
          /\ seen' = [seen EXCEPT ![active_target] = [p \in Screen |-> {}]]
          /\ over' = [over EXCEPT ![active_target] = {}]
     ELSE UNCHANGED bufferVars
  /\ UNCHANGED <<active_target, textureVars, lineVars, failed>>

(* draw_sprite, dma_blit, upload_texture or set_render_target throws.      *)
Throw ==
  /\ ~failed /\ lines = <<>> /\ script # <<>>
  /\ \/ Command.op = "sprite" /\ ~SpriteAccepted
     \/ Command.op = "blit" /\ Command.stride < Command.w
     \/ Command.op = "upload" /\ Command.w * Command.h > Len(Command.src)
     \/ Command.op = "target" /\ Command.index \notin {0, 1}
  /\ failed' = TRUE
  /\ UNCHANGED <<bufferVars, active_target, depth_test_enabled, textureVars, script, lineVars>>
-----------------------------------------------------------------------------
BeginLines(op) ==
  /\ Executes(op) /\ pen' = Command.color
  /\ UNCHANGED <<bufferVars, active_target, depth_test_enabled, textureVars, failed>>
LineBetween(a, b) == LineFrom(a[1], a[2], b[1], b[2])

DrawLine == BeginLines("line") /\ lines' = <<LineBetween(Command.a, Command.b)>>

DrawWireframe ==
  /\ BeginLines("wireframe")
  /\ lines' = << LineBetween(Command.a, Command.b), LineBetween(Command.b, Command.c),
                 LineBetween(Command.c, Command.a) >>

(* One pixel of the line, and where the next one is.                       *)
Line == lines[1]
PlotNextStaying ==                                                  \* mutant
  /\ lines # <<>>
  /\ Paint(Flat({<<Line.x, Line.y>>}, pen))
  /\ lines' = IF AtLineEnd(Line) THEN lines ELSE <<Moved(Line)>> \o Tail(lines)
  /\ UNCHANGED <<active_target, depth_test_enabled, textureVars, script, pen, failed>>
PlotNext ==
  /\ lines # <<>>
  /\ Paint(Flat({<<Line.x, Line.y>>}, pen))
  /\ lines' = IF AtLineEnd(Line) THEN Tail(lines) ELSE <<Moved(Line)>> \o Tail(lines)
  /\ UNCHANGED <<active_target, depth_test_enabled, textureVars, script, pen, failed>>

GpuNext ==
  \/ DrawPixel \/ FillAll \/ SubmitRectangle \/ FillTriangle \/ DrawSprite \/ DmaBlit
  \/ UploadTexture \/ SetRenderTarget \/ SwapBuffers \/ SetDepthMode \/ Throw
  \/ DrawLine \/ DrawWireframe \/ PlotNext

(* The calls into the GPU run to their end.                                *)
GpuSpec == GpuInit /\ [][GpuNext]_gpuVars /\ WF_gpuVars(GpuNext)
-----------------------------------------------------------------------------
GpuTypeOK ==
  /\ targets \in [{0, 1} -> RenderTarget]
  /\ active_target \in {0, 1} /\ depth_test_enabled \in BOOLEAN /\ failed \in BOOLEAN
  /\ next_texture_id \in Nat \ {0}
  /\ DOMAIN textures = 1 .. next_texture_id - 1
  /\ \A id \in DOMAIN textures : textures[id] \in Seq(Color)
  /\ pen \in Color
  /\ seen \in [{0, 1} -> [Screen -> SUBSET Color]]
  /\ over \in [{0, 1} -> SUBSET Screen]

(* The depth of a pixel is that of the nearest colour it was tested for    *)
(* since its buffer was cleared, wherever swaps and changes of target have *)
(* taken that buffer; and, unless it was written without a test since, it  *)
(* shows that colour (depth_pass, write_pixel, swap_buffers, clear_depth). *)
NearestAt(t, p) ==
  /\ \A c \in seen[t][p] : targets[t].depth[p] <= Alpha[c]
  /\ targets[t].depth[p] < MaxDepth => \E c \in seen[t][p] : targets[t].depth[p] = Alpha[c]
  /\ targets[t].depth[p] < MaxDepth /\ p \notin over[t] =>
       /\ targets[t].color[p] \in seen[t][p]
       /\ Alpha[targets[t].color[p]] = targets[t].depth[p]
NearestShown == \A t \in {0, 1}, p \in Screen : NearestAt(t, p)

(* While the program draws on the second target, what framebuffer() shows  *)
(* changes only by a swap, and then into the picture drawn there, depth    *)
(* included (set_render_target, swap_buffers).                             *)
ScreenSteady ==
  [][ active_target = 1 => targets'[0] \in {targets[0], targets[1]} ]_gpuVars

(* A line stays in the box of its end points, and each of its pixels lies  *)
(* within half a pixel of the ideal line, across its longer side           *)
(* (draw_line): with i and j steps made of the D and E to make,            *)
(* |j * D - i * E| <= max(D, E) / 2.                                       *)
Made(l) == <<(l.x - l.from[1]) * l.sx, (l.y - l.from[2]) * l.sy>>
OnLine(l) ==
  LET D == l.dx  E == -l.dy  i == Made(l)[1]  j == Made(l)[2]  off == 2 * (j * D - i * E)
  IN  /\ i \in 0 .. D /\ j \in 0 .. E
      /\ \E m \in {D, E} : -m <= off /\ off <= m
LineTrue == \A k \in DOMAIN lines : OnLine(lines[k])

(* A line has no gap and no doubled pixel: every round but the last moves  *)
(* along the longer side.                                                  *)
LineThin ==
  [][ lines # <<>> /\ lines' # <<>> /\ ~AtLineEnd(Line) =>
        /\ Line.dx >= -Line.dy => lines'[1].x # Line.x
        /\ -Line.dy >= Line.dx => lines'[1].y # Line.y ]_gpuVars

(* A filled triangle covers exactly the pixels of the screen that are      *)
(* weighted means of its corners, whatever their order, and nothing when   *)
(* they lie on one line (draw_triangle).                                   *)
Mean(a, b, c, p) ==
  LET n == IF Edge(a, b, c) < 0 THEN -Edge(a, b, c) ELSE Edge(a, b, c)
  IN  n > 0 /\ \E i \in 0 .. n : \E j \in 0 .. n - i :
        \A d \in {1, 2} : i * a[d] + j * b[d] + (n - i - j) * c[d] = n * p[d]
TriangleCovers ==
  [][ ~failed /\ lines = <<>> /\ script # <<>> /\ Command.op = "triangle" /\ ~depth_test_enabled =>
        \A p \in Screen :
          targets'[active_target].color[p] =
            IF Mean(Command.a, Command.b, Command.c, p) THEN Command.color
            ELSE targets[active_target].color[p] ]_gpuVars

(* Every script comes to its end, its lines included, or throws.           *)
ScriptEnds == <>(failed \/ (script = <<>> /\ lines = <<>>))

(* The pixels of a line still to come after this one: as many as the steps *)
(* left along its longer side.                                             *)
RoundsLeft(l) == IF l.dx >= -l.dy THEN l.dx - Made(l)[1] ELSE -l.dy - Made(l)[2]

(* Nothing the GPU does is for nothing: each step ends a command or a line,*)
(* or is one of the max(D, E) rounds of the current line, which no rounding*)
(* error can keep from its end point (draw_line).                          *)
CommandsLeft == IF failed THEN Len(script) ELSE Len(script) + 1
LineLeft == IF lines = <<>> THEN 0 ELSE RoundsLeft(Line)
ScriptShrinks ==
  [][ Descends(<<CommandsLeft, Len(lines), LineLeft>>,
               <<CommandsLeft', Len(lines'), LineLeft'>>) ]_gpuVars
=============================================================================
