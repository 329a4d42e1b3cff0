------------------------------ MODULE MonoFrame ------------------------------
(***************************************************************************)
(* The monochrome frame buffer in use: rectangles, lines, pixels and       *)
(* glyphs (module Drawing) are drawn on one frame, in any order.           *)
(***************************************************************************)
EXTENDS Drawing

CONSTANTS Calls,        \* for each function, the calls of it
          MaxDraws      \* how many there are, fills not counted

VARIABLES frame,
          before,       \* the frame before the call that was made last
          call,         \* that call
          draws

frameVars == <<frame, before, call, draws>>

\* Lines of which twice the length fits 16 bits, and are neither horizontal nor
\* vertical; the pixels of a glyph are in its box.
Reach == -8191 .. 8191
LegalCalls ==
    /\ Calls.rect \subseteq [x : Int, y : Int, w : Nat, h : Nat, op : {"set", "clear", "invert"}]
    /\ Calls.straight \subseteq [f : {"hLine", "vLine", "pixel"}, a : Int, b : Int, at : Int, color : BOOLEAN]
    /\ Calls.line \subseteq [x1 : Reach, y1 : Reach, x2 : Reach, y2 : Reach, color : BOOLEAN]
    /\ \A c \in Calls.line : c.x1 # c.x2 /\ c.y1 # c.y2
    /\ Calls.glyph \subseteq [glyph : SUBSET (Nat \X Nat), charW : Nat, charSpacing : Nat, fontHeight : Nat,
                              x : Nat, y : Nat, flags : SUBSET {"AllowPartial", "NoBackground"}, color : BOOLEAN]
    /\ \A c \in Calls.glyph : c.glyph \subseteq (0 .. c.charW - 1) \X (0 .. c.fontHeight - 1)

MonoFrameAssumption ==
    /\ Width \in Nat \ {0} /\ Height \in Nat \ {0} /\ Height % 8 = 0
    /\ LegalCalls

FrameInit == frame = fill(FALSE) /\ before = frame /\ call = [f |-> "init"] /\ draws = 0

Drawn(f, args, new) ==
    /\ call' = [f |-> f, args |-> args]
    /\ before' = frame
    /\ frame' = new

Draw(f, args, new) == draws < MaxDraws /\ draws' = draws + 1 /\ Drawn(f, args, new)

Fill == \E color \in BOOLEAN : Drawn("fill", color, fill(color)) /\ UNCHANGED draws
DrawRect == \E c \in Calls.rect :
    LET shape == bitOpRect(c.x, c.y, c.w, c.h)
    IN  Draw("rect", c, IF c.op = "invert" THEN invertRect(frame, shape) ELSE fillRect(frame, shape, c.op = "set"))
DrawStraight == \E c \in Calls.straight :
    \/ c.f = "hLine" /\ Draw("hLine", c, hLine(frame, c.a, c.b, c.at, c.color))
    \/ c.f = "vLine" /\ Draw("vLine", c, vLine(frame, c.a, c.b, c.at, c.color))
    \/ c.f = "pixel" /\ Draw("pixel", c, setPixel(frame, c.at, c.a, c.color))
DrawLine == \E c \in Calls.line : Draw("line", c, drawLine(frame, c.x1, c.y1, c.x2, c.y2, c.color))
DrawGlyph == \E c \in Calls.glyph :
    Draw("glyph", c, putc(frame, c.glyph, c.charW, c.charSpacing, c.fontHeight, c.x, c.y, c.flags, c.color))

FrameNext == Fill \/ DrawRect \/ DrawStraight \/ DrawLine \/ DrawGlyph
-----------------------------------------------------------------------------
Paint(shape, color) == IF color THEN before \cup shape ELSE before \ shape
Clip(v, max) == IF v < 0 THEN 0 ELSE IF v > max - 1 THEN max - 1 ELSE v
Between(a, b, max) == {v \in 0 .. max - 1 : \/ Clip(a, max) <= v /\ v <= Clip(b, max)
                                            \/ Clip(b, max) <= v /\ v <= Clip(a, max)}

\* A corner off the frame is moved onto it.
RectDrawn(c) ==
    LET cut == {p \in Screen : /\ p[1] \in Clip(c.x, Width) .. Clip(c.x, Width) + c.w - 1
                               /\ p[2] \in Clip(c.y, Height) .. Clip(c.y, Height) + c.h - 1}
    IN  frame = CASE c.op = "set" -> before \cup cut
                  [] c.op = "clear" -> before \ cut
                  [] c.op = "invert" -> (before \ cut) \cup (cut \ before)

\* A vertical line is cleared only inside of one page.
HLineDrawn(c) == frame = Paint({p \in Screen : p[1] \in Between(c.a, c.b, Width) /\ p[2] = c.at}, c.color)
VLineDrawn(c) ==
    c.color \/ Clip(c.a, Height) \div 8 = Clip(c.b, Height) \div 8 =>
        frame = Paint({p \in Screen : p[1] = c.at /\ p[2] \in Between(c.a, c.b, Height)}, c.color)
PixelDrawn(c) == frame = Paint({p \in Screen : p = <<c.at, c.a>>}, c.color)

\* One point for each step of the longer side, from one end to the other, none
\* further than half a pixel from the straight line.
Abs(n) == IF n < 0 THEN -n ELSE n
Sloped(points, x1, y1, x2, y2) ==
    LET dx == x2 - x1
        dy == y2 - y1
        flat == Abs(dx) >= Abs(dy)
        longer == IF flat THEN Abs(dx) ELSE Abs(dy)
        Along(p) == IF flat THEN Abs(p[1] - x1) ELSE Abs(p[2] - y1)
    IN  /\ {<<x1, y1>>, <<x2, y2>>} \subseteq points
        /\ \A p, q \in points : Along(p) = Along(q) => p = q
        /\ \A u \in 0 .. longer : \E p \in points : Along(p) = u
        /\ \A p \in points : /\ Along(p) \in 0 .. longer
                             /\ 2 * Abs((p[1] - x1) * dy - (p[2] - y1) * dx) <= longer
LineDrawn(c) ==
    LET points == line(c.x1, c.y1, c.x2, c.y2)
    IN  frame = Paint(points \cap Screen, c.color) /\ Sloped(points, c.x1, c.y1, c.x2, c.y2)

\* The glyph in the colour of the text (in the other one with NoBackground), and the
\* columns behind it, those that there are, empty.
GlyphDrawn(c) ==
    LET there == {p \in Screen : <<p[1] - c.x, p[2] - c.y>> \in c.glyph}
        behind == {p \in Screen : /\ p[1] \in c.x + c.charW .. c.x + c.charW + c.charSpacing - 1
                                  /\ p[2] \in c.y .. c.y + c.fontHeight - 1}
        whole == c.x + c.charW <= Width
    IN  frame = IF c.x >= Width \/ (~whole /\ "AllowPartial" \notin c.flags) THEN before
                ELSE IF "NoBackground" \in c.flags THEN Paint(there, ~c.color)
                ELSE Paint(there, c.color) \ behind

\* A call changes the pixels of its shape, all of them and no others.
ShapesDrawn ==
    /\ call.f = "rect" => RectDrawn(call.args)
    /\ call.f = "hLine" => HLineDrawn(call.args)
    /\ call.f = "vLine" => VLineDrawn(call.args)
    /\ call.f = "pixel" => PixelDrawn(call.args)
    /\ call.f = "line" => LineDrawn(call.args)
    /\ call.f = "glyph" => GlyphDrawn(call.args)
=============================================================================
