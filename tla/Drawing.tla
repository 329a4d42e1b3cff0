------------------------------- MODULE Drawing -------------------------------
(***************************************************************************)
(* st7735/framebufMono.hpp, the lines of gfx.hpp and fontRenderMono.hpp.   *)
(* The monochrome frame buffer has a byte for eight pixels of a column,    *)
(* the lowest bit on top; bytes of one page lie side by side. A frame is   *)
(* the set of <<x, y>> that are lit, a byte is <<x, page>>, a mask is a    *)
(* set of bits 0 .. 7, and a shape is the set of pixels an operation hits. *)
(***************************************************************************)
EXTENDS Integers, Sequences

CONSTANTS Width, Height     \* Height is a multiple of 8

constrain(v, max) == IF v < 0 THEN 0 ELSE IF v >= max THEN max - 1 ELSE v
Smaller(a, b) == IF a < b THEN a ELSE b

\* The pixels of w bytes from <<x, page>> on that this mask selects.
PageBits(x, page, w, mask) == {<<i, 8 * page + bit>> : i \in x .. x + w - 1, bit \in mask}

\* The pages behind the first one: of the rows that remain each takes eight, and
\* the last one what is left.
LowerPages(x, page, w, rows) ==
    UNION {PageBits(x, page + k, w, 0 .. Smaller(8, rows - 8 * k) - 1) : k \in 0 .. (rows - 1) \div 8}

\* From y on, h rows of w bytes, the first page from bit yoffs on.
bitOpRect(ax, ay, aw, ah) ==
    LET x == constrain(ax, Width)
        y == constrain(ay, Height)
        w == Smaller(aw, Width - x)
        h == Smaller(ah, Height - y)
        yoffs == y % 8
        first == Smaller(h, 8 - yoffs)
    IN  PageBits(x, y \div 8, w, yoffs .. yoffs + first - 1) \cup
        (IF first >= h THEN {} ELSE LowerPages(x, y \div 8 + 1, w, h - first))

Screen == (0 .. Width - 1) \X (0 .. Height - 1)
fill(color) == IF color THEN Screen ELSE {}

\* setPageBits, clearPageBits and invertPageBits, for a shape
fillRect(frame, shape, color) == IF color THEN frame \cup shape ELSE frame \ shape
invertRect(frame, shape) == (frame \ shape) \cup (shape \ frame)

setPixel(frame, x, y, color) ==
    IF x \notin 0 .. Width - 1 \/ y \notin 0 .. Height - 1 THEN frame
    ELSE fillRect(frame, PageBits(x, y \div 8, 1, {y % 8}), color)

hLine(frame, ax1, ax2, y, color) ==
    LET x1 == constrain(ax1, Width)
        x2 == constrain(ax2, Width)
        from == Smaller(x1, x2)
        len == x1 + x2 - 2 * from + 1
    IN  IF y \notin 0 .. Height - 1 THEN frame
        ELSE fillRect(frame, PageBits(from, y \div 8, len, {y % 8}), color)

\* Clearing a line that goes over several pages leaves its first and last byte.
vLine(frame, ay1, ay2, x, color) ==
    LET c1 == constrain(ay1, Height)
        c2 == constrain(ay2, Height)
        y1 == Smaller(c1, c2)
        y2 == c1 + c2 - y1
        p1 == y1 \div 8
        p2 == y2 \div 8
        mask1 == y1 % 8 .. 7
        mask2 == 0 .. y2 % 8
        between == UNION {PageBits(x, p, 1, 0 .. 7) : p \in p1 + 1 .. p2 - 1}
    IN  IF x \notin 0 .. Width - 1 THEN frame
        ELSE IF p1 = p2 THEN fillRect(frame, PageBits(x, p1, 1, mask1 \cap mask2), color)
        ELSE IF color
             THEN frame \cup PageBits(x, p1, 1, mask1) \cup PageBits(x, p2, 1, mask2) \cup between
             ELSE frame \ between
-----------------------------------------------------------------------------
\* Gfx::line, the sloped ones: from u = 0 to du, stepping v by one whenever the
\* error di is not negative. For a steep line u is y. The points <<u, v>>.

FirstError(du, dv) == 2 * dv - du
NoFirstError(du, dv) == 0
StartError(du, dv) == FirstError(du, dv)

\* v and di at each u.
Walk(du, dv) ==
    LET At[u \in Nat] ==
            IF u = 0 THEN <<0, StartError(du, dv)>>
            ELSE IF At[u - 1][2] < 0 THEN <<At[u - 1][1], At[u - 1][2] + 2 * dv>>
            ELSE <<At[u - 1][1] + 1, At[u - 1][2] + 2 * dv - 2 * du>>
    IN  At
Steps(du, dv) == LET at == Walk(du, dv) IN {<<u, at[u][1]>> : u \in 0 .. du}

line(x1, y1, x2, y2) ==
    LET sx == IF x2 > x1 THEN 1 ELSE -1
        sy == IF y2 > y1 THEN 1 ELSE -1
        dx == (x2 - x1) * sx
        dy == (y2 - y1) * sy
    IN  IF dx >= dy
        THEN {<<x1 + sx * p[1], y1 + sy * p[2]>> : p \in Steps(dx, dy)}
        ELSE {<<x1 + sx * p[2], y1 + sy * p[1]>> : p \in Steps(dy, dx)}

\* Each point is drawn with setPixel.
drawLine(frame, x1, y1, x2, y2, color) == fillRect(frame, line(x1, y1, x2, y2) \cap Screen, color)
-----------------------------------------------------------------------------
\* FontRenderMono::putc: a glyph, the set of its <<column, row>>, is copied page
\* by page. The pages of the font and those of the frame are not aligned: each
\* turn copies as many rows as remain in both. With kFlagNoBackground each byte
\* is drawn and then cleared by the same bits, or the other way round.

\* The rows from src of the font's page rPage, put at dest of the frame's wPage.
Blit(glyph, x, drawW, rPage, src, wPage, dest, rows) ==
    {<<x + p[1], 8 * wPage + dest + (p[2] - 8 * rPage - src)>> :
        p \in {q \in glyph : q[1] < drawW /\ q[2] - 8 * rPage \in src .. src + rows - 1}}

Advance(pos, page) == IF pos = 0 THEN page + 1 ELSE page

\* The state of the loop: how many rows are done, and the two pages.
Start(y, first) == [nRows |-> first, r |-> 0, w |-> y \div 8]
Advanced(at, y, totalRows) ==
    LET src == at.nRows % 8
        dest == (y + at.nRows) % 8
    IN  [src |-> src, dest |-> dest, r |-> Advance(src, at.r), w |-> Advance(dest, at.w),
         avail |-> Smaller(Smaller(8 - src, 8 - dest), totalRows - at.nRows)]
Turn(at, y, totalRows) ==
    LET to == Advanced(at, y, totalRows) IN [nRows |-> at.nRows + to.avail, r |-> to.r, w |-> to.w]
Turns(y, first, totalRows) ==
    LET At[k \in Nat] == IF k = 0 THEN Start(y, first) ELSE Turn(At[k - 1], y, totalRows) IN At

BlitTurn(glyph, x, y, drawW, at, totalRows) ==
    LET to == Advanced(at, y, totalRows)
    IN  IF at.nRows >= totalRows THEN {} ELSE Blit(glyph, x, drawW, to.r, to.src, to.w, to.dest, to.avail)
BlitFrom(glyph, x, y, drawW, first, totalRows) ==
    LET at == Turns(y, first, totalRows)
    IN  UNION {BlitTurn(glyph, x, y, drawW, at[k], totalRows) : k \in 0 .. totalRows}

\* Behind a glyph drawn whole, the spacing is cleared as far as the display goes.
putc(frame, glyph, charW, charSpacing, fontHeight, x, y, flags, fgColor) ==
    LET drawW == Smaller(charW, Width - x)
        totalRows == Smaller(fontHeight, Height - y)
        first == Smaller(totalRows, 8 - (y % 8))
        shape == Blit(glyph, x, drawW, 0, 0, y \div 8, y % 8, first) \cup
                 BlitFrom(glyph, x, y, drawW, first, totalRows)
        drawn == fillRect(frame, shape, fgColor # ("NoBackground" \in flags))
    IN  IF y >= Height \/ x >= Width \/ (drawW < charW /\ "AllowPartial" \notin flags) THEN frame
        ELSE IF drawW < charW \/ "NoBackground" \in flags THEN drawn
        ELSE drawn \ bitOpRect(x + drawW, y, Smaller(Width - x - drawW, charSpacing), fontHeight)
=============================================================================
