----------------------------- MODULE TextRender -----------------------------
(***************************************************************************)
(* Text on a colour display: st7735/framebuf.hpp, font.hpp,                *)
(* fontRenderColor.hpp and textRender.hpp. The frame buffer is the memory  *)
(* of FrameBufferColor; `pixels` maps its cells, counted from 0, to        *)
(* colours. A glyph is a font's columns, each the set of its lit rows, at  *)
(* most 8 of them: of a higher glyph that is cut, blitMonoVscan takes the  *)
(* lower rows from the wrong columns. Nothing is cut off at the bottom.    *)
(***************************************************************************)
EXTENDS Integers, Sequences, SequencesExt, FiniteSetsExt

CONSTANTS mWidth, mHeight, Fg, Bg

\* codeToIdx: firstCode .. lastCode, then further ranges in ascending order.
codeToIdx(font, code) ==
    LET fits == {i \in DOMAIN font.ranges : code <= font.ranges[i].lastCode}
        range == font.ranges[Min(fits)]
    IN  CASE code < font.firstCode -> -1
          [] code \in font.firstCode .. font.lastCode -> code - font.firstCode
          [] OTHER -> IF fits = {} \/ code < range.firstCode THEN -1
                      ELSE code - range.firstCode + range.startIdx

\* getCharData: the columns from the offset where the glyph before it ends. A
\* monospaced font has no offsets.
getCharData(font, code) ==
    LET idx == codeToIdx(font, code)
        from == IF font.offsets = <<>> THEN font.width * idx
                ELSE IF idx = 0 THEN 0 ELSE font.offsets[idx]
        to == IF font.offsets = <<>> THEN from + font.width ELSE font.offsets[idx + 1]
    IN  SubSeq(font.columns, from + 1, to)
-----------------------------------------------------------------------------
\* The window of the frame buffer that pixels are sent to.

setWriteWindow(x, y, w, h) ==
    [next |-> y * mWidth + x, lineEnd |-> y * mWidth + x + w, winEnd |-> (y + h - 1) * mWidth + x + w,
     width |-> w, skip |-> mWidth - w]

Wrap(win) == [win EXCEPT !.next = @ + win.skip, !.lineEnd = win.next + win.skip + win.width]
WrapNoSkip(win) == [win EXCEPT !.lineEnd = @ + win.width]
NextLine(win) == Wrap(win)

\* The last pixel makes mNextPixel null; -1 stands for that.
sendNextPixel(fb, color) ==
    LET sent == [fb.win EXCEPT !.next = @ + 1]
        wrapped == IF sent.next >= sent.lineEnd THEN NextLine(sent) ELSE sent
    IN  [pixels |-> [fb.pixels EXCEPT ![fb.win.next] = color],
         win |-> IF sent.next >= sent.lineEnd /\ wrapped.next >= sent.winEnd
                 THEN [wrapped EXCEPT !.next = -1, !.lineEnd = -1] ELSE wrapped]

fillRectFrom(pixels, x, y, w, h, color) ==
    [cell \in DOMAIN pixels |->
        IF cell % mWidth \in x .. x + w - 1 /\ cell \div mWidth \in y .. y + h - 1
        THEN color ELSE pixels[cell]]
-----------------------------------------------------------------------------
\* One character. The result is what becomes of the frame buffer, how many
\* columns were used, and "error", "partial", "newline" or "ok".

\* blitMonoVscan: each row `scale` times, each of its columns `scale` times,
\* then the spacing.
Vscan(glyph, height, spacing, scale) ==
    LET Line(row) == FlattenSeq([c \in DOMAIN glyph |->
                         [i \in 1 .. scale |-> IF row \in glyph[c] THEN Fg ELSE Bg]])
                     \o [i \in 1 .. spacing |-> Bg]
    IN  FlattenSeq([i \in 1 .. height * scale |-> Line((i - 1) \div scale)])

\* A glyph that does not fit is cut, with a column to spare, and loses its spacing.
PartialRoom(x) == mWidth - x - 1

putc(pixels, font, scale, code, x, y, allowPartial, startCol) ==
    LET glyph == getCharData(font, code)
        rest == Len(glyph) - startCol
        gap == (rest + font.charSpacing) * scale
        scaledH == font.height * scale
        fits == x + rest * scale <= mWidth
        width == IF fits THEN rest ELSE PartialRoom(x) \div scale
        spacing == IF ~fits THEN 0 ELSE Min({font.charSpacing * scale, mWidth - x - rest * scale})
        total == width * scale + spacing
        sent == FoldLeft(sendNextPixel,
                         [pixels |-> pixels, win |-> setWriteWindow(x, y, total, scaledH)],
                         Vscan(SubSeq(glyph, startCol + 1, startCol + width), font.height, spacing, scale))
        Result(p, used, status) == [pixels |-> p, used |-> used, status |-> status]
    IN  CASE y >= mHeight \/ x >= mWidth \/ codeToIdx(font, code) < 0 -> Result(pixels, 0, "error")
          [] OTHER ->
             IF startCol > 0 /\ rest <= 0
             THEN IF gap <= 0 THEN Result(pixels, 0, "newline")
                  ELSE Result(fillRectFrom(pixels, x, y, Min({gap, mWidth - x}), scaledH, Bg),
                              Min({gap, mWidth - x}), "ok")
             ELSE IF ~fits /\ (~allowPartial \/ PartialRoom(x) < 0) THEN Result(pixels, 0, "newline")
             ELSE Result(sent.pixels, total, IF ~fits THEN "partial" ELSE IF total = 0 THEN "newline" ELSE "ok")
-----------------------------------------------------------------------------
\* Strings: a sequence of bytes, without the terminating 0, which is what a read
\* past the end finds.

ByteAt(s, i) == IF i > Len(s) THEN 0 ELSE s[i]
IsTail(b) == b \in 128 .. 191

\* utf8ToWchar: the character and the position after it, or 0 for an error. Of
\* four bytes the last is taken for a truth value (textRender.hpp:104).
TwoBytes(b0, b1) == (b0 % 32) * 64 + (b1 % 64)
ThreeBytes(b0, b1, b2) == (b0 % 16) * 4096 + (b1 % 64) * 64 + (b2 % 64)

utf8ToWchar(s, i) ==
    LET b0 == ByteAt(s, i)
        b1 == ByteAt(s, i + 1)
        b2 == ByteAt(s, i + 2)
        b3 == ByteAt(s, i + 3)
    IN  CASE b0 < 128 -> IF b0 = 0 THEN <<0, 0>> ELSE <<b0, i + 1>>
          [] OTHER -> IF ~IsTail(b1) THEN <<0, 0>>
                      ELSE IF b0 \in 192 .. 223 THEN <<TwoBytes(b0, b1), i + 2>>
                      ELSE IF ~IsTail(b2) THEN <<0, 0>>
                      ELSE IF b0 \in 224 .. 239 THEN <<ThreeBytes(b0, b1, b2), i + 3>>
                      ELSE IF b0 \notin 240 .. 247 \/ ~IsTail(b3) THEN <<0, 0>>
                      ELSE <<1, i + 4>>

\* The same walk; what it counts is the characters before the first error.
RECURSIVE utf8strlen(_, _)
utf8strlen(s, i) == IF utf8ToWchar(s, i)[2] = 0 THEN 0 ELSE 1 + utf8strlen(s, utf8ToWchar(s, i)[2])

\* textWidth of a monospaced font, which counts the spacing after the last one.
textWidth(font, s) == utf8strlen(s, 1) * (font.width + font.charSpacing)

\* puts, from byte i on: the pixels, the cursor, how many characters were drawn,
\* and whether it returned true. The text has been advanced past a character when
\* that turns out to need a new line.
RECURSIVE putsFrom(_, _, _, _, _)
putsFrom(s, i, at, font, flags) ==
    LET char == IF "DisableUtf8" \in flags \/ s[i] < 128 THEN <<s[i], i + 1>> ELSE utf8ToWchar(s, i)
        put == putc(at.pixels, font, 1, char[1], at.x, at.y, "AllowPartial" \in flags, 0)
        Line == [at EXCEPT !.x = 0, !.y = @ + font.height + font.lineSpacing]
        Drawn == [at EXCEPT !.pixels = put.pixels, !.x = @ + put.used, !.drawn = @ + 1]
        Failed == [at EXCEPT !.ok = FALSE]
    IN  CASE i > Len(s) -> at
          [] s[i] = 10 -> putsFrom(s, i + 1, Line, font, flags)
          [] OTHER ->
             CASE char[2] = 0 \/ put.status = "error" -> Failed
               [] put.status = "partial" -> Drawn
               [] put.status = "ok" -> putsFrom(s, char[2], Drawn, font, flags)
               [] OTHER -> IF "NoAutoNewline" \in flags THEN at
                           ELSE putsFrom(s, char[2], Line, font, flags)

puts(s, pixels, font, x, y, flags) ==
    putsFrom(s, 1, [pixels |-> pixels, x |-> x, y |-> y, drawn |-> 0, ok |-> TRUE], font, flags)

putsCentered(s, pixels, font, x, y, reserveRight) ==
    LET padding == (mWidth - x - reserveRight - textWidth(font, s)) \div 2
    IN  puts(s, pixels, font, x + Max({padding, 0}), y, {"NoAutoNewline", "AllowPartial"})
=============================================================================
