---------------------------- MODULE MCAlgorithms ----------------------------
(***************************************************************************)
(* The sequential algorithms, each called with every input of a small set  *)
(* and compared with a definition of what it is for. `call` is the call    *)
(* that was made last, and its arguments.                                  *)
(***************************************************************************)
EXTENDS Integers, Sequences, FiniteSets, SequencesExt, Functions

CONSTANTS MaxName, mWidth, mHeight, Fg, Bg

VARIABLE call

P == INSTANCE Parsers
T == INSTANCE ToString
R == INSTANCE TextRender
I == INSTANCE DeviceInfo

UpTo(S, n) == UNION {[1 .. m -> S] : m \in 0 .. n}
AtMost(a, b) == IF a <= b THEN a ELSE b
-----------------------------------------------------------------------------
\* Parsers: pairs, of whose keys and values only what has a meaning for the
\* parser is escaped; numbers; the parts of a URL.

Escaped(s) == FlattenSeq([i \in DOMAIN s |->
    IF s[i] \in {P!Amp, P!Percent} THEN <<P!Percent>> \o P!binToHex(<<s[i]>>, <<>>) ELSE <<s[i]>>])
Query(pairs) == FlattenSeq([i \in DOMAIN pairs |->
    (IF i = 1 THEN <<>> ELSE <<P!Amp>>) \o pairs[i][1] \o <<P!Equals>> \o Escaped(pairs[i][2])])

Keys == {<<97>>, <<32, 65, 32>>}
Vals == UpTo({97, P!Equals, P!Amp, P!Percent, P!Space}, 2)

ParsePairs == \E pairs \in UpTo(Keys \X Vals, 2) : call' = [f |-> "parse", pairs |-> pairs]

ConvertBytes == \E bytes \in UpTo({0, 9, 26, 255}, 3), delim \in {<<>>, <<P!Colon>>} :
    call' = [f |-> "hex", bytes |-> bytes, delim |-> delim]

SplitUrl == \E host \in {<<104>>, <<104, 104>>}, dir \in UpTo({97}, 1), file \in UpTo({98, 46}, 2),
               query \in {<<>>, <<P!Question>>, <<P!Question, 97>>}, scheme \in {<<>>, <<120, 58, 47, 47>>} :
    call' = [f |-> "url", scheme |-> scheme, host |-> host, dir |-> dir, file |-> file, query |-> query]

ParseNumber == \E val \in {-12, -1, 0, 1, 9, 10, 171} :
    call' = [f |-> "number", val |-> val, chars |-> Front(T!Signed(12, val, 10, {}, 0, 0).text)]

\* A value in which nothing was escaped comes back with its length. Of any other the
\* length is that of the escaped text, where utils-parse.hpp:71-73 says the text's:
\* only the text up to its end is claimed.
SameValue(parsed, val) ==
    /\ Escaped(val) = val => parsed = val
    /\ Escaped(val) # val => P!CString(parsed) = val

PairsComeBack(pairs) ==
    /\ LET parsed == P!parse(Query(pairs), {"UrlUnescape"})
       IN  /\ Len(parsed) = Len(pairs)
           /\ \A i \in DOMAIN pairs : parsed[i][1] = pairs[i][1] /\ SameValue(parsed[i][2], pairs[i][2])
    /\ \A i \in DOMAIN pairs : (\A j \in 1 .. i - 1 : pairs[j][1] # pairs[i][1]) =>
        SameValue(P!strVal(P!UrlParams(Query(pairs)), pairs[i][1]), pairs[i][2])
    /\ LET lower == P!parse(Query(pairs), {"UrlUnescape", "KeysToLower"})
       IN  \A i \in DOMAIN pairs : lower[i][1] = P!ToLower(pairs[i][1])

\* jsonStringEscape leaves a text alone in which nothing needs an escape. What it does
\* to any other, which gets a 0 and no backslash, is not claimed to be right.
JsonLeavesAlone(str) ==
    (\A i \in DOMAIN str : str[i] \notin 8 .. 13 \cup {34, 92}) => P!jsonStringEscape(str) = str

BytesComeBack(bytes, delim) ==
    LET hex == P!binToHex(bytes, delim)
        digits == SelectSeq(hex, LAMBDA c : c # P!Colon)
    IN  /\ P!hexToBin(digits, Len(bytes)) = bytes
        /\ P!hexToBin(P!numToHex(bytes), Len(bytes)) = Reverse(bytes)
        /\ Len(hex) = Len(bytes) * (2 + Len(delim))
        /\ JsonLeavesAlone(P!CString(bytes))

\* Of the file's name only where it is in the URL is claimed: urlGetFile counts the
\* character behind it in, where utils-parse.hpp:35 says that a length does not.
UrlIsSplit(c) ==
    LET path == <<P!Slash>> \o c.dir \o <<P!Slash>> \o c.file
        url == c.scheme \o c.host \o path \o c.query
        slashes == IF c.scheme = <<>> THEN 0 ELSE 2
        Ends(e) == \E n \in 0 .. Len(c.file) : SubSeq(c.file, n + 1, Len(c.file)) = <<P!Dot>> \o e
    IN  /\ P!urlGetHost(url) = c.host
        /\ P!pathDirLen(path) = Len(c.dir) + 1
        /\ LET ext == P!fileGetExtension(c.file)
           IN  IF ext = <<-1>> THEN ~Contains(c.file, P!Dot) ELSE Ends(ext) /\ ~Contains(ext, P!Dot)
        /\ IsPrefix(c.file, P!urlGetFile(url))
        /\ P!urlGetPathAfterSlashCnt(url, slashes) = path \o c.query
        /\ P!urlGetPathAfterSlashCnt(url, slashes + 2) = <<-1>>

NumberComesBack(chars, val) ==
    /\ P!strToInt(chars, 99) = val /\ P!parseInt(chars \o <<P!Slash>>, 99) = val
    /\ P!intVal(<<<<<<97>>, chars>>>>, <<97>>, 99) = val

\* What was formatted is parsed back (utils-parse.cpp, UrlParams in utils.cpp):
\* pairs from a query whose values hold any delimiter, bytes from their
\* hexadecimal digits, the parts of a URL from the whole, numbers from their text.
\* Not claimed are the lengths of an unescaped value and of a URL's file, which are
\* wrong, and texts that JSON escapes (SameValue, UrlIsSplit, JsonLeavesAlone).
ParseUndoesFormat ==
    /\ call.f = "parse" => PairsComeBack(call.pairs)
    /\ call.f = "hex" => BytesComeBack(call.bytes, call.delim)
    /\ call.f = "url" => UrlIsSplit(call)
    /\ call.f = "number" => NumberComesBack(call.chars, call.val)
-----------------------------------------------------------------------------
\* TextRender: two fonts of two rows, one of them with glyphs of 1 to 3 columns;
\* a column that is lit in no row, one in the first and one in both.

Ranges == <<[firstCode |-> 1040, lastCode |-> 1040, startIdx |-> 2],
            [firstCode |-> 8364, lastCode |-> 8364, startIdx |-> 3]>>
Mono == [width |-> 2, height |-> 2, charSpacing |-> 1, lineSpacing |-> 0, firstCode |-> 65, lastCode |-> 66,
         ranges |-> Ranges, offsets |-> <<>>,
         columns |-> <<{0}, {0, 1}, {1}, {}, {0, 1}, {1}, {}, {0}>>]
Proportional == [Mono EXCEPT !.offsets = <<1, 4, 6, 8>>]
Codes == {10, 65, 66, 1040, 8364}
Blank == [cell \in 0 .. mWidth * mHeight - 1 |-> 3]

Puts == \E codes \in UpTo(Codes, 3), font \in {Mono, Proportional}, x \in {0, 1},
           flags \in {{}, {"AllowPartial"}, {"NoAutoNewline"}} :
    call' = [f |-> "puts", codes |-> codes, font |-> font, x |-> x, flags |-> flags]
PutsCentered == \E codes \in UpTo(Codes \ {10}, 2), x \in 0 .. 2, right \in 0 .. 1 :
    call' = [f |-> "center", codes |-> codes, x |-> x, right |-> right]
Putc == \E code \in Codes \cup {64, 1041}, font \in {Mono, Proportional}, scale \in 1 .. 2,
           x \in 0 .. mWidth, partial \in BOOLEAN, startCol \in 0 .. 3 :
    call' = [f |-> "putc", code |-> code, font |-> font, scale |-> scale, x |-> x,
             partial |-> partial, startCol |-> startCol]

Utf8(code) ==
    IF code < 128 THEN <<code>>
    ELSE IF code < 2048 THEN <<192 + (code \div 64), 128 + (code % 64)>>
    ELSE <<224 + (code \div 4096), 128 + ((code \div 64) % 64), 128 + (code % 64)>>
Bytes(codes) == FlattenSeq([i \in DOMAIN codes |-> Utf8(codes[i])])

\* The columns of a character, and all of it on the screen: lit cells and others.
NthCode(i) == <<65, 66, 1040, 8364>>[i]
Columns(font, code) ==
    LET i == CHOOSE n \in 1 .. 4 : NthCode(n) = code
    IN  IF font = Mono THEN SubSeq(font.columns, 2 * i - 1, 2 * i)
        ELSE SubSeq(font.columns, <<1, 2, 5, 7>>[i], <<1, 4, 6, 8>>[i])

\* A glyph on the screen: its columns, where it is, and how wide the gap behind is.
Cells(g, scale) ==
    LET wide == Len(g.columns) * scale
    IN  [cell \in {(g.y + dy) * mWidth + g.x + dx : dx \in 0 .. wide + g.gap - 1, dy \in 0 .. 2 * scale - 1} |->
            LET dx == (cell % mWidth) - g.x
                dy == (cell \div mWidth) - g.y
            IN  IF dx < wide /\ dy \div scale \in g.columns[dx \div scale + 1] THEN Fg ELSE Bg]

Gap(room, spacing) == AtMost(room, spacing)

\* Where the characters go, one after the other, and how many rows that settles: up
\* to a line that puts breaks by itself. The character there is to be retried on the
\* next line (textRender.hpp:37) but is lost, so nothing is claimed below.
RECURSIVE Layout(_, _, _, _, _)
Layout(codes, x, y, font, flags) ==
    LET columns == Columns(font, Head(codes))
        next == x + Len(columns)
        gap == Gap(mWidth - next, font.charSpacing)
        Settled(rows) == [glyphs |-> <<>>, rows |-> rows]
        Glyph(w, g, rest) ==
            [rest EXCEPT !.glyphs = <<[x |-> x, y |-> y, columns |-> SubSeq(columns, 1, w), gap |-> g]>> \o @]
    IN  CASE codes = <<>> -> Settled(mHeight)
          [] OTHER ->
             CASE Head(codes) = 10 -> Layout(Tail(codes), 0, y + font.height, font, flags)
               [] x >= mWidth \/ y >= mHeight -> Settled(mHeight)
               [] Head(codes) # 10 /\ x < mWidth /\ y < mHeight ->
                  IF next <= mWidth THEN Glyph(Len(columns), gap, Layout(Tail(codes), next + gap, y, font, flags))
                  ELSE IF "AllowPartial" \in flags THEN Glyph(mWidth - x - 1, 0, Settled(mHeight))
                  ELSE IF "NoAutoNewline" \in flags THEN Settled(mHeight)
                  ELSE Settled(y + font.height)

Drawn(layout) == FoldLeft(LAMBDA pixels, g : Cells(g, 1) @@ pixels, Blank, layout.glyphs)
Above(pixels, rows) == Restrict(pixels, {cell \in DOMAIN pixels : cell \div mWidth < rows})

TextLaidOut(c) ==
    LET layout == Layout(c.codes, c.x, 0, c.font, c.flags)
    IN  Above(R!puts(Bytes(c.codes), Blank, c.font, c.x, 0, c.flags).pixels, layout.rows)
        = Above(Drawn(layout), layout.rows)

Centered(c) ==
    LET free == mWidth - c.x - c.right - 3 * Len(c.codes)
        x == c.x + (IF free < 0 THEN 0 ELSE free \div 2)
    IN  R!putsCentered(Bytes(c.codes), Blank, Mono, c.x, 0, c.right).pixels
        = Drawn(Layout(c.codes, x, 0, Mono, {"AllowPartial", "NoAutoNewline"}))

\* One character, of a size: from one of its columns on, or only the gap behind it.
CharDrawn(c) ==
    LET put == R!putc(Blank, c.font, c.scale, c.code, c.x, 0, c.partial, c.startCol)
        columns == Columns(c.font, c.code)
        rest == SubSeq(columns, c.startCol + 1, Len(columns))
        wide == Len(rest) * c.scale
        free == mWidth - c.x
        gap == Gap(free - wide, (Len(columns) + 1 - c.startCol - Len(rest)) * c.scale)
    IN  CASE c.code \notin Codes \ {10} \/ free = 0 -> put.status = "error" /\ put.pixels = Blank
          [] OTHER ->
             CASE c.startCol > Len(columns) -> put.status = "newline" /\ put.pixels = Blank
               [] c.startCol <= Len(columns) /\ wide <= free ->
                  put.pixels = Cells([x |-> c.x, y |-> 0, columns |-> rest, gap |-> gap], c.scale) @@ Blank
               [] wide > free ->
                  IF c.partial
                  THEN put.pixels = Cells([x |-> c.x, y |-> 0, gap |-> 0,
                                           columns |-> SubSeq(rest, 1, (free - 1) \div c.scale)], c.scale) @@ Blank
                  ELSE put.status = "newline" /\ put.pixels = Blank

\* Every pixel of a text is where the layout of its characters, of one to three
\* bytes, puts it, and no other pixel of the display changes: though the glyphs
\* go out as a stream of colours through write windows of any width. Not claimed is
\* what is below a line that breaks by itself (Layout).
TextLands ==
    /\ call.f = "puts" => TextLaidOut(call)
    /\ call.f = "center" => Centered(call)
    /\ call.f = "putc" => CharDrawn(call)
-----------------------------------------------------------------------------
\* DeviceInfo: the properties in any order, also more than one of a type.

Uuid16 == <<10, 24>>
Props == <<[type |-> "COD", val |-> 5], [type |-> "RSSI", val |-> 7], [type |-> "UNKNOWN", val |-> 0],
           [type |-> "BDNAME", val |-> <<1>>], [type |-> "BDNAME", val |-> <<>>],
           [type |-> "EIR", val |-> "CMPL_NAME" :> <<2, 2, 2, 2>> @@ "SHORT_NAME" :> <<2>>],
           [type |-> "EIR", val |-> "SHORT_NAME" :> <<3>>],
           [type |-> "EIR", val |-> "INCMPL_16" :> Uuid16 @@ "CMPL_NAME" :> <<4>>],
           [type |-> "EIR", val |-> "CMPL_16" :> Uuid16 \o Uuid16 @@ "CMPL_NAME" :> <<5>>],
           [type |-> "EIR", val |-> "CMPL_32" :> <<1, 2, 3, 4>>]>>

DescribeDevice == \E chosen \in UpTo(DOMAIN Props, 3) : call' = [f |-> "device", chosen |-> chosen]
DescribeClass == \E major \in 0 .. 7, minor \in 0 .. 63 : call' = [f |-> "class", major |-> major, minor |-> minor]
DescribeBle == \E adv \in UNION {[types -> UpTo({1, 2}, 2) \ UpTo({1, 2}, 1)] :
                                    types \in SUBSET {"CMPL_NAME", "SHORT_NAME", "CMPL_16", "APPEARANCE"}} :
    call' = [f |-> "ble", adv |-> adv]
PrintUuid == \E n \in {2, 3, 4, 16}, start \in 0 .. 3 :
    call' = [f |-> "uuid", uuid |-> [i \in 1 .. n |-> (start + 7 * i) % 256]]

OwnUuid(prop) ==
    IF prop.type # "EIR" THEN {}
    ELSE {prop.val[t] : t \in {u \in DOMAIN prop.val : \/ u = "INCMPL_16" /\ Len(prop.val[u]) = 2
                                                       \/ u = "CMPL_16" /\ Len(prop.val[u]) = 2
                                                       \/ u = "CMPL_32" /\ Len(prop.val[u]) = 4}}
NamesOf(eir) == DOMAIN eir \cap {"CMPL_NAME", "SHORT_NAME"}
OwnName(prop) ==
    CASE prop.type = "BDNAME" -> prop.val
      [] prop.type = "EIR" /\ NamesOf(prop.val) # {} ->
         LET full == prop.val[IF "CMPL_NAME" \in DOMAIN prop.val THEN "CMPL_NAME" ELSE "SHORT_NAME"]
         IN  SubSeq(full, 1, AtMost(Len(full), MaxName))
      [] OTHER -> <<>>

\* In a response that has a UUID no name is looked for. Then no name is claimed.
NameIsMissed(prop) == prop.type = "EIR" /\ OwnUuid(prop) # {} /\ NamesOf(prop.val) # {}

DeviceDescribed(chosen) ==
    LET props == [i \in DOMAIN chosen |-> Props[chosen[i]]]
        device == I!FromClassic(props)
        named == SelectSeq(props, LAMBDA p : OwnName(p) # <<>>)
        numbered == SelectSeq(props, LAMBDA p : OwnUuid(p) # {})
        Of(type) == SelectSeq(props, LAMBDA p : p.type = type)
    IN  /\ \/ \E i \in DOMAIN props : NameIsMissed(props[i])
           \/ device.name = IF named = <<>> THEN <<>> ELSE OwnName(Head(named))
        /\ IF numbered = <<>> THEN device.uuid = <<>> ELSE device.uuid \in OwnUuid(Last(numbered))
        /\ device.cod = IF Of("COD") = <<>> THEN 0 ELSE 5
        /\ device.rssi = IF Of("RSSI") = <<>> THEN 0 ELSE 7

ClassDescribed(c) ==
    LET words == I!codInfo(c.major, c.minor)
    IN  /\ I!isPeripheral(c.major, c.minor, I!Keyboard) <=> Contains(words, "KEYBOARD")
        /\ I!isPeripheral(c.major, c.minor, I!Mouse) <=> Contains(words, "MOUSE")

BleDescribed(adv) ==
    LET device == I!FromBle(adv, 7)
        names == DOMAIN adv \cap {"CMPL_NAME", "SHORT_NAME"}
    IN  /\ device.name = IF names = {} THEN <<>>
                         ELSE adv[IF "CMPL_NAME" \in names THEN "CMPL_NAME" ELSE "SHORT_NAME"]
        /\ device.uuid = IF "CMPL_16" \in DOMAIN adv THEN adv["CMPL_16"][1] + 256 * adv["CMPL_16"][2] ELSE 0

UuidPrinted(uuid) ==
    SelectSeq(I!uuid2str(uuid), LAMBDA x : x # I!Dash) = IF Len(uuid) = 3 THEN <<>> ELSE Reverse(uuid)

\* Whatever the order of its properties, a device is called by the first name it
\* gives, in full, and known by the last UUID; what is printed of its class and
\* its UUID says the same as what the program asks of them (bluetooth.cpp). Of a
\* device that gives a name next to a UUID no name is claimed (NameIsMissed).
DescribesDevice ==
    /\ call.f = "device" => DeviceDescribed(call.chosen)
    /\ call.f = "class" => ClassDescribed(call)
    /\ call.f = "ble" => BleDescribed(call.adv)
    /\ call.f = "uuid" => UuidPrinted(call.uuid)

\* What comes in from outside, queries, digits, URLs and the properties of devices,
\* is understood as it was meant.
InputsUnderstood == ParseUndoesFormat /\ DescribesDevice
-----------------------------------------------------------------------------
Init == call = [f |-> "none"]
First == call.f = "none"
Returns == ~First /\ call' = [f |-> "none"]

Next ==
    \/ First /\ ParsePairs
    \/ First /\ ConvertBytes
    \/ First /\ SplitUrl
    \/ First /\ ParseNumber
    \/ First /\ Puts
    \/ First /\ PutsCentered
    \/ First /\ Putc
    \/ First /\ DescribeDevice
    \/ First /\ DescribeClass
    \/ First /\ DescribeBle
    \/ First /\ PrintUuid
    \/ Returns

Spec == Init /\ [][Next]_call
=============================================================================
