------------------------------- MODULE Parsers -------------------------------
(***************************************************************************)
(* The conversions and parsers of mySystem/utils-parse. A character is its *)
(* code. A buffer of characters, which the parser overwrites in place, is  *)
(* a sequence; the C string in it ends at its first 0.                     *)
(***************************************************************************)
EXTENDS Integers, Sequences, FiniteSetsExt, SequencesExt

Space == 32  Percent == 37  Amp == 38  Dot == 46  Slash == 47  Colon == 58  Equals == 61  Question == 63

\* The first position from i on that holds one of these characters, or the end.
Find(s, chars, i) == Min({j \in i .. Len(s) : s[j] \in chars} \cup {Len(s) + 1})
FindNot(s, chars, i) == Min({j \in i .. Len(s) : s[j] \notin chars} \cup {Len(s) + 1})

CString(s) == SubSeq(s, 1, Find(s, {0}, 1) - 1)
-----------------------------------------------------------------------------
\* Hexadecimal digits.

HexDigit(n) == IF n < 10 THEN 48 + n ELSE 97 + n - 10
hexDigitVal(c) ==
    CASE c \in 48 .. 57 -> c - 48
      [] c \in 97 .. 102 -> c - 97 + 10
      [] c \in 65 .. 70 -> c - 65 + 10
      [] OTHER -> 255

\* A delimiter, if there is one, follows every byte, also the last.
binToHex(bytes, delim) ==
    LET w == 2 + Len(delim)
    IN  [i \in 1 .. w * Len(bytes) |->
            LET byte == bytes[(i - 1) \div w + 1]
            IN  CASE i % w = 1 -> HexDigit(byte \div 16)
                  [] i % w = 2 % w -> HexDigit(byte % 16)
                  [] OTHER -> delim[1]]

\* The bytes, or <<-1>> for false.
hexToBin(hex, binLen) ==
    IF Len(hex) # 2 * binLen \/ \E i \in DOMAIN hex : hexDigitVal(hex[i]) > 15 THEN <<-1>>
    ELSE [i \in 1 .. binLen |-> 16 * hexDigitVal(hex[2 * i - 1]) + hexDigitVal(hex[2 * i])]

\* From the most significant byte down: the value is stored little-endian.
numToHex(bytes) ==
    binToHex([i \in DOMAIN bytes |-> bytes[Len(bytes) + 1 - i]], <<>>)
-----------------------------------------------------------------------------
\* unescapeUrlParam writes the result over the text and a 0 behind it, if it is
\* shorter; what follows stays. An escape that is cut off reads what comes after
\* the text, a delimiter or the terminating 0, which is no digit either.

Unescaped(s) ==
    LET From[i \in Nat] ==
            IF i > Len(s) THEN <<>>
            ELSE IF s[i] # Percent THEN <<s[i]>> \o From[i + 1]
            ELSE <<16 * hexDigitVal(s[i + 1]) + hexDigitVal(s[i + 2])>> \o From[i + 3]
    IN  From[1]

EscapesAreWhole(s) ==
    LET WholeFrom[i \in Nat] ==
            LET j == Find(s, {Percent}, i)
            IN  \/ j > Len(s)
                \/ /\ j + 2 <= Len(s)
                   /\ hexDigitVal(s[j + 1]) <= 15 /\ hexDigitVal(s[j + 2]) <= 15
                   /\ WholeFrom[j + 3]
    IN  WholeFrom[1]

Overwrite(s, t) == IF Len(t) < Len(s) THEN t \o <<0>> \o SubSeq(s, Len(t) + 2, Len(s)) ELSE t
unescapeUrlParam(s) == Overwrite(s, Unescaped(s))

\* A null pointer is <<-1>>. A substring of one character becomes null.
Blank == {Space, 9}
trimSpaces(s) ==
    LET first == FindNot(s, Blank, 1)
        last == Max({j \in first .. Len(s) : s[j] \notin Blank} \cup {first})
    IN  IF first > Len(s) \/ last = first THEN <<-1>> ELSE SubSeq(s, first, last)

ToLower(s) == [i \in DOMAIN s |-> IF s[i] \in 65 .. 90 THEN s[i] + 32 ELSE s[i]]
-----------------------------------------------------------------------------
\* KeyValParser::parse, from position i on: the key-value pairs, after which
\* <<-1>> stands for false. White space before a key belongs to it; the last
\* pair is not trimmed.

ValueEnd(s, i) == Find(s, {Amp}, i)
ValueEndAnyDelim(s, i) == Find(s, {Amp, Equals}, i)
EndOfValue(s, i) == ValueEnd(s, i)

IsSpace == {Space} \cup 9 .. 13

\* The pair that begins at i, and where the next one does.
Pair(s, flags, i) ==
    LET equals == Find(s, {Equals}, FindNot(s, IsSpace, i))
        amp == EndOfValue(s, equals + 1)
        rawKey == SubSeq(s, i, equals - 1)
        rawVal == SubSeq(s, equals + 1, amp - 1)
        key == IF "KeysToLower" \in flags THEN ToLower(rawKey) ELSE rawKey
        unescapes == "UrlUnescape" \in flags
        whole == EscapesAreWhole(rawVal)
        val == IF unescapes /\ whole THEN unescapeUrlParam(rawVal) ELSE rawVal
        trim == "TrimSpaces" \in flags /\ amp <= Len(s)
    IN  [ok |-> equals <= Len(s) /\ (unescapes => whole),
         keyVal |-> IF trim THEN <<trimSpaces(key), trimSpaces(val)>> ELSE <<key, val>>,
         next |-> amp + 1]

parse(s, flags) ==
    LET From[i \in Nat] ==
            LET pair == Pair(s, flags, i)
            IN  IF FindNot(s, IsSpace, i) > Len(s) THEN <<>>
                ELSE IF ~pair.ok THEN <<<<-1>>>>
                ELSE <<pair.keyVal>> \o (IF pair.next > Len(s) + 1 THEN <<>> ELSE From[pair.next])
    IN  From[1]

\* The pairs of a query, which are forgotten if it cannot be parsed.
UrlParams(query) ==
    LET pairs == parse(query, {"UrlUnescape"})
    IN  IF \E i \in DOMAIN pairs : pairs[i] = <<-1>> THEN <<>> ELSE pairs

\* The value of the first pair with that name.
strVal(pairs, name) ==
    LET found == {i \in DOMAIN pairs : CString(pairs[i][1]) = name}
    IN  IF found = {} THEN <<-1>> ELSE pairs[Min(found)][2]

\* strtol in base 10: the value of the longest prefix that is a number, and how
\* long that is, which is 0 if there is none. White space may come first.
strtol(s) ==
    LET start == FindNot(s, IsSpace, 1)
        sign == IF start <= Len(s) /\ s[start] \in {43, 45} THEN 1 ELSE 0
        stop == FindNot(s, 48 .. 57, start + sign)
        value == FoldLeft(LAMBDA n, c : 10 * n + c - 48, 0, SubSeq(s, start + sign, stop - 1))
    IN  IF stop = start + sign THEN <<0, 0>>
        ELSE <<IF sign = 1 /\ s[start] = 45 THEN -value ELSE value, stop - 1>>

\* All of the text must be a number, and no text at all is 0 ...
strToInt(s, defVal) == IF strtol(s)[2] = Len(s) THEN strtol(s)[1] ELSE defVal
\* ... or it must begin with one.
parseInt(s, defltVal) == IF strtol(s)[2] = 0 THEN defltVal ELSE strtol(s)[1]

intVal(pairs, name, defVal) ==
    LET val == strVal(pairs, name) IN IF val = <<-1>> THEN defVal ELSE strToInt(val, defVal)
-----------------------------------------------------------------------------
\* Parts of a URL and of a path.

\* What follows the last slash. The length counts the character that ends it.
urlGetFile(url) ==
    LET start == Max({i \in DOMAIN url : url[i] = Slash} \cup {0}) + 1
    IN  IF start = 1 THEN <<-1>>
        ELSE SubSeq(url \o <<0>>, start, Find(url, {Question}, start))

urlGetHost(url) ==
    LET colons == {i \in 1 .. Len(url) - 2 : SubSeq(url, i, i + 2) = <<Colon, Slash, Slash>>}
        start == IF colons = {} THEN 1 ELSE Min(colons) + 3
    IN  SubSeq(url, start, Find(url, {Slash}, start + 1) - 1)

\* From the slash on that has slashCnt slashes before it.
urlGetPathAfterSlashCnt(url, slashCnt) ==
    LET Before(i) == Quantify(1 .. i - 1, LAMBDA j : url[j] = Slash)
        at == {i \in DOMAIN url : url[i] = Slash /\ Before(i) = slashCnt}
    IN  IF at = {} THEN <<-1>> ELSE SubSeq(url, Min(at), Len(url))

\* How long the path of the directory is, and what follows the last dot.
pathDirLen(path) == Max({i \in DOMAIN path : path[i] = Slash} \cup {1}) - 1
fileGetExtension(str) ==
    LET dots == {i \in DOMAIN str : str[i] = Dot}
    IN  IF dots = {} THEN <<-1>> ELSE SubSeq(str, Max(dots) + 1, Len(str))

\* A character that JSON has an escape for gets a 0 behind it.
jsonStringEscape(str) ==
    FlattenSeq([i \in DOMAIN str |-> IF str[i] \in {8, 9, 10, 12, 13, 34, 92} THEN <<str[i], 0>> ELSE <<str[i]>>])
=============================================================================
