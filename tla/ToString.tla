------------------------------ MODULE ToString ------------------------------
(***************************************************************************)
(* mySystem/tostring.hpp: numbers written as text into a buffer of a given *)
(* size. A character is its code. A conversion returns whether it was done *)
(* (the code returns the end of the text, or null) and the characters that *)
(* it has written to the buffer, with the terminating 0.                   *)
(***************************************************************************)
EXTENDS Integers, Sequences

Rep(c, n) == [i \in 1 .. n |-> c]
Fail(text) == [ok |-> FALSE, text |-> text \o <<0>>]
End(flags) == IF "DontNullTerminate" \in flags THEN <<>> ELSE <<0>>
Done(text, flags) == [ok |-> TRUE, text |-> text \o End(flags)]
Room(bufsize, flags) == bufsize - Len(End(flags))

toDigit(d, flags) == IF d < 10 THEN 48 + d ELSE (IF "UpperCase" \in flags THEN 65 ELSE 97) + d - 10

\* "0x", "0b" and "OCT", and nothing for base 10
Prefix(base) ==
    CASE base = 16 -> <<48, 120>> [] base = 2 -> <<48, 98>> [] base = 8 -> <<79, 67, 84>>
      [] base = 10 -> <<>>

\* The loop, which finds the last digit first, turns at least once.
DigitTurn(at, base, flags) ==
    [rest |-> at.rest \div base, digits |-> <<toDigit(at.rest % base, flags)>> \o at.digits]
NextDigit(at, base, flags) == IF at.rest = 0 THEN at ELSE DigitTurn(at, base, flags)
DigitTurns(val, base, flags) ==
    LET At[k \in Nat] == IF k = 0 THEN DigitTurn([rest |-> val, digits |-> <<>>], base, flags)
                         ELSE NextDigit(At[k - 1], base, flags)
    IN  At
Digits(val, base, flags) ==
    LET at == DigitTurns(val, base, flags)
        done == CHOOSE k \in 0 .. val : at[k].rest = 0
    IN  at[done].digits

\* Spaces come after the prefix, and count as part of minLen together with it.
FitsInTooMuch(len, room) == len <= room + 1
Fits(len, room) == len <= room

Unsigned(bufsize, val, base, flags, minDigits, minLen) ==
    LET prefix == IF "NumPrefix" \in flags THEN Prefix(base) ELSE <<>>
        digits == Digits(val, base, flags)
        zeroes == Rep(48, minDigits - Len(digits))
        total == Len(prefix \o zeroes \o digits)
    IN  IF Fits(minLen, Room(bufsize, flags)) /\ Fits(total, Room(bufsize, flags))
        THEN Done(prefix \o Rep(32, minLen - total) \o zeroes \o digits, flags)
        ELSE Fail(<<>>)

Behind(text, result) == [result EXCEPT !.text = text \o @]

Signed(bufsize, val, base, flags, minDigits, minLen) ==
    IF val >= 0 THEN Unsigned(bufsize, val, base, flags, minDigits, minLen)
    ELSE IF bufsize < 2 THEN [ok |-> FALSE, text |-> IF bufsize = 0 THEN <<>> ELSE <<0>>]
    ELSE Behind(<<45>>, Unsigned(bufsize - 1, -val, base, flags, minDigits, minLen))

Pow10(n) == LET p[i \in Nat] == IF i = 0 THEN 1 ELSE 10 * p[i - 1] IN p[n]

\* A floating point value is num / (2 * 10^prec): the fraction is rounded, and
\* if that makes a whole the whole part takes it. An assertion aborts the program if
\* the whole part takes all of the buffer.
Abort(text) == [ok |-> FALSE, aborted |-> TRUE, text |-> text]
Aborted(result) == "aborted" \in DOMAIN result

Floating(bufsize, num, prec, flags, minDigits, minLen) ==
    LET mult == Pow10(prec)
        abs == IF num < 0 THEN -num ELSE num
        rounded == ((abs % (2 * mult)) + 1) \div 2
        carry == IF rounded >= mult THEN 1 ELSE 0
        sign == IF num < 0 THEN <<45>> ELSE <<>>
        left == bufsize - Len(sign)
        whole == Unsigned(left, abs \div (2 * mult) + carry, 10, {"DontNullTerminate"}, minDigits,
                          IF minLen > prec THEN minLen - (prec + 1) ELSE minLen)
        used == Len(sign) + Len(whole.text)
    IN  IF bufsize = 0 THEN [ok |-> FALSE, text |-> <<>>]
        ELSE IF Room(bufsize, flags) < 3 + Len(sign) THEN Fail(<<>>)
        ELSE IF ~whole.ok THEN Fail(sign)
        ELSE IF used = bufsize THEN Abort(sign \o whole.text)
        ELSE IF Room(bufsize, flags) - used < 2 THEN Fail(sign)
        ELSE Behind(sign \o whole.text \o <<46>>,
                    Unsigned(bufsize - used - 1, rounded - carry * mult, 10, flags, prec, 0))

\* A sign and "inf".
Infinite(bufsize, negative, flags) ==
    LET sign == IF negative THEN <<45>> ELSE <<>>
    IN  IF bufsize = 0 THEN [ok |-> FALSE, text |-> <<>>]
        ELSE IF Room(bufsize, flags) < 3 + Len(sign) THEN Fail(<<>>)
        ELSE Done(sign \o <<105, 110, 102>>, flags)

\* A text is cut off where the buffer ends, and then null is returned.
Text(bufsize, val, flags) ==
    IF bufsize < Len(End(flags)) THEN [ok |-> FALSE, text |-> <<>>]
    ELSE IF Len(val) <= Room(bufsize, flags) THEN Done(val, flags)
    ELSE [ok |-> FALSE, text |-> SubSeq(val, 1, Room(bufsize, flags)) \o End(flags)]

Char(bufsize, c, flags) ==
    IF bufsize > Len(End(flags)) THEN Done(<<c>>, flags)
    ELSE [ok |-> FALSE, text |-> IF bufsize = 0 THEN <<>> ELSE End(flags)]

RptChar(bufsize, c, count, flags) ==
    IF bufsize = 0 \/ count > Room(bufsize, flags) THEN [ok |-> FALSE, text |-> <<>>]
    ELSE Done(Rep(c, count), flags)
=============================================================================
