----------------------------- MODULE NumberText -----------------------------
(***************************************************************************)
(* The conversions of module ToString in use: callers convert one value    *)
(* after the other, into buffers of any size.                              *)
(***************************************************************************)
EXTENDS ToString

CONSTANT Conversions    \* for each kind of value, the conversions of it

VARIABLE written        \* the conversion made last, and its result

Flags == SUBSET {"NumPrefix", "UpperCase", "DontNullTerminate"}

\* An integer is written into no empty buffer, as an assertion says; a text has no 0.
ASSUME NumberTextAssumption ==
    /\ Conversions.int \subseteq [size : Nat \ {0}, val : Int, base : {2, 8, 10, 16}, flags : Flags,
                                  minDigits : Nat, minLen : Nat]
    /\ Conversions.float \subseteq [size : Nat, num : Int, prec : Nat \ {0}, flags : Flags,
                                    minDigits : Nat, minLen : Nat]
    /\ Conversions.inf \subseteq [size : Nat, negative : BOOLEAN, flags : Flags]
    /\ Conversions.text \subseteq [size : Nat, val : Seq(1 .. 255), flags : Flags]

NumberInit == written = [f |-> "nothing"]

Written(f, args, result) == written.f = "nothing" /\ written' = [f |-> f, args |-> args, result |-> result]

WriteInteger == \E c \in Conversions.int :
    Written("int", c, Signed(c.size, c.val, c.base, c.flags, c.minDigits, c.minLen))
WriteFloat == \E c \in Conversions.float :
    Written("float", c, Floating(c.size, c.num, c.prec, c.flags, c.minDigits, c.minLen))
WriteInfinite == \E c \in Conversions.inf : Written("inf", c, Infinite(c.size, c.negative, c.flags))
WriteText == \E c \in Conversions.text :
    \/ Written("text", c, Text(c.size, c.val, c.flags))
    \/ Len(c.val) = 1 /\ Written("text", c, Char(c.size, c.val[1], c.flags))
WriteRptChar == \E c \in Conversions.text :
    /\ \A i \in DOMAIN c.val : c.val[i] = c.val[1]
    /\ c.val # <<>> /\ Written("repeated", c, RptChar(c.size, c.val[1], Len(c.val), c.flags))

\* The caller has used the text, or never gets to it and the device starts again.
Crashed == written.f = "float" /\ Aborted(written.result)
Use == written.f # "nothing" /\ ~Crashed /\ written' = [f |-> "nothing"]
Reboot == Crashed /\ written' = [f |-> "nothing"]

NumberNext ==
    WriteInteger \/ WriteFloat \/ WriteInfinite \/ WriteText \/ WriteRptChar \/ Use \/ Reboot
-----------------------------------------------------------------------------
\* Reading back: the value of digits, and what is before the end of a text.
DigitVal(c) == IF c < 65 THEN c - 48 ELSE IF c < 97 THEN c - 65 + 10 ELSE c - 97 + 10
Value(digits, base) ==
    LET V[n \in 0 .. Len(digits)] == IF n = 0 THEN 0 ELSE V[n - 1] * base + DigitVal(digits[n])
    IN  V[Len(digits)]

Chars(text, flags) == SubSeq(text, 1, Len(text) - Len(End(flags)))
From(chars, n) == SubSeq(chars, n + 1, Len(chars))

Letters(flags) == IF "UpperCase" \in flags THEN 65 .. 70 ELSE 97 .. 102

\* The digits of a number, with no more zeroes in front than were asked for.
IsNumeral(digits, val, base, flags, minDigits) ==
    /\ \A i \in DOMAIN digits : digits[i] \in 48 .. 57 \cup Letters(flags) /\ DigitVal(digits[i]) \in 0 .. base - 1
    /\ Len(digits) >= 1 /\ Len(digits) >= minDigits
    /\ Len(digits) > minDigits /\ Len(digits) > 1 => digits[1] # 48
    /\ Value(digits, base) = val

\* What was written into a buffer of that size is all that a large enough one gets,
\* or nothing that counts.
Fitting(result, all, size) ==
    /\ all.ok /\ (result.ok <=> Len(all.text) <= size)
    /\ result.ok => result.text = all.text
    /\ Len(result.text) <= size

Abs(n) == IF n < 0 THEN -n ELSE n
Sign(negative) == IF negative THEN <<45>> ELSE <<>>

\* An integer is padded with spaces up to minLen or, as the sign does not count, one
\* more. On which side is left open: fmtInt's comment (tostring.hpp:238) has them
\* appended, and the code puts them in front of the digits.
IntegerFits(c, result) ==
    LET all == Signed(Abs(c.val) + c.minDigits + c.minLen + 6, c.val, c.base, c.flags, c.minDigits, c.minLen)
        chars == Chars(all.text, c.flags)
        lead == Sign(c.val < 0) \o (IF "NumPrefix" \in c.flags THEN Prefix(c.base) ELSE <<>>)
    IN  /\ Fitting(result, all, c.size)
        /\ Len(chars) >= c.minLen
        /\ \E before, after \in 0 .. c.minLen :
             LET digits == SubSeq(chars, Len(lead) + before + 1, Len(chars) - after)
             IN  /\ chars = lead \o Rep(32, before) \o digits \o Rep(32, after)
                 /\ IsNumeral(digits, Abs(c.val), c.base, c.flags, c.minDigits)
                 /\ before + after > 0 => Len(chars) <= c.minLen + Len(Sign(c.val < 0))

\* Rounded up from a half on, away from 0. Where the assertion of tostring.hpp:434
\* aborts the program nothing is written: that the text would not have fitted is all
\* that is claimed then, not that the caller is told.
FloatFits(c, result) ==
    LET all == Floating(Abs(c.num) + c.minDigits + c.minLen + c.prec + 6, c.num, c.prec, c.flags, c.minDigits, c.minLen)
        chars == Chars(all.text, c.flags)
        lead == Sign(c.num < 0)
        dot == Len(chars) - c.prec
        rounded == (Abs(c.num) + 1) \div 2
    IN  /\ IF Aborted(result) THEN all.ok /\ Len(all.text) > c.size ELSE Fitting(result, all, c.size)
        /\ \E pad \in 0 .. c.minLen :
             LET whole == SubSeq(chars, Len(lead) + pad + 1, dot - 1)
                 fraction == From(chars, dot)
             IN  /\ chars = lead \o Rep(32, pad) \o whole \o <<46>> \o fraction
                 /\ IsNumeral(whole, rounded \div Pow10(c.prec), 10, {}, c.minDigits)
                 /\ IsNumeral(fraction, rounded % Pow10(c.prec), 10, {}, c.prec)
                 /\ Len(chars) >= c.minLen

InfiniteFits(c, result) ==
    LET all == [ok |-> TRUE, text |-> Sign(c.negative) \o <<105, 110, 102>> \o End(c.flags)]
    IN  Fitting(result, all, c.size)

TextFits(c, result) ==
    LET all == [ok |-> TRUE, text |-> c.val \o End(c.flags)]
        chars == Chars(result.text, c.flags)
    IN  /\ Fitting(result, all, c.size)
        /\ result.text # <<>> => chars = SubSeq(c.val, 1, Len(chars))

RepeatedFits(c, result) == Fitting(result, [ok |-> TRUE, text |-> c.val \o End(c.flags)], c.size)

\* A number or a text is written if and only if all of it fits into the buffer, with
\* its terminating 0; it never goes over the end, it is what a larger buffer would
\* get, and it reads back as the value. The conversion that tostring.hpp:434 aborts
\* is excepted (Aborted): only texts that do not fit are.
ToStringFits ==
    /\ written.f = "int" => IntegerFits(written.args, written.result)
    /\ written.f = "float" => FloatFits(written.args, written.result)
    /\ written.f = "inf" => InfiniteFits(written.args, written.result)
    /\ written.f = "text" => TextFits(written.args, written.result)
    /\ written.f = "repeated" => RepeatedFits(written.args, written.result)
=============================================================================
