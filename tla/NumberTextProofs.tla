-------------------------- MODULE NumberTextProofs --------------------------
(***************************************************************************)
(* A conversion writes a number or a text if all of it fits into the       *)
(* buffer, never behind the end, and what it writes reads back as the      *)
(* value: ToStringFits, for every value, base, size and format.            *)
(*                                                                         *)
(* The loop of the digits and the value of digits are recursive functions. *)
(* Each is some step, iterated (Iterated, RecursionExists), and what holds *)
(* of 0 and is kept by a step holds up to any number (UpTo).               *)
(***************************************************************************)
EXTENDS NumberText, SequenceTheorems, WellFoundedInduction, TLAPS

LEMMA Regroup ==
  ASSUME NEW a \in Seq(Nat), NEW b \in Seq(Nat), NEW d \in Seq(Nat)
  PROVE  a \o (b \o d) = (a \o b) \o d
  BY ConcatAssociative, SMTT(60)

LEMMA ConcatIs ==
  ASSUME NEW a \in Seq(Nat), NEW b \in Seq(Nat)
  PROVE  /\ a \o b \in Seq(Nat) /\ Len(a \o b) = Len(a) + Len(b)
         /\ \A i \in 1 .. Len(a) + Len(b) :
                (a \o b)[i] = IF i <= Len(a) THEN a[i] ELSE b[i - Len(a)]
  BY ConcatProperties

Larger(a, b) == IF a >= b THEN a ELSE b
Smaller(a, b) == IF a <= b THEN a ELSE b

\* What holds of 0, and of the next number if of one, holds up to n.
LEMMA UpTo ==
  ASSUME NEW n \in Nat, NEW S, 0 \in S, \A k \in 0 .. n - 1 : k \in S => k + 1 \in S
  PROVE  \A k \in 0 .. n : k \in S
<1> DEFINE R == {ss \in Nat \X Nat : ss[1] < ss[2]}
           Bad == {k \in 0 .. n : k \notin S}
<1>1. IsWellFoundedOn(R, Nat)
  BY NatLessThanWellFounded DEF OpToRel
<1>2. CASE Bad = {}
  BY <1>2
<1>3. CASE Bad # {}
  <2>1. PICK k \in Bad : \A m \in Bad : ~(<<m, k>> \in R)
    BY <1>1, <1>3, WFMin
  <2>2. k \in Nat /\ k # 0 /\ k <= n /\ k \notin S
    BY <2>1
  <2>3. k - 1 \in 0 .. n - 1 /\ k - 1 < k /\ k - 1 \in Nat
    BY <2>2
  <2>4. k - 1 \notin Bad
    BY <2>1, <2>2, <2>3
  <2>5. (k - 1) + 1 \in S
    BY <2>3, <2>4
  <2> QED BY <2>2, <2>5
<1> QED BY <1>2, <1>3
-----------------------------------------------------------------------------
\* What a step on S does from s0 on, n times.
Iterated(h, n, S, s0, step) ==
    /\ h \in [0 .. n -> S] /\ h[0] = s0
    /\ \A k \in 0 .. n - 1 : h[k + 1] = step[h[k]]

LEMMA IteratedExists ==
  ASSUME NEW S, NEW s0 \in S, NEW step \in [S -> S], NEW n \in Nat
  PROVE  \E h : Iterated(h, n, S, s0, step)
<1> DEFINE Some == {k \in 0 .. n : \E h : Iterated(h, k, S, s0, step)}
<1>1. 0 \in Some
  <2> DEFINE h == [k \in 0 .. 0 |-> s0]
  <2>1. Iterated(h, 0, S, s0, step)
    BY DEF Iterated
  <2> HIDE DEF h
  <2> QED BY <2>1
<1>2. ASSUME NEW k \in 0 .. n - 1, k \in Some PROVE k + 1 \in Some
  <2>1. PICK h : Iterated(h, k, S, s0, step)
    BY <1>2
  <2> DEFINE g == [j \in 0 .. k + 1 |-> IF j = k + 1 THEN step[h[k]] ELSE h[j]]
  <2>2. h \in [0 .. k -> S] /\ h[0] = s0 /\ \A j \in 0 .. k - 1 : h[j + 1] = step[h[j]]
    BY <2>1 DEF Iterated
  <2>3. g \in [0 .. k + 1 -> S] /\ g[k + 1] = step[h[k]] /\ \A j \in 0 .. k : g[j] = h[j]
    BY <2>2
  <2> HIDE DEF g
  <2>4. g[0] = s0 /\ \A j \in 0 .. (k + 1) - 1 : g[j + 1] = step[g[j]]
    <3>1. ASSUME NEW j \in 0 .. (k + 1) - 1 PROVE g[j + 1] = step[g[j]]
      <4>1. CASE j = k
        BY <2>3, <4>1
      <4>2. CASE j # k
        <5>1. j \in 0 .. k - 1 /\ j + 1 \in 0 .. k /\ j \in 0 .. k
          BY <4>2
        <5> QED BY <2>2, <2>3, <5>1
      <4> QED BY <4>1, <4>2
    <3>2. 0 \in 0 .. k
      OBVIOUS
    <3> QED BY <2>2, <2>3, <3>1, <3>2
  <2>5. Iterated(g, k + 1, S, s0, step)
    BY <2>3, <2>4 DEF Iterated
  <2>6. k + 1 \in 0 .. n
    OBVIOUS
  <2> QED BY <2>5, <2>6
<1> HIDE DEF Some
<1>3. \A k \in 0 .. n : k \in Some
  BY <1>1, <1>2, UpTo
<1> QED BY <1>3 DEF Some

LEMMA IteratedSame ==
  ASSUME NEW S, NEW s0 \in S, NEW step \in [S -> S], NEW n \in Nat, NEW m \in Nat, n <= m,
         NEW h, Iterated(h, n, S, s0, step), NEW g, Iterated(g, m, S, s0, step)
  PROVE  \A k \in 0 .. n : h[k] = g[k]
<1> DEFINE Alike == {k \in 0 .. n : h[k] = g[k]}
<1>1. 0 \in Alike
  BY DEF Iterated
<1>2. ASSUME NEW k \in 0 .. n - 1, k \in Alike PROVE k + 1 \in Alike
  <2>1. k \in 0 .. m - 1 /\ k + 1 \in 0 .. n
    OBVIOUS
  <2>2. h[k + 1] = step[h[k]] /\ g[k + 1] = step[g[k]] /\ h[k] = g[k]
    BY <1>2, <2>1 DEF Iterated
  <2> QED BY <2>1, <2>2
<1> HIDE DEF Alike
<1>3. \A k \in 0 .. n : k \in Alike
  BY <1>1, <1>2, UpTo
<1> QED BY <1>3 DEF Alike

\* A function that is defined by what it is at 0 and how it goes on from there.
IsRecursive(f, S, s0, step) == f = [n \in Nat |-> IF n = 0 THEN s0 ELSE step[f[n - 1]]]

\* There is one such function, and its values are in S.
LEMMA RecursionExists ==
  ASSUME NEW S, NEW s0 \in S, NEW step \in [S -> S]
  PROVE  \E f \in [Nat -> S] : IsRecursive(f, S, s0, step)
<1> DEFINE H(n) == CHOOSE h : Iterated(h, n, S, s0, step)
           f == [n \in Nat |-> H(n)[n]]
<1>1. \A n \in Nat : Iterated(H(n), n, S, s0, step)
  BY IteratedExists
<1> HIDE DEF H
<1>2. ASSUME NEW n \in Nat PROVE H(n)[n] \in S
  BY <1>1 DEF Iterated
<1>3. f[0] = s0
  <2>1. H(0)[0] = s0
    BY <1>1 DEF Iterated
  <2> QED BY <2>1
<1>4. ASSUME NEW m \in Nat \ {0} PROVE f[m] = step[f[m - 1]]
  <2> DEFINE n == m - 1
  <2>1. m \in Nat /\ n \in Nat /\ n <= m /\ n \in 0 .. m - 1 /\ n \in 0 .. n /\ m = n + 1
    OBVIOUS
  <2> HIDE DEF n
  <2>2. Iterated(H(m), m, S, s0, step) /\ Iterated(H(n), n, S, s0, step)
    BY <1>1, <2>1
  <2>3. H(n)[n] = H(m)[n]
    BY <2>1, <2>2, IteratedSame
  <2>4. H(m)[m] = step[H(m)[n]]
    BY <2>1, <2>2 DEF Iterated
  <2>5. f[m] = step[f[n]]
    BY <2>1, <2>3, <2>4
  <2> QED BY <2>5 DEF n
<1>5. f \in [Nat -> S]
  BY <1>2
<1>6. f = [n \in Nat |-> f[n]]
  OBVIOUS
<1> HIDE DEF f
<1>7. ASSUME NEW n \in Nat PROVE f[n] = IF n = 0 THEN s0 ELSE step[f[n - 1]]
  BY <1>3, <1>4
<1>8. f = [n \in Nat |-> IF n = 0 THEN s0 ELSE step[f[n - 1]]]
  BY <1>6, <1>7
<1> QED BY <1>5, <1>8 DEF IsRecursive
-----------------------------------------------------------------------------
(* The powers of ten. *)

LEMMA PowersAre ==
  /\ Pow10(0) = 1
  /\ \A n \in Nat : Pow10(n) \in Nat \ {0} /\ Pow10(n + 1) = 10 * Pow10(n)
<1> DEFINE step == [x \in Nat |-> 10 * x]
           Is(p) == p = [i \in Nat |-> IF i = 0 THEN 1 ELSE 10 * p[i - 1]]
           P == CHOOSE p : Is(p)
<1>1. \E p : Is(p)
  <2>1. step \in [Nat -> Nat] /\ 1 \in Nat
    OBVIOUS
  <2>2. PICK p \in [Nat -> Nat] : IsRecursive(p, Nat, 1, step)
    <3> HIDE DEF step
    <3> QED BY <2>1, RecursionExists
  <2>3. ASSUME NEW i \in Nat PROVE p[i] = IF i = 0 THEN 1 ELSE 10 * p[i - 1]
    <3>1. p[i] = IF i = 0 THEN 1 ELSE step[p[i - 1]]
      BY <2>2, Zenon DEF IsRecursive
    <3>2. CASE i = 0
      BY <3>1, <3>2
    <3>3. CASE i # 0
      <4>1. i - 1 \in Nat
        BY <3>3
      <4> QED BY <2>2, <3>1, <3>3, <4>1
    <3> QED BY <3>2, <3>3
  <2>4. p = [i \in Nat |-> p[i]]
    BY <2>2, p \in [Nat -> Nat]
  <2>5. Is(p)
    BY <2>3, <2>4
  <2> HIDE DEF Is
  <2> QED BY <2>5
<1> HIDE DEF Is
<1>2. Is(P)
  BY <1>1
<1>3. \A n \in Nat : Pow10(n) = P[n]
  BY DEF Pow10, Is
<1> HIDE DEF P
<1>4. \A i \in Nat : P[i] = IF i = 0 THEN 1 ELSE 10 * P[i - 1]
  BY <1>2 DEF Is
<1>5. P[0] = 1 /\ \A n \in Nat : P[n + 1] = 10 * P[n]
  <2>1. P[0] = 1
    BY <1>4
  <2>2. ASSUME NEW n \in Nat PROVE P[n + 1] = 10 * P[n]
    BY <1>4, n + 1 \in Nat, n + 1 # 0, (n + 1) - 1 = n
  <2> QED BY <2>1, <2>2
<1>6. ASSUME NEW n \in Nat PROVE P[n] \in Nat \ {0}
  <2> DEFINE S == {k \in 0 .. n : P[k] \in Nat \ {0}}
  <2>1. 0 \in S /\ \A k \in 0 .. n - 1 : k \in S => k + 1 \in S
    <3>1. 0 \in S
      BY <1>5
    <3>2. ASSUME NEW k \in 0 .. n - 1, k \in S PROVE k + 1 \in S
      BY <1>5, <3>2
    <3> QED BY <3>1, <3>2
  <2> HIDE DEF S
  <2>2. \A k \in 0 .. n : k \in S
    BY <2>1, UpTo
  <2> QED BY <2>2, n \in 0 .. n DEF S
<1>7. 0 \in Nat
  OBVIOUS
<1> QED BY <1>3, <1>5, <1>6, <1>7

LEMMA PowersGrow == ASSUME NEW m \in Nat, NEW n \in Nat, m <= n PROVE Pow10(m) <= Pow10(n)
<1> DEFINE S == {k \in 0 .. n - m : Pow10(m) <= Pow10(m + k)}
<1>1. 0 \in S
  BY PowersAre
<1>2. ASSUME NEW k \in 0 .. (n - m) - 1, k \in S PROVE k + 1 \in S
  <2>1. m + k \in Nat /\ (m + k) + 1 = m + (k + 1)
    OBVIOUS
  <2>2. Pow10(m + k) \in Nat /\ Pow10(m + (k + 1)) = 10 * Pow10(m + k) /\ Pow10(m) \in Nat
    BY <2>1, PowersAre
  <2> QED BY <1>2, <2>2
<1> HIDE DEF S
<1>3. n - m \in Nat
  OBVIOUS
<1>4. \A k \in 0 .. n - m : k \in S
  BY <1>1, <1>2, <1>3, UpTo
<1>5. n - m \in S
  BY <1>3, <1>4
<1> QED BY <1>5, m + (n - m) = n DEF S

-----------------------------------------------------------------------------
\* Digits, and the numbers that they stand for.

(* Values: what digits make of a number that is before them. *)

\* The numbers from the one before the digits to the value of them all.
Counts(V, before, digits, base) ==
    /\ V \in [0 .. Len(digits) -> Nat] /\ V[0] = before
    /\ \A n \in 1 .. Len(digits) : V[n] = V[n - 1] * base + DigitVal(digits[n])
ValueFrom(before, digits, base, val) ==
    \E V : Counts(V, before, digits, base) /\ V[Len(digits)] = val

LEMMA ValueIs ==
  ASSUME NEW digits \in Seq(Nat), NEW base \in Nat, NEW val, ValueFrom(0, digits, base, val)
  PROVE  Value(digits, base) = val
<1> DEFINE l == Len(digits)
           Is(V) == V = [n \in 0 .. l |-> IF n = 0 THEN 0 ELSE V[n - 1] * base + DigitVal(digits[n])]
           V == CHOOSE V : Is(V)
<1>1. l \in Nat
  OBVIOUS
<1>2. PICK W : Counts(W, 0, digits, base) /\ W[l] = val
  BY DEF ValueFrom
<1>3. /\ W \in [0 .. l -> Nat] /\ W[0] = 0
      /\ \A n \in 1 .. l : W[n] = W[n - 1] * base + DigitVal(digits[n])
  BY <1>2 DEF Counts
<1> HIDE DEF l
<1>4. Is(W)
  <2>1. \A n \in 0 .. l : W[n] = IF n = 0 THEN 0 ELSE W[n - 1] * base + DigitVal(digits[n])
    BY <1>1, <1>3
  <2>2. W = [n \in 0 .. l |-> W[n]]
    BY <1>3
  <2> QED BY <2>1, <2>2
<1>5. Value(digits, base) = V[l]
  BY DEF Value, l
<1>6. Is(V)
  <2> HIDE DEF Is
  <2> QED BY <1>4
<1> HIDE DEF V
<1>7. \A n \in 0 .. l : V[n] = IF n = 0 THEN 0 ELSE V[n - 1] * base + DigitVal(digits[n])
  BY <1>6
<1> DEFINE Same == {n \in 0 .. l : V[n] = W[n]}
<1>8. 0 \in Same
  BY <1>1, <1>3, <1>7
<1>9. ASSUME NEW k \in 0 .. l - 1, k \in Same PROVE k + 1 \in Same
  <2>1. k + 1 \in 0 .. l /\ k + 1 # 0 /\ (k + 1) - 1 = k /\ k + 1 \in 1 .. l
    BY <1>1
  <2>2. V[k + 1] = V[k] * base + DigitVal(digits[k + 1])
    BY <1>7, <2>1
  <2>3. W[k + 1] = W[k] * base + DigitVal(digits[k + 1])
    BY <1>3, <2>1
  <2>4. V[k] = W[k]
    BY <1>9
  <2> QED BY <2>1, <2>2, <2>3, <2>4
<1> HIDE DEF Same
<1>10. \A n \in 0 .. l : n \in Same
  BY <1>1, <1>8, <1>9, UpTo
<1>11. V[l] = W[l]
  BY <1>1, <1>10 DEF Same
<1> QED BY <1>2, <1>5, <1>11

\* A digit more in front of the others.
LEMMA ValueOfDigit ==
  ASSUME NEW before \in Nat, NEW c \in Nat, NEW digits \in Seq(Nat), NEW base \in Nat, NEW val,
         NEW first \in Nat, first = before * base + DigitVal(c), ValueFrom(first, digits, base, val)
  PROVE  ValueFrom(before, <<c>> \o digits, base, val)
<1> DEFINE l == Len(digits)
           all == <<c>> \o digits
<1>1. l \in Nat /\ Len(all) = l + 1 /\ all[1] = c /\ \A n \in 1 .. l : all[n + 1] = digits[n]
  OBVIOUS
<1>2. PICK V : Counts(V, first, digits, base) /\ V[l] = val
  BY DEF ValueFrom
<1>3. /\ V \in [0 .. l -> Nat] /\ V[0] = first
      /\ \A n \in 1 .. l : V[n] = V[n - 1] * base + DigitVal(digits[n])
  BY <1>2 DEF Counts
<1> HIDE DEF l, all
<1> DEFINE W == [n \in 0 .. l + 1 |-> IF n = 0 THEN before ELSE V[n - 1]]
<1>4. W \in [0 .. l + 1 -> Nat] /\ W[0] = before /\ W[l + 1] = val
  <2>1. \A n \in 0 .. l + 1 : n = 0 \/ n - 1 \in 0 .. l
    BY <1>1
  <2>2. W \in [0 .. l + 1 -> Nat]
    BY <1>3, <2>1
  <2>3. 0 \in 0 .. l + 1 /\ l + 1 \in 0 .. l + 1 /\ l + 1 # 0 /\ (l + 1) - 1 = l
    BY <1>1
  <2>4. W[0] = before /\ W[l + 1] = V[l]
    BY <2>3
  <2> QED BY <1>2, <2>2, <2>4
<1>5. ASSUME NEW n \in 1 .. l + 1 PROVE W[n] = W[n - 1] * base + DigitVal(all[n])
  <2>1. CASE n = 1
    <3>1. W[1] = V[0] /\ W[0] = before
      BY <1>1
    <3> QED BY <1>1, <1>3, <2>1, <3>1
  <2>2. CASE n # 1
    <3>1. n - 1 \in 1 .. l /\ n - 1 \in 0 .. l + 1 /\ n - 1 # 0 /\ n # 0 /\ n \in 0 .. l + 1 /\ (n - 1) + 1 = n
      BY <1>1, <2>2
    <3>2. W[n] = V[n - 1] /\ W[n - 1] = V[(n - 1) - 1] /\ all[n] = digits[n - 1]
      BY <1>1, <3>1
    <3>3. V[n - 1] = V[(n - 1) - 1] * base + DigitVal(digits[n - 1])
      BY <1>3, <3>1
    <3> QED BY <3>2, <3>3
  <2> QED BY <2>1, <2>2
<1> HIDE DEF W
<1>6. Counts(W, before, all, base) /\ W[Len(all)] = val
  BY <1>1, <1>4, <1>5 DEF Counts
<1> QED BY <1>6 DEF ValueFrom, all

LEMMA RepIs ==
  ASSUME NEW c \in Nat, NEW n \in Nat
  PROVE  Rep(c, n) \in Seq(Nat) /\ Len(Rep(c, n)) = n /\ \A i \in 1 .. n : Rep(c, n)[i] = c
<1>1. Rep(c, n) \in [1 .. n -> Nat] /\ \A i \in 1 .. n : Rep(c, n)[i] = c
  BY DEF Rep
<1> QED BY <1>1

LEMMA RepNext ==
  ASSUME NEW c \in Nat, NEW n \in Nat
  PROVE  Rep(c, n + 1) = <<c>> \o Rep(c, n)
<1> DEFINE m == n + 1
           rep == Rep(c, n)
           more == Rep(c, m)
           one == <<c>>
           all == one \o rep
<1>1. m \in Nat /\ m = 1 + n
  OBVIOUS
<1> HIDE DEF m
<1>2. rep \in Seq(Nat) /\ Len(rep) = n /\ \A i \in 1 .. n : rep[i] = c
  BY RepIs, Zenon
<1>3. more \in Seq(Nat) /\ Len(more) = m /\ \A i \in 1 .. m : more[i] = c
  BY <1>1, RepIs, Zenon
<1>4. one \in Seq(Nat) /\ Len(one) = 1 /\ one[1] = c
  OBVIOUS
<1> HIDE DEF rep, more, one
<1>5. /\ all \in Seq(Nat) /\ Len(all) = Len(one) + Len(rep)
      /\ \A i \in 1 .. Len(one) + Len(rep) :
             all[i] = IF i <= Len(one) THEN one[i] ELSE rep[i - Len(one)]
  BY <1>2, <1>4, ConcatIs, Zenon
<1> HIDE DEF all
<1>6. Len(all) = m
  BY <1>1, <1>2, <1>4, <1>5
<1>7. ASSUME NEW i \in 1 .. m PROVE all[i] = c
  <2>1. i \in 1 .. Len(one) + Len(rep)
    BY <1>1, <1>2, <1>4
  <2>2. all[i] = IF i <= 1 THEN one[i] ELSE rep[i - 1]
    BY <1>4, <1>5, <2>1
  <2>3. i = 1 \/ (i > 1 /\ i - 1 \in 1 .. n)
    BY <1>1
  <2> QED BY <1>2, <1>4, <2>2, <2>3
<1>8. more = all
  BY <1>1, <1>3, <1>5, <1>6, <1>7, SeqEqual
<1> QED BY <1>8 DEF more, all, one, rep, m

LEMMA RepOfNone == ASSUME NEW c, NEW n \in Int, n <= 0 PROVE Rep(c, n) = <<>>
<1>1. 1 .. n = {} /\ 1 .. 0 = {}
  OBVIOUS
<1>2. Rep(c, n) = [i \in 1 .. 0 |-> c]
  BY <1>1 DEF Rep
<1> QED BY <1>2

\* Zeroes in front of the digits of a number change nothing.
LEMMA ValueOfZeroes ==
  ASSUME NEW n \in Nat, NEW digits \in Seq(Nat), NEW base \in Nat, NEW val,
         ValueFrom(0, digits, base, val)
  PROVE  ValueFrom(0, Rep(48, n) \o digits, base, val)
<1> DEFINE S == {k \in 0 .. n : ValueFrom(0, Rep(48, k) \o digits, base, val)}
<1>1. 48 \in Nat /\ 0 \in Nat
  OBVIOUS
<1>2. 0 \in S
  <2>1. Rep(48, 0) = <<>>
    BY RepOfNone
  <2>2. <<>> \o digits = digits
    BY ConcatEmptySeq
  <2>3. ValueFrom(0, Rep(48, 0) \o digits, base, val)
    BY <2>1, <2>2
  <2> QED BY <2>3
<1>3. ASSUME NEW k \in 0 .. n - 1, k \in S PROVE k + 1 \in S
  <2> DEFINE rep == Rep(48, k)
             m == k + 1
             more == Rep(48, m)
  <2>1. k \in Nat /\ m \in Nat /\ m = k + 1 /\ m \in 0 .. n /\ <<48>> \in Seq(Nat)
    OBVIOUS
  <2> HIDE DEF m
  <2>2. rep \in Seq(Nat)
    BY <1>1, <2>1, RepIs, Zenon
  <2>4. ValueFrom(0, rep \o digits, base, val)
    BY <1>3
  <2> HIDE DEF rep, more
  <2>5. more = <<48>> \o rep
    BY <2>1, RepNext DEF more, rep
  <2>6. more \o digits = <<48>> \o (rep \o digits) /\ rep \o digits \in Seq(Nat)
    BY <2>1, <2>2, <2>5, Regroup, ConcatIs
  <2>7. 0 = 0 * base + DigitVal(48) /\ 48 \in Nat
    BY DEF DigitVal
  <2> DEFINE some == rep \o digits
  <2>8. some \in Seq(Nat) /\ ValueFrom(0, some, base, val)
    BY <2>4, <2>6
  <2> HIDE DEF some
  <2>9. ValueFrom(0, <<48>> \o some, base, val)
    BY <1>1, <2>7, <2>8, ValueOfDigit
  <2>10. ValueFrom(0, more \o digits, base, val)
    BY <2>6, <2>9 DEF some
  <2> QED BY <2>1, <2>10 DEF more, m
<1> HIDE DEF S
<1>4. \A k \in 0 .. n : k \in S
  BY <1>2, <1>3, UpTo
<1> QED BY <1>4, n \in 0 .. n DEF S

-----------------------------------------------------------------------------
\* The turns of the loop that finds the digits.

(* The loop that finds the digits. *)

Bases == {2, 8, 10, 16}
DigitState == [rest : Nat, digits : Seq(Nat)]

LEMMA DivisionIs ==
  ASSUME NEW a \in Nat, NEW base \in Bases
  PROVE  /\ a \div base \in Nat /\ a % base \in 0 .. base - 1 /\ a = (a \div base) * base + (a % base)
         /\ (a # 0 => a \div base < a) /\ a \div base <= a /\ (a \div base = 0 => a % base = a)
         /\ a % base \in 0 .. 15
<1>1. CASE base = 2
  BY <1>1
<1>2. CASE base = 8
  BY <1>2
<1>3. CASE base = 10
  BY <1>3
<1>4. CASE base = 16
  BY <1>4
<1> QED BY <1>1, <1>2, <1>3, <1>4 DEF Bases

LEMMA DigitIs ==
  ASSUME NEW d \in 0 .. 15, NEW flags
  PROVE  /\ toDigit(d, flags) \in Nat /\ DigitVal(toDigit(d, flags)) = d
         /\ (toDigit(d, flags) = 48 <=> d = 0)
         /\ toDigit(d, flags) \in (48 .. 57) \cup Letters(flags)
         /\ (d < 10 => toDigit(d, flags) \in 48 .. 57)
  BY DEF toDigit, DigitVal, Letters

LEMMA TurnState ==
  ASSUME NEW at \in DigitState, NEW base \in Bases, NEW flags
  PROVE  /\ DigitTurn(at, base, flags) \in DigitState /\ NextDigit(at, base, flags) \in DigitState
         /\ DigitTurn(at, base, flags).rest = at.rest \div base
         /\ DigitTurn(at, base, flags).digits = <<toDigit(at.rest % base, flags)>> \o at.digits
<1> DEFINE c == toDigit(at.rest % base, flags)
           q == at.rest \div base
<1>1. at.rest \in Nat /\ at.digits \in Seq(Nat)
  BY DEF DigitState
<1>2. q \in Nat /\ at.rest % base \in 0 .. 15
  BY <1>1, DivisionIs
<1>3. c \in Nat
  BY <1>2, DigitIs
<1>4. DigitTurn(at, base, flags) = [rest |-> q, digits |-> <<c>> \o at.digits]
  BY DEF DigitTurn
<1> HIDE DEF c, q
<1>5. <<c>> \o at.digits \in Seq(Nat)
  BY <1>1, <1>3
<1>6. DigitTurn(at, base, flags) \in DigitState
  BY <1>2, <1>4, <1>5 DEF DigitState
<1>7. NextDigit(at, base, flags) \in DigitState
  BY <1>6 DEF NextDigit
<1>8. DigitTurn(at, base, flags).rest = q /\ DigitTurn(at, base, flags).digits = <<c>> \o at.digits
  BY <1>4
<1> QED BY <1>6, <1>7, <1>8 DEF c, q

FirstTurn(val, base, flags) == DigitTurn([rest |-> val, digits |-> <<>>], base, flags)

LEMMA TurnsAre ==
  ASSUME NEW val \in Nat, NEW base \in Bases, NEW flags
  PROVE  /\ DigitTurns(val, base, flags)[0] = FirstTurn(val, base, flags)
         /\ \A k \in Nat : DigitTurns(val, base, flags)[k + 1]
                           = NextDigit(DigitTurns(val, base, flags)[k], base, flags)
<1> DEFINE s0 == FirstTurn(val, base, flags)
           step == [at \in DigitState |-> NextDigit(at, base, flags)]
           Is(At) == At = [k \in Nat |-> IF k = 0 THEN DigitTurn([rest |-> val, digits |-> <<>>], base, flags)
                                         ELSE NextDigit(At[k - 1], base, flags)]
           T == DigitTurns(val, base, flags)
<1>1. T = CHOOSE At : Is(At)
  BY DEF DigitTurns
<1>2. s0 = DigitTurn([rest |-> val, digits |-> <<>>], base, flags) /\ s0 \in DigitState
  <2>1. [rest |-> val, digits |-> <<>>] \in DigitState
    BY DEF DigitState
  <2> QED BY <2>1, TurnState DEF FirstTurn
<1>3. step \in [DigitState -> DigitState] /\ \A at \in DigitState : step[at] = NextDigit(at, base, flags)
  BY TurnState
<1> HIDE DEF s0, step
<1>4. \E At : Is(At)
  <2>1. PICK f \in [Nat -> DigitState] : IsRecursive(f, DigitState, s0, step)
    BY <1>2, <1>3, RecursionExists
  <2>2. \A k \in Nat : f[k] = IF k = 0 THEN s0 ELSE step[f[k - 1]]
    BY <2>1, Zenon DEF IsRecursive
  <2>3. ASSUME NEW k \in Nat
        PROVE  f[k] = IF k = 0 THEN DigitTurn([rest |-> val, digits |-> <<>>], base, flags)
                      ELSE NextDigit(f[k - 1], base, flags)
    <3>1. CASE k = 0
      BY <1>2, <2>2, <3>1
    <3>2. CASE k # 0
      <4>1. k - 1 \in Nat
        BY <3>2
      <4>2. f[k - 1] \in DigitState
        BY <2>1, <4>1
      <4> QED BY <1>3, <2>2, <3>2, <4>2
    <3> QED BY <3>1, <3>2
  <2>4. f = [k \in Nat |-> f[k]]
    BY <2>1, f \in [Nat -> DigitState]
  <2>5. Is(f)
    BY <2>3, <2>4
  <2> HIDE DEF Is
  <2> QED BY <2>5
<1>5. Is(T)
  <2> HIDE DEF Is, T
  <2> QED BY <1>1, <1>4
<1> HIDE DEF T
<1>6. \A k \in Nat : T[k] = IF k = 0 THEN DigitTurn([rest |-> val, digits |-> <<>>], base, flags)
                            ELSE NextDigit(T[k - 1], base, flags)
  BY <1>5, Zenon
<1>7. T[0] = s0
  BY <1>2, <1>6
<1>8. ASSUME NEW k \in Nat PROVE T[k + 1] = NextDigit(T[k], base, flags)
  BY <1>6, k + 1 \in Nat, k + 1 # 0, (k + 1) - 1 = k
<1> QED BY <1>7, <1>8 DEF T, s0

\* What holds of the digits that k turns have found, and of what is left.
AreDigits(digits, base, flags) ==
    \A i \in 1 .. Len(digits) : \E d \in 0 .. base - 1 : digits[i] = toDigit(d, flags)
InPowers(digits, rest, val) ==
    /\ rest * Pow10(Len(digits)) <= val
    /\ Len(digits) > 1 => Pow10(Len(digits) - 1) <= val
Turned(at, k, val, base, flags) ==
    /\ at \in DigitState /\ Len(at.digits) <= k
    /\ AreDigits(at.digits, base, flags)
    /\ ValueFrom(at.rest, at.digits, base, val)
    /\ at.rest # 0 => at.rest + k <= val
    /\ at.rest = 0 /\ Len(at.digits) > 1 => at.digits[1] # 48
    /\ base = 10 => InPowers(at.digits, at.rest, val)

LEMMA NoneTurned ==
  ASSUME NEW val \in Nat, NEW base \in Bases, NEW flags
  PROVE  Turned([rest |-> val, digits |-> <<>>], 0, val, base, flags)
<1> DEFINE at == [rest |-> val, digits |-> <<>>]
<1>1. at.rest = val /\ at.digits = <<>> /\ at \in DigitState /\ Len(<<>>) = 0
  BY DEF DigitState
<1> HIDE DEF at
<1>2. AreDigits(<<>>, base, flags)
  BY DEF AreDigits
<1>3. ValueFrom(val, <<>>, base, val)
  <2> DEFINE V == [n \in 0 .. 0 |-> val]
  <2>1. V \in [0 .. 0 -> Nat] /\ V[0] = val
    OBVIOUS
  <2> HIDE DEF V
  <2>2. Counts(V, val, <<>>, base) /\ V[Len(<<>>)] = val
    BY <1>1, <2>1 DEF Counts
  <2> QED BY <2>2 DEF ValueFrom
<1>4. InPowers(<<>>, val, val)
  <2>1. Pow10(0) = 1
    BY PowersAre
  <2> QED BY <1>1, <2>1 DEF InPowers
<1> QED BY <1>1, <1>2, <1>3, <1>4 DEF Turned, at

LEMMA PowersTurn ==
  ASSUME NEW digits \in Seq(Nat), NEW c \in Nat, NEW rest \in Nat, NEW val \in Nat,
         InPowers(digits, rest, val), rest # 0 \/ Len(digits) = 0
  PROVE  InPowers(<<c>> \o digits, rest \div 10, val)
<1> DEFINE l == Len(digits)
           q == rest \div 10
           p == Pow10(l)
<1>1. l \in Nat /\ Len(<<c>> \o digits) = l + 1 /\ (l + 1) - 1 = l
  OBVIOUS
<1>2. q \in Nat /\ 10 * q <= rest
  OBVIOUS
<1>3. rest * p <= val /\ (rest # 0 \/ l = 0)
  BY DEF InPowers
<1> HIDE DEF l, q
<1>4. p \in Nat \ {0} /\ Pow10(l + 1) = 10 * p
  BY <1>1, PowersAre
<1> HIDE DEF p
<1>5. q * (10 * p) <= val
  <2>1. q * (10 * p) = (10 * q) * p
    BY <1>2, <1>4
  <2>2. (10 * q) * p <= rest * p
    <3> DEFINE m == rest - 10 * q
    <3>1. m \in Nat /\ rest = 10 * q + m
      BY <1>2
    <3> HIDE DEF m
    <3>2. rest * p = (10 * q) * p + m * p /\ m * p \in Nat /\ (10 * q) * p \in Nat
      BY <1>2, <1>4, <3>1
    <3> QED BY <3>2
  <2>3. q * (10 * p) \in Nat /\ rest * p \in Nat /\ (10 * q) * p \in Nat
    BY <1>2, <1>4
  <2> QED BY <1>3, <2>1, <2>2, <2>3
<1>6. l + 1 > 1 => p <= val
  <2>1. CASE l = 0
    BY <1>1, <2>1
  <2>2. CASE l # 0
    <3>1. rest >= 1 /\ p <= rest * p
      <4>1. rest - 1 \in Nat /\ rest = (rest - 1) + 1
        BY <1>3, <2>2
      <4> DEFINE m == rest - 1
      <4>2. m \in Nat /\ rest = m + 1
        BY <4>1
      <4> HIDE DEF m
      <4>3. rest * p = m * p + p /\ m * p \in Nat
        BY <1>4, <4>2
      <4> QED BY <1>4, <4>2, <4>3
    <3> QED BY <1>3, <1>4, <3>1
  <2> QED BY <2>1, <2>2
<1> QED BY <1>1, <1>4, <1>5, <1>6 DEF InPowers, l, q, p

LEMMA TurnTurned ==
  ASSUME NEW val \in Nat, NEW base \in Bases, NEW flags, NEW k \in Nat, NEW at,
         Turned(at, k, val, base, flags), at.rest # 0 \/ Len(at.digits) = 0
  PROVE  Turned(DigitTurn(at, base, flags), k + 1, val, base, flags)
<1> DEFINE rest == at.rest
           digits == at.digits
           q == rest \div base
           d == rest % base
           c == toDigit(d, flags)
           next == DigitTurn(at, base, flags)
           more == <<c>> \o digits
<1>1. /\ at \in DigitState /\ rest \in Nat /\ digits \in Seq(Nat) /\ Len(digits) \in Nat /\ Len(digits) <= k
      /\ AreDigits(digits, base, flags) /\ ValueFrom(rest, digits, base, val)
      /\ (rest # 0 => rest + k <= val) /\ (base = 10 => InPowers(digits, rest, val))
      /\ (rest # 0 \/ Len(digits) = 0)
  BY DEF Turned, DigitState
<1>2. /\ q \in Nat /\ d \in 0 .. base - 1 /\ rest = q * base + d /\ (rest # 0 => q < rest)
      /\ q <= rest /\ (q = 0 => d = rest) /\ d \in 0 .. 15
  BY <1>1, DivisionIs
<1>3. c \in Nat /\ DigitVal(c) = d /\ (c = 48 <=> d = 0)
  <2>1. d \in 0 .. 15
    BY <1>2
  <2> HIDE DEF d
  <2> QED BY <2>1, DigitIs
<1>4. next \in DigitState /\ next.rest = q /\ next.digits = more
  BY <1>1, TurnState
<1>5. base = 10 => InPowers(more, rest \div 10, val)
  <2> HIDE DEF c, rest, digits, more
  <2>1. base = 10 => InPowers(<<c>> \o digits, rest \div 10, val)
    BY <1>1, <1>3, PowersTurn
  <2> QED BY <2>1 DEF more
<1>6. base = 10 => q = rest \div 10
  OBVIOUS
<1>7. c = toDigit(d, flags)
  OBVIOUS
<1> HIDE DEF rest, digits, q, d, c, next
<1>8. more \in Seq(Nat) /\ Len(more) = Len(digits) + 1 /\ more[1] = c /\ \A i \in 1 .. Len(digits) : more[i + 1] = digits[i]
  BY <1>1, <1>3
<1>9. ValueFrom(q, more, base, val)
  <2>1. base \in Nat
    BY DEF Bases
  <2> QED BY <1>1, <1>2, <1>3, <2>1, ValueOfDigit
<1> HIDE DEF more
<1>10. AreDigits(more, base, flags)
  <2> SUFFICES ASSUME NEW i \in 1 .. Len(more) PROVE \E e \in 0 .. base - 1 : more[i] = toDigit(e, flags)
    BY DEF AreDigits
  <2>1. CASE i = 1
    BY <1>2, <1>7, <1>8, <2>1
  <2>2. CASE i # 1
    <3>1. i - 1 \in 1 .. Len(digits) /\ (i - 1) + 1 = i
      BY <1>1, <1>8, <2>2
    <3>2. more[i] = digits[i - 1]
      BY <1>8, <3>1
    <3> QED BY <1>1, <3>1, <3>2 DEF AreDigits
  <2> QED BY <2>1, <2>2
<1>11. q # 0 => q + (k + 1) <= val
  <2> SUFFICES ASSUME q # 0 PROVE q + (k + 1) <= val
    OBVIOUS
  <2>1. rest # 0 /\ q < rest /\ rest + k <= val
    BY <1>1, <1>2
  <2> QED BY <1>1, <1>2, <2>1
<1>12. q = 0 /\ Len(more) > 1 => more[1] # 48
  BY <1>1, <1>2, <1>3, <1>8
<1>13. base = 10 => InPowers(more, q, val)
  BY <1>5, <1>6
<1>14. Len(more) <= k + 1
  BY <1>1, <1>8
<1> QED BY <1>4, <1>9, <1>10, <1>11, <1>12, <1>13, <1>14 DEF Turned, next

-----------------------------------------------------------------------------
\* A number with zeroes in front.

\* The digits of a number, of which there are no more than it takes.
DigitsOf(digits, val, base, flags) ==
    /\ digits \in Seq(Nat) /\ Len(digits) \in 1 .. val + 1
    /\ AreDigits(digits, base, flags) /\ ValueFrom(0, digits, base, val)
    /\ Len(digits) > 1 => digits[1] # 48
    /\ base = 10 => \A p \in Nat \ {0} : val < Pow10(p) => Len(digits) <= p

\* The loop stops, after no more turns than the value says, with all of the digits.
LEMMA DigitsAre ==
  ASSUME NEW val \in Nat, NEW base \in Bases, NEW flags
  PROVE  DigitsOf(Digits(val, base, flags), val, base, flags)
<1> DEFINE T == DigitTurns(val, base, flags)
           none == [rest |-> val, digits |-> <<>>]
           S == {k \in 0 .. val : Turned(T[k], k + 1, val, base, flags) /\ Len(T[k].digits) >= 1}
           done == CHOOSE k \in 0 .. val : T[k].rest = 0
<1>1. Digits(val, base, flags) = T[done].digits
  BY DEF Digits
<1>2. none.rest = val /\ none.digits = <<>> /\ none \in DigitState /\ Len(<<>>) = 0
  BY DEF DigitState
<1>3. Turned(none, 0, val, base, flags)
  BY NoneTurned
<1>4. T[0] = DigitTurn(none, base, flags) /\ \A k \in Nat : T[k + 1] = NextDigit(T[k], base, flags)
  BY TurnsAre DEF FirstTurn
<1> HIDE DEF T, none
<1>5. ASSUME NEW at \in DigitState, NEW k \in Nat, Turned(at, k, val, base, flags),
             at.rest # 0 \/ Len(at.digits) = 0
      PROVE  Turned(DigitTurn(at, base, flags), k + 1, val, base, flags)
             /\ Len(DigitTurn(at, base, flags).digits) >= 1
  <2>1. Turned(DigitTurn(at, base, flags), k + 1, val, base, flags)
    BY <1>5, TurnTurned
  <2>2. DigitTurn(at, base, flags).digits = <<toDigit(at.rest % base, flags)>> \o at.digits
        /\ DigitTurn(at, base, flags) \in DigitState
    BY TurnState
  <2>3. DigitTurn(at, base, flags).digits # <<>>
    <3> DEFINE c == toDigit(at.rest % base, flags)
    <3>1. at.digits \in Seq(Nat) /\ at.rest \in Nat
      BY DEF DigitState
    <3>2. c \in Nat
      BY <3>1, DivisionIs, DigitIs
    <3> HIDE DEF c
    <3>3. <<c>> \o at.digits # <<>>
      BY <3>1, <3>2
    <3> QED BY <2>2, <3>3 DEF c
  <2> QED BY <2>1, <2>2, <2>3 DEF DigitState
<1>6. 0 \in S
  <2>1. Turned(T[0], 0 + 1, val, base, flags) /\ Len(T[0].digits) >= 1
    BY <1>2, <1>3, <1>4, <1>5, 0 \in Nat
  <2> QED BY <2>1
<1>7. ASSUME NEW k \in 0 .. val - 1, k \in S PROVE k + 1 \in S
  <2> DEFINE at == T[k]
             n == k + 1
  <2>1. Turned(at, n, val, base, flags) /\ Len(at.digits) >= 1 /\ T[n] = NextDigit(at, base, flags)
        /\ n \in 0 .. val /\ n \in Nat
    BY <1>4, <1>7
  <2> HIDE DEF at, n
  <2>2. at \in DigitState
    BY <2>1 DEF Turned
  <2>3. Turned(T[n], n + 1, val, base, flags) /\ Len(T[n].digits) >= 1
    <3>1. CASE at.rest = 0
      <4>1. T[n] = at
        BY <2>1, <3>1 DEF NextDigit
      <4>2. Turned(at, n + 1, val, base, flags)
        BY <2>1, <3>1 DEF Turned, DigitState
      <4> QED BY <2>1, <4>1, <4>2
    <3>2. CASE at.rest # 0
      <4>1. T[n] = DigitTurn(at, base, flags)
        BY <2>1, <3>2 DEF NextDigit
      <4> QED BY <1>5, <2>1, <2>2, <3>2, <4>1
    <3> QED BY <3>1, <3>2
  <2> QED BY <2>1, <2>3 DEF n
<1>8. \A k \in 0 .. val : k \in S
  <2> HIDE DEF S
  <2> QED BY <1>6, <1>7, UpTo
<1>9. done \in 0 .. val /\ T[done].rest = 0
  <2>1. T[val].rest = 0
    <3>1. val \in S
      BY <1>8
    <3> DEFINE at == T[val]
    <3>2. Turned(at, val + 1, val, base, flags)
      BY <3>1
    <3> HIDE DEF at
    <3>3. at.rest = 0
      BY <3>2 DEF Turned, DigitState
    <3> QED BY <3>3 DEF at
  <2>2. val \in 0 .. val
    OBVIOUS
  <2> QED BY <2>1, <2>2
<1> HIDE DEF done
<1> DEFINE at == T[done]
           k == done + 1
<1>10. Turned(at, k, val, base, flags) /\ Len(at.digits) >= 1 /\ at.rest = 0 /\ k \in 1 .. val + 1
  <2>1. done \in S
    BY <1>8, <1>9
  <2> QED BY <1>9, <2>1
<1> HIDE DEF at, k, S
<1>11. /\ at.digits \in Seq(Nat) /\ Len(at.digits) \in 1 .. val + 1 /\ AreDigits(at.digits, base, flags)
       /\ ValueFrom(0, at.digits, base, val) /\ (Len(at.digits) > 1 => at.digits[1] # 48)
       /\ (base = 10 => InPowers(at.digits, 0, val))
  BY <1>10 DEF Turned, DigitState
<1>12. ASSUME base = 10, NEW p \in Nat \ {0}, val < Pow10(p) PROVE Len(at.digits) <= p
  <2> DEFINE l == Len(at.digits)
  <2>1. l \in Nat /\ (l > 1 => Pow10(l - 1) <= val)
    BY <1>11, <1>12 DEF InPowers
  <2> HIDE DEF l
  <2> SUFFICES ASSUME l > p PROVE FALSE
    BY <2>1 DEF l
  <2>2. l > 1 /\ l - 1 \in Nat /\ p <= l - 1 /\ p \in Nat
    BY <2>1
  <2>3. Pow10(p) <= Pow10(l - 1) /\ Pow10(p) \in Nat /\ Pow10(l - 1) \in Nat
    BY <2>2, PowersGrow, PowersAre
  <2> QED BY <1>12, <2>1, <2>2, <2>3
<1>13. DigitsOf(at.digits, val, base, flags)
  BY <1>11, <1>12 DEF DigitsOf
<1> QED BY <1>1, <1>13 DEF at

\* Nothing is repeated a negative number of times.
LEMMA PadIs ==
  ASSUME NEW c \in Nat, NEW n \in Int
  PROVE  Rep(c, n) \in Seq(Nat) /\ Len(Rep(c, n)) = Larger(0, n) /\ \A i \in 1 .. Len(Rep(c, n)) : Rep(c, n)[i] = c
<1>1. CASE n <= 0
  <2>1. Rep(c, n) = <<>> /\ Larger(0, n) = 0
    BY <1>1, RepOfNone DEF Larger
  <2>2. <<>> \in Seq(Nat) /\ Len(<<>>) = 0 /\ \A i \in 1 .. 0 : <<>>[i] = c
    OBVIOUS
  <2> QED BY <2>1, <2>2
<1>2. CASE n > 0
  <2>1. n \in Nat /\ Larger(0, n) = n
    BY <1>2 DEF Larger
  <2>2. Rep(c, n) \in Seq(Nat) /\ Len(Rep(c, n)) = n /\ \A i \in 1 .. n : Rep(c, n)[i] = c
    BY <2>1, RepIs
  <2> QED BY <2>1, <2>2
<1> QED BY <1>1, <1>2

\* A number as it is asked for: with zeroes in front up to a number of digits.
Numeral(val, base, flags, minDigits) ==
    Rep(48, minDigits - Len(Digits(val, base, flags))) \o Digits(val, base, flags)

LEMMA NumeralIs ==
  ASSUME NEW val \in Nat, NEW base \in Bases, NEW flags, NEW minDigits \in Nat
  PROVE  /\ Numeral(val, base, flags, minDigits) \in Seq(Nat)
         /\ Len(Numeral(val, base, flags, minDigits)) = Larger(minDigits, Len(Digits(val, base, flags)))
         /\ IsNumeral(Numeral(val, base, flags, minDigits), val, base, flags, minDigits)
         /\ base = 10 => IsNumeral(Numeral(val, base, flags, minDigits), val, base, {}, minDigits)
<1> DEFINE digits == Digits(val, base, flags)
           n == minDigits - Len(digits)
           zeroes == Rep(48, n)
           all == zeroes \o digits
<1>1. DigitsOf(digits, val, base, flags)
  BY DigitsAre
<1>2. Numeral(val, base, flags, minDigits) = all
  BY DEF Numeral
<1> HIDE DEF digits
<1>3. /\ digits \in Seq(Nat) /\ Len(digits) \in Nat /\ Len(digits) >= 1 /\ AreDigits(digits, base, flags)
      /\ ValueFrom(0, digits, base, val) /\ (Len(digits) > 1 => digits[1] # 48)
  BY <1>1 DEF DigitsOf
<1>4. n \in Int /\ Larger(minDigits, Len(digits)) = Larger(0, n) + Len(digits)
  BY <1>3 DEF Larger
<1>5. zeroes \in Seq(Nat) /\ Len(zeroes) = Larger(0, n) /\ \A i \in 1 .. Len(zeroes) : zeroes[i] = 48
  <2> HIDE DEF n
  <2> QED BY <1>4, PadIs
<1>6. ValueFrom(0, all, base, val)
  <2>1. base \in Nat
    BY DEF Bases
  <2> HIDE DEF n
  <2>2. CASE n <= 0
    <3>1. zeroes = <<>>
      BY <1>4, <2>2, RepOfNone
    <3>2. all = digits
      BY <1>3, <3>1, ConcatEmptySeq
    <3> HIDE DEF all
    <3> QED BY <1>3, <3>2
  <2>3. CASE n > 0
    <3>1. n \in Nat
      BY <1>4, <2>3
    <3> QED BY <1>3, <2>1, <3>1, ValueOfZeroes
  <2> QED BY <1>4, <2>2, <2>3
<1> DEFINE z == Larger(0, n)
<1>7. z \in Nat /\ (z > 0 => z = minDigits - Len(digits)) /\ (z = 0 => minDigits <= Len(digits))
  BY <1>3 DEF Larger
<1>8. zeroes \in Seq(Nat) /\ Len(zeroes) = z /\ \A i \in 1 .. z : zeroes[i] = 48
  <2>1. Len(zeroes) = z
    BY <1>5
  <2> HIDE DEF n, z, zeroes
  <2> QED BY <1>5, <2>1
<1> HIDE DEF n, zeroes, z
<1>9. /\ all \in Seq(Nat) /\ Len(all) = z + Len(digits)
      /\ \A i \in 1 .. z + Len(digits) : all[i] = IF i <= z THEN 48 ELSE digits[i - z]
  BY <1>3, <1>7, <1>8
<1>10. Value(all, base) = val
  <2>1. base \in Nat
    BY DEF Bases
  <2> HIDE DEF all
  <2> QED BY <1>6, <1>9, <2>1, ValueIs
<1> HIDE DEF all
<1>11. ASSUME NEW i \in 1 .. Len(all) PROVE \E d \in 0 .. base - 1 : all[i] = toDigit(d, flags)
  <2>1. CASE i <= z
    <3>1. 0 \in 0 .. base - 1 /\ toDigit(0, flags) = 48
      BY DEF Bases, toDigit
    <3> QED BY <1>7, <1>9, <2>1, <3>1
  <2>2. CASE i > z
    <3>1. i - z \in 1 .. Len(digits)
      BY <1>3, <1>7, <1>9, <2>2
    <3>2. all[i] = digits[i - z]
      BY <1>3, <1>7, <1>9, <2>2
    <3> QED BY <1>3, <3>1, <3>2 DEF AreDigits
  <2> QED BY <1>7, <2>1, <2>2
<1>12. ASSUME NEW i \in DOMAIN all
       PROVE  /\ all[i] \in (48 .. 57) \cup Letters(flags) /\ DigitVal(all[i]) \in 0 .. base - 1
              /\ base = 10 => all[i] \in 48 .. 57
  <2>1. i \in 1 .. Len(all)
    BY <1>9
  <2>2. PICK d \in 0 .. base - 1 : all[i] = toDigit(d, flags)
    BY <1>11, <2>1
  <2>3. d \in 0 .. 15 /\ (base = 10 => d < 10)
    BY <2>2 DEF Bases
  <2>4. /\ DigitVal(toDigit(d, flags)) = d /\ toDigit(d, flags) \in (48 .. 57) \cup Letters(flags)
        /\ (d < 10 => toDigit(d, flags) \in 48 .. 57)
    BY <2>3, DigitIs
  <2> QED BY <2>2, <2>3, <2>4
<1>13. /\ Len(all) >= 1 /\ Len(all) >= minDigits
       /\ Len(all) > minDigits /\ Len(all) > 1 => all[1] # 48
  <2>1. Len(all) >= 1 /\ Len(all) >= minDigits
    BY <1>3, <1>7, <1>9
  <2>2. ASSUME Len(all) > minDigits, Len(all) > 1 PROVE all[1] # 48
    <3>1. z = 0
      BY <1>3, <1>7, <1>9, <2>2
    <3>2. all[1] = digits[1 - 0] /\ Len(digits) > 1
      BY <1>3, <1>9, <2>2, <3>1
    <3> QED BY <1>3, <3>2
  <2> QED BY <2>1, <2>2
<1>14. IsNumeral(all, val, base, flags, minDigits)
  BY <1>10, <1>12, <1>13 DEF IsNumeral
<1>15. base = 10 => IsNumeral(all, val, base, {}, minDigits)
  BY <1>10, <1>12, <1>13 DEF IsNumeral
<1>16. Len(all) = Larger(minDigits, Len(digits))
  BY <1>3, <1>7, <1>9 DEF Larger
<1> QED BY <1>2, <1>9, <1>14, <1>15, <1>16 DEF digits

-----------------------------------------------------------------------------
\* An unsigned number: a prefix, spaces and the number.

LEMMA JoinIs ==
  ASSUME NEW a \in Seq(Nat), NEW b \in Seq(Nat)
  PROVE  a \o b \in Seq(Nat) /\ Len(a \o b) = Len(a) + Len(b) /\ Len(a) \in Nat /\ Len(b) \in Nat
  OBVIOUS

LEMMA EndIs == ASSUME NEW flags PROVE End(flags) \in Seq(Nat) /\ Len(End(flags)) \in 0 .. 1
<1>1. CASE "DontNullTerminate" \in flags
  BY <1>1 DEF End
<1>2. CASE "DontNullTerminate" \notin flags
  BY <1>2 DEF End
<1> QED BY <1>1, <1>2

Lead(base, flags) == IF "NumPrefix" \in flags THEN Prefix(base) ELSE <<>>

LEMMA LeadIs ==
  ASSUME NEW base \in Bases, NEW flags
  PROVE  Lead(base, flags) \in Seq(Nat) /\ Len(Lead(base, flags)) \in 0 .. 3 /\ (base = 10 => Lead(base, flags) = <<>>)
<1>1. CASE base = 2
  BY <1>1 DEF Lead, Prefix
<1>2. CASE base = 8
  BY <1>2 DEF Lead, Prefix
<1>3. CASE base = 10
  BY <1>3 DEF Lead, Prefix
<1>4. CASE base = 16
  BY <1>4 DEF Lead, Prefix
<1> QED BY <1>1, <1>2, <1>3, <1>4 DEF Bases

\* What an unsigned number is written as: a prefix, spaces, and the number.
Spaces(val, base, flags, minDigits, minLen) ==
    Larger(0, minLen - (Len(Lead(base, flags)) + Len(Numeral(val, base, flags, minDigits))))
Body(val, base, flags, minDigits, minLen) ==
    (Lead(base, flags) \o Rep(32, Spaces(val, base, flags, minDigits, minLen))) \o Numeral(val, base, flags, minDigits)

LEMMA BodyLen ==
  ASSUME NEW val \in Nat, NEW base \in Bases, NEW flags, NEW minDigits \in Nat, NEW minLen \in Nat
  PROVE  /\ Body(val, base, flags, minDigits, minLen) \in Seq(Nat)
         /\ Len(Body(val, base, flags, minDigits, minLen)) >= 1 /\ Len(Body(val, base, flags, minDigits, minLen)) >= minLen
         /\ Len(Body(val, base, flags, minDigits, minLen)) <= val + minDigits + minLen + 4
         /\ base = 10 => Len(Body(val, base, flags, minDigits, minLen)) <= val + minDigits + minLen + 1
         /\ Spaces(val, base, flags, minDigits, minLen) \in 0 .. minLen
         /\ Spaces(val, base, flags, minDigits, minLen) > 0 => Len(Body(val, base, flags, minDigits, minLen)) = minLen
<1> DEFINE lead == Lead(base, flags)
           num == Numeral(val, base, flags, minDigits)
           digits == Digits(val, base, flags)
           n == Spaces(val, base, flags, minDigits, minLen)
           rep == Rep(32, n)
<1>1. lead \in Seq(Nat) /\ Len(lead) \in 0 .. 3 /\ (base = 10 => Len(lead) = 0)
  BY LeadIs
<1>2. num \in Seq(Nat) /\ Len(num) = Larger(minDigits, Len(digits)) /\ Len(digits) \in 1 .. val + 1
  BY NumeralIs, DigitsAre DEF DigitsOf
<1>3. n = Larger(0, minLen - (Len(lead) + Len(num)))
  BY DEF Spaces
<1>4. Body(val, base, flags, minDigits, minLen) = (lead \o rep) \o num
  BY DEF Body
<1> HIDE DEF lead, num, digits, n
<1>5. Len(num) >= 1 /\ Len(num) <= val + minDigits + 1 /\ Len(num) \in Nat
  BY <1>2 DEF Larger
<1>6. n \in 0 .. minLen /\ n \in Nat
  BY <1>1, <1>3, <1>5 DEF Larger
<1>7. rep \in Seq(Nat) /\ Len(rep) = n
  BY <1>6, RepIs
<1> HIDE DEF rep
<1>8. (lead \o rep) \o num \in Seq(Nat) /\ Len((lead \o rep) \o num) = Len(lead) + n + Len(num)
  <2> DEFINE front == lead \o rep
  <2>1. front \in Seq(Nat) /\ Len(front) = Len(lead) + n
    BY <1>1, <1>7, JoinIs
  <2> HIDE DEF front
  <2>2. front \o num \in Seq(Nat) /\ Len(front \o num) = Len(front) + Len(num)
    <3>1. front \in Seq(Nat) /\ num \in Seq(Nat)
      BY <1>2, <2>1
    <3> QED BY <3>1, JoinIs
  <2>3. Len(front \o num) = Len(lead) + n + Len(num)
    BY <2>1, <2>2
  <2> QED BY <2>2, <2>3 DEF front
<1>9. Len(lead) + n + Len(num) = Larger(minLen, Len(lead) + Len(num)) /\ (n > 0 => Len(lead) + n + Len(num) = minLen)
  BY <1>1, <1>3, <1>5 DEF Larger
<1> DEFINE l == Len((lead \o rep) \o num)
<1>10. l >= 1 /\ l >= minLen /\ l <= val + minDigits + minLen + 4 /\ (n > 0 => l = minLen)
       /\ (base = 10 => l <= val + minDigits + minLen + 1)
  <2> DEFINE u == Len(lead)
             w == Len(num)
  <2>1. u \in 0 .. 3 /\ (base = 10 => u = 0) /\ w \in Nat /\ w >= 1 /\ w <= val + minDigits + 1
    BY <1>1, <1>5
  <2>2. l = u + n + w /\ n = Larger(0, minLen - (u + w))
    BY <1>3, <1>8
  <2> HIDE DEF u, w, l
  <2> QED BY <1>6, <2>1, <2>2 DEF Larger
<1> HIDE DEF l
<1> QED BY <1>4, <1>6, <1>8, <1>10 DEF l, n

LEMMA LargerSum ==
  ASSUME NEW a \in Nat, NEW b \in Nat, NEW len \in Nat
  PROVE  a + Larger(0, len - (a + b)) + b = Larger(len, a + b)
  BY DEF Larger

LEMMA UnsignedIs ==
  ASSUME NEW size \in Int, NEW val \in Nat, NEW base \in Bases, NEW flags, NEW minDigits \in Nat, NEW minLen \in Nat
  PROVE  Unsigned(size, val, base, flags, minDigits, minLen)
         = IF Len(Body(val, base, flags, minDigits, minLen)) + Len(End(flags)) <= size
           THEN Done(Body(val, base, flags, minDigits, minLen), flags) ELSE Fail(<<>>)
<1> DEFINE body == Body(val, base, flags, minDigits, minLen)
           lead == Lead(base, flags)
           digits == Digits(val, base, flags)
           zeroes == Rep(48, minDigits - Len(digits))
           num == Numeral(val, base, flags, minDigits)
           total == Len((lead \o zeroes) \o digits)
           e == Len(End(flags))
           n == Spaces(val, base, flags, minDigits, minLen)
<1>1. Unsigned(size, val, base, flags, minDigits, minLen)
      = IF minLen <= size - e /\ total <= size - e
        THEN Done(((lead \o Rep(32, minLen - total)) \o zeroes) \o digits, flags)
        ELSE Fail(<<>>)
  BY DEF Unsigned, Fits, Room, Lead
<1>2. num = zeroes \o digits
  BY DEF Numeral
<1>3. digits \in Seq(Nat) /\ zeroes \in Seq(Nat)
  <2>1. digits \in Seq(Nat)
    BY DigitsAre DEF DigitsOf
  <2>2. minDigits - Len(digits) \in Int
    BY <2>1
  <2> HIDE DEF digits
  <2> QED BY <2>1, <2>2, PadIs
<1>4. lead \in Seq(Nat) /\ Len(lead) \in Nat /\ e \in Nat
  BY LeadIs, EndIs
<1>6. n = Larger(0, minLen - (Len(lead) + Len(num)))
  BY DEF Spaces
<1>7. body = (lead \o Rep(32, n)) \o num
  BY DEF Body
<1> HIDE DEF zeroes, digits, lead, num, e, n, body
<1>8. num \in Seq(Nat) /\ Len(num) \in Nat
  BY <1>2, <1>3
<1>9. total = Len(lead) + Len(num)
  <2>1. (lead \o zeroes) \o digits = lead \o num
    BY <1>2, <1>3, <1>4, Regroup
  <2> QED BY <1>4, <1>8, <2>1
<1> HIDE DEF total
<1>10. Rep(32, minLen - total) = Rep(32, n) /\ Rep(32, n) \in Seq(Nat)
  <2> DEFINE m == minLen - total
  <2>1. m \in Int /\ n = Larger(0, m)
    BY <1>4, <1>6, <1>8, <1>9
  <2> HIDE DEF m
  <2>2. n \in Nat
    BY <2>1 DEF Larger
  <2>3. Rep(32, n) \in Seq(Nat)
    BY <2>2, RepIs
  <2>4. CASE m <= 0
    <3>1. n = 0
      BY <2>1, <2>4 DEF Larger
    <3>2. Rep(32, m) = <<>> /\ Rep(32, 0) = <<>>
      BY <2>1, <2>4, RepOfNone
    <3>3. Rep(32, m) = Rep(32, n)
      BY <3>1, <3>2, Zenon
    <3> QED BY <2>3, <3>3, Zenon DEF m
  <2>5. CASE m > 0
    <3>1. n = m
      BY <2>1, <2>5 DEF Larger
    <3>2. Rep(32, m) = Rep(32, n)
      BY <3>1, Zenon
    <3> QED BY <2>3, <3>2, Zenon DEF m
  <2>6. m <= 0 \/ m > 0
    BY <2>1
  <2> QED BY <2>4, <2>5, <2>6, Zenon
<1>11. ((lead \o Rep(32, minLen - total)) \o zeroes) \o digits = body
  <2> DEFINE rep == Rep(32, n)
  <2>1. rep \in Seq(Nat) /\ Rep(32, minLen - total) = rep
    BY <1>10
  <2> HIDE DEF rep
  <2> DEFINE front == lead \o rep
  <2>2. front \in Seq(Nat)
    BY <1>4, <2>1
  <2> HIDE DEF front
  <2>3. (front \o zeroes) \o digits = front \o (zeroes \o digits)
    BY <1>3, <2>2, Regroup
  <2> QED BY <1>2, <1>7, <2>1, <2>3 DEF rep, front
<1>12. (minLen <= size - e /\ total <= size - e) <=> Len(body) + e <= size
  <2> DEFINE rep == Rep(32, n)
             front == lead \o rep
  <2>1. n \in Nat
    BY <1>4, <1>6, <1>8 DEF Larger
  <2>2. rep \in Seq(Nat) /\ Len(rep) = n
    BY <2>1, RepIs
  <2> HIDE DEF rep
  <2>3. front \in Seq(Nat) /\ Len(front) = Len(lead) + n
    BY <1>4, <2>2, JoinIs
  <2>4. body = front \o num
    BY <1>7 DEF rep
  <2> HIDE DEF front
  <2>5. Len(body) = Len(front) + Len(num)
    BY <1>8, <2>3, <2>4, JoinIs
  <2>6. Len(body) = Larger(minLen, Len(lead) + Len(num))
    <3>1. Len(body) = Len(lead) + n + Len(num)
      BY <2>3, <2>5
    <3> QED BY <1>4, <1>6, <1>8, <3>1, LargerSum
  <2> QED BY <1>4, <1>8, <1>9, <2>6 DEF Larger
<1> QED BY <1>1, <1>11, <1>12 DEF e, body

\* What a number is written as, with its sign in front; the rest of a numeral is
\* what is left when what is before it is taken off.
LEMMA DoneIs ==
  ASSUME NEW text \in Seq(Nat), NEW flags
  PROVE  /\ Done(text, flags).ok /\ Done(text, flags).text = text \o End(flags)
         /\ Done(text, flags).text \in Seq(Nat)
         /\ Len(Done(text, flags).text) = Len(text) + Len(End(flags))
         /\ Chars(Done(text, flags).text, flags) = text
<1> DEFINE e == End(flags)
<1>1. e \in Seq(Nat) /\ Len(e) \in Nat
  BY EndIs
<1>2. Done(text, flags).ok /\ Done(text, flags).text = text \o e
  BY DEF Done
<1>3. Chars(text \o e, flags) = SubSeq(text \o e, 1, Len(text \o e) - Len(e))
  BY DEF Chars
<1> HIDE DEF e
<1>4. text \o e \in Seq(Nat) /\ Len(text \o e) = Len(text) + Len(e) /\ Len(text) \in Nat
  BY <1>1
<1>5. SubSeq(text \o e, 1, Len(text)) = text
  <2>1. CASE Len(text) = 0
    <3>1. text = <<>>
      BY <2>1
    <3>2. SubSeq(text \o e, 1, 0) = <<>>
      BY SubSeqEmpty
    <3> QED BY <2>1, <3>1, <3>2
  <2>2. CASE Len(text) # 0
    <3> DEFINE l == Len(text)
    <3>1. l \in 1 .. Len(text) /\ 1 \in 1 .. Len(text)
      BY <1>4, <2>2
    <3>2. SubSeq(text \o e, 1, l) = SubSeq(text, 1, l)
      BY <1>1, <3>1, SubSeqOfConcat1
    <3>3. SubSeq(text, 1, l) = text
      BY SubSeqFull
    <3> QED BY <3>2, <3>3
  <2> QED BY <2>1, <2>2
<1>6. Len(text \o e) - Len(e) = Len(text)
  BY <1>1, <1>4
<1>7. Chars(text \o e, flags) = text
  BY <1>3, <1>5, <1>6
<1> QED BY <1>2, <1>4, <1>7 DEF e

LEMMA FromIs == ASSUME NEW a \in Seq(Nat), NEW b \in Seq(Nat) PROVE From(a \o b, Len(a)) = b
<1>1. Len(a) \in Nat /\ Len(b) \in Nat /\ a \o b \in Seq(Nat) /\ Len(a \o b) = Len(a) + Len(b)
  OBVIOUS
<1>2. From(a \o b, Len(a)) = SubSeq(a \o b, Len(a) + 1, Len(a) + Len(b))
  BY <1>1 DEF From
<1>3. CASE b = <<>>
  <2>1. SubSeq(a \o b, Len(a) + 1, Len(a) + Len(b)) = <<>>
    BY <1>1, <1>3, SubSeqEmpty
  <2> QED BY <1>2, <1>3, <2>1
<1>4. CASE b # <<>>
  <2> DEFINE l == Len(a)
             m == Len(a) + Len(b)
  <2>1. Len(b) >= 1
    BY <1>1, <1>4
  <2>2. l + 1 \in Len(a) + 1 .. Len(a) + Len(b) /\ m \in Len(a) + 1 .. Len(a) + Len(b)
        /\ (l + 1) - Len(a) = 1 /\ m - Len(a) = Len(b)
    BY <1>1, <2>1
  <2>3. SubSeq(a \o b, l + 1, m) = SubSeq(b, (l + 1) - Len(a), m - Len(a))
    BY <2>2, SubSeqOfConcat2
  <2>4. SubSeq(b, 1, Len(b)) = b
    BY SubSeqFull
  <2> QED BY <1>2, <2>2, <2>3, <2>4
<1> QED BY <1>3, <1>4

-----------------------------------------------------------------------------
\* What is written of a text that fits or does not.

\* A text is written if it fits, and what is written of one that does not fits.
Writes(result, txt, size) ==
    /\ result \in [ok : BOOLEAN, text : Seq(Nat)]
    /\ IF Len(txt) <= size THEN result.ok /\ result.text = txt ELSE ~result.ok /\ Len(result.text) <= size

LEMMA FitsNotAborted == ASSUME NEW txt, NEW size, NEW result, Writes(result, txt, size) PROVE ~Aborted(result)
<1>1. result \in [ok : BOOLEAN, text : Seq(Nat)]
  BY Zenon DEF Writes
<1>2. DOMAIN result = {"ok", "text"}
  BY <1>1
<1>3. "aborted" # "ok" /\ "aborted" # "text"
  OBVIOUS
<1> QED BY <1>2, <1>3 DEF Aborted

LEMMA FittingFrom ==
  ASSUME NEW txt \in Seq(Nat), NEW size \in Int, NEW big \in Int, NEW result, NEW all,
         Writes(result, txt, size), Writes(all, txt, big), Len(txt) <= big
  PROVE  Fitting(result, all, size) /\ all.text = txt
<1>1. all.ok /\ all.text = txt
  BY DEF Writes
<1>2. result.ok <=> Len(txt) <= size
  BY DEF Writes
<1>3. result.ok => result.text = txt
  BY DEF Writes
<1>4. Len(result.text) <= size
  BY DEF Writes
<1> QED BY <1>1, <1>2, <1>3, <1>4 DEF Fitting

LEMMA BehindWrites ==
  ASSUME NEW front \in Seq(Nat), NEW txt \in Seq(Nat), NEW size \in Int, NEW result,
         Writes(result, txt, size - Len(front))
  PROVE  Writes(Behind(front, result), front \o txt, size)
<1> DEFINE new == front \o result.text
<1>1. result \in [ok : BOOLEAN, text : Seq(Nat)] /\ result.text \in Seq(Nat)
  BY DEF Writes
<1>2. new \in Seq(Nat) /\ Len(new) = Len(front) + Len(result.text)
  BY <1>1, JoinIs
<1>3. Behind(front, result) = [result EXCEPT !.text = new]
  BY DEF Behind
<1> HIDE DEF new
<1>4. Len(front \o txt) = Len(front) + Len(txt) /\ Len(front) \in Nat /\ Len(txt) \in Nat
  BY JoinIs
<1>5. /\ Behind(front, result) \in [ok : BOOLEAN, text : Seq(Nat)]
      /\ Behind(front, result).ok = result.ok /\ Behind(front, result).text = new
  BY <1>1, <1>2, <1>3
<1>6. CASE Len(txt) <= size - Len(front)
  <2>1. result.ok /\ result.text = txt
    BY <1>6 DEF Writes
  <2>2. new = front \o txt
    BY <2>1 DEF new
  <2>3. Len(front \o txt) <= size
    BY <1>4, <1>6
  <2> QED BY <1>5, <2>1, <2>2, <2>3 DEF Writes
<1>7. CASE ~(Len(txt) <= size - Len(front))
  <2>1. ~result.ok /\ Len(result.text) <= size - Len(front)
    BY <1>7 DEF Writes
  <2>2. ~(Len(front \o txt) <= size) /\ Len(new) <= size
    BY <1>1, <1>2, <1>4, <1>7, <2>1
  <2> QED BY <1>5, <2>1, <2>2 DEF Writes
<1> QED BY <1>6, <1>7

LEMMA DoneWrites ==
  ASSUME NEW txt \in Seq(Nat), NEW flags, NEW size \in Int, Len(txt) + Len(End(flags)) <= size
  PROVE  Writes(Done(txt, flags), txt \o End(flags), size)
<1>1. End(flags) \in Seq(Nat)
  BY EndIs
<1>2. txt \o End(flags) \in Seq(Nat) /\ Len(txt \o End(flags)) = Len(txt) + Len(End(flags))
  BY <1>1, JoinIs
<1>3. Done(txt, flags) = [ok |-> TRUE, text |-> txt \o End(flags)]
  BY DEF Done
<1> QED BY <1>2, <1>3 DEF Writes

LEMMA FailWrites ==
  ASSUME NEW part \in Seq(Nat), NEW txt \in Seq(Nat), NEW size \in Int, Len(part) < size, Len(txt) > size
  PROVE  Writes(Fail(part), txt, size)
<1>1. part \o <<0>> \in Seq(Nat) /\ Len(part \o <<0>>) = Len(part) + 1 /\ Len(part) \in Nat
  OBVIOUS
<1>2. Fail(part) = [ok |-> FALSE, text |-> part \o <<0>>]
  BY DEF Fail
<1>3. Fail(part) \in [ok : BOOLEAN, text : Seq(Nat)] /\ ~Fail(part).ok /\ Len(Fail(part).text) <= size
  BY <1>1, <1>2
<1>4. ~(Len(txt) <= size)
  OBVIOUS
<1> QED BY <1>3, <1>4 DEF Writes

LEMMA UnsignedWrites ==
  ASSUME NEW size \in Nat \ {0}, NEW val \in Nat, NEW base \in Bases, NEW flags, NEW minDigits \in Nat,
         NEW minLen \in Nat
  PROVE  Writes(Unsigned(size, val, base, flags, minDigits, minLen),
                Body(val, base, flags, minDigits, minLen) \o End(flags), size)
<1> DEFINE body == Body(val, base, flags, minDigits, minLen)
           e == End(flags)
<1>1. body \in Seq(Nat)
  BY BodyLen
<1>2. Unsigned(size, val, base, flags, minDigits, minLen)
      = IF Len(body) + Len(e) <= size THEN Done(body, flags) ELSE Fail(<<>>)
  BY UnsignedIs
<1>3. e \in Seq(Nat)
  BY EndIs
<1> HIDE DEF body
<1>4. CASE Len(body) + Len(e) <= size
  <2>1. Writes(Done(body, flags), body \o End(flags), size)
    BY <1>1, <1>4, DoneWrites
  <2> QED BY <1>2, <1>4, <2>1 DEF body
<1>5. CASE ~(Len(body) + Len(e) <= size)
  <2> DEFINE txt == body \o e
             none == <<>>
  <2>1. txt \in Seq(Nat) /\ Len(txt) = Len(body) + Len(e) /\ Len(body) \in Nat /\ Len(e) \in Nat
    BY <1>1, <1>3, JoinIs
  <2>2. none \in Seq(Nat) /\ Len(none) = 0 /\ size > 0 /\ size \in Int /\ none = <<>>
    OBVIOUS
  <2> HIDE DEF txt, none
  <2>3. Len(txt) > size /\ Len(none) < size
    BY <1>5, <2>1, <2>2
  <2>4. Writes(Fail(none), txt, size)
    BY <2>1, <2>2, <2>3, FailWrites
  <2>5. Unsigned(size, val, base, flags, minDigits, minLen) = Fail(none)
    BY <1>2, <1>5, <2>2
  <2> QED BY <2>4, <2>5 DEF txt, body
<1> QED BY <1>4, <1>5

LEMMA SignIs == ASSUME NEW negative PROVE Sign(negative) \in Seq(Nat) /\ Len(Sign(negative)) \in 0 .. 1
<1>1. CASE negative
  BY <1>1 DEF Sign
<1>2. CASE ~negative
  BY <1>2 DEF Sign
<1> QED BY <1>1, <1>2

LEMMA SignedWrites ==
  ASSUME NEW size \in Nat \ {0}, NEW val \in Int, NEW base \in Bases, NEW flags, NEW minDigits \in Nat,
         NEW minLen \in Nat
  PROVE  Writes(Signed(size, val, base, flags, minDigits, minLen),
                Sign(val < 0) \o (Body(Abs(val), base, flags, minDigits, minLen) \o End(flags)), size)
<1> DEFINE a == Abs(val)
           body == Body(a, base, flags, minDigits, minLen)
           txt == body \o End(flags)
<1>1. a \in Nat /\ (val >= 0 => a = val) /\ (val < 0 => a = -val)
  BY DEF Abs
<1> HIDE DEF a
<1>2. txt \in Seq(Nat) /\ Len(txt) >= 1
  <2>1. body \in Seq(Nat) /\ Len(body) >= 1
    BY <1>1, BodyLen
  <2> HIDE DEF body
  <2>2. End(flags) \in Seq(Nat)
    BY EndIs
  <2>3. txt \in Seq(Nat) /\ Len(txt) = Len(body) + Len(End(flags)) /\ Len(End(flags)) \in Nat /\ Len(body) \in Nat
    BY <2>1, <2>2, JoinIs
  <2> QED BY <2>1, <2>3
<1>3. CASE val >= 0
  <2>1. Signed(size, val, base, flags, minDigits, minLen) = Unsigned(size, a, base, flags, minDigits, minLen)
    BY <1>1, <1>3 DEF Signed
  <2>2. Sign(val < 0) = <<>>
    BY <1>3 DEF Sign
  <2>3. <<>> \o txt = txt
    BY <1>2, ConcatEmptySeq
  <2>4. Writes(Unsigned(size, a, base, flags, minDigits, minLen), txt, size)
    BY <1>1, UnsignedWrites
  <2> HIDE DEF txt
  <2>5. Writes(Signed(size, val, base, flags, minDigits, minLen), Sign(val < 0) \o txt, size)
    BY <2>1, <2>2, <2>3, <2>4
  <2> QED BY <2>5 DEF txt, a
<1>4. CASE val < 0
  <2>1. Sign(val < 0) = <<45>> /\ <<45>> \in Seq(Nat) /\ Len(<<45>>) = 1
    BY <1>4 DEF Sign
  <2>2. CASE size < 2
    <3>1. size = 1
      BY <2>2
    <3>2. Signed(size, val, base, flags, minDigits, minLen) = [ok |-> FALSE, text |-> <<0>>]
      BY <1>4, <3>1 DEF Signed
    <3>3. Len(<<45>> \o txt) = 1 + Len(txt) /\ Len(txt) \in Nat
      BY <1>2, <2>1, JoinIs
    <3>4. ~(Len(<<45>> \o txt) <= size)
      BY <1>2, <3>1, <3>3
    <3>5. Writes([ok |-> FALSE, text |-> <<0>>], <<45>> \o txt, size)
      <4> HIDE DEF txt
      <4> QED BY <3>1, <3>4 DEF Writes
    <3> QED BY <2>1, <3>2, <3>5 DEF a
  <2>3. CASE size >= 2
    <3> DEFINE u == Unsigned(size - 1, a, base, flags, minDigits, minLen)
               front == <<45>>
    <3>1. Signed(size, val, base, flags, minDigits, minLen) = Behind(front, u)
      BY <1>1, <1>4, <2>3 DEF Signed
    <3>2. size - 1 \in Nat \ {0} /\ size \in Int
      BY <2>3
    <3>3. Writes(u, txt, size - 1)
      BY <1>1, <3>2, UnsignedWrites
    <3>4. front \in Seq(Nat) /\ Len(front) = 1
      OBVIOUS
    <3> HIDE DEF u, front, txt
    <3>5. Writes(u, txt, size - Len(front))
      BY <3>3, <3>4
    <3>6. Writes(Behind(front, u), front \o txt, size)
      BY <1>2, <3>2, <3>4, <3>5, BehindWrites
    <3> QED BY <2>1, <3>1, <3>6 DEF front, txt, a
  <2> QED BY <2>2, <2>3
<1> QED BY <1>3, <1>4

-----------------------------------------------------------------------------
\* An integer.

LEMMA CharsIs ==
  ASSUME NEW front \in Seq(Nat), NEW body \in Seq(Nat), NEW flags
  PROVE  /\ Chars(front \o (body \o End(flags)), flags) = front \o body
         /\ front \o (body \o End(flags)) \in Seq(Nat) /\ front \o body \in Seq(Nat)
         /\ Len(front \o (body \o End(flags))) = Len(front) + Len(body) + Len(End(flags))
         /\ Len(front \o body) = Len(front) + Len(body)
<1> DEFINE e == End(flags)
           all == front \o body
<1>1. e \in Seq(Nat) /\ Len(e) \in Nat
  BY EndIs
<1>2. all \in Seq(Nat) /\ Len(all) = Len(front) + Len(body) /\ Len(front) \in Nat /\ Len(body) \in Nat
  BY JoinIs
<1>3. Done(all, flags).text = all \o e /\ Chars(Done(all, flags).text, flags) = all
  <2> HIDE DEF all
  <2> QED BY <1>2, DoneIs
<1> HIDE DEF e
<1>4. front \o (body \o e) = all \o e
  BY <1>1, Regroup
<1> HIDE DEF all
<1>5. all \o e \in Seq(Nat) /\ Len(all \o e) = Len(all) + Len(e)
  BY <1>1, <1>2, JoinIs
<1>6. Len(all \o e) = Len(front) + Len(body) + Len(e)
  BY <1>1, <1>2, <1>5
<1>7. Chars(all \o e, flags) = all
  BY <1>3
<1> QED BY <1>2, <1>4, <1>5, <1>6, <1>7 DEF all, e

EndedFacts(txt, front, body, flags) ==
    /\ txt \in Seq(Nat) /\ Len(txt) = Len(front) + Len(body) + Len(End(flags))
    /\ Chars(txt, flags) = front \o body /\ Len(front \o body) = Len(front) + Len(body)

LEMMA EndedFactsAre ==
  ASSUME NEW front \in Seq(Nat), NEW body \in Seq(Nat), NEW flags
  PROVE  EndedFacts(front \o (body \o End(flags)), front, body, flags)
  BY CharsIs DEF EndedFacts

\* The parts of a number, behind what else is in front of it.
Parts(front, lead, n, num) ==
    /\ front \o ((lead \o Rep(32, n)) \o num) = ((front \o lead) \o Rep(32, n)) \o num
    /\ From(((front \o lead) \o Rep(32, n)) \o num, Len(front \o lead) + n) = num

LEMMA PartsAre ==
  ASSUME NEW front \in Seq(Nat), NEW lead \in Seq(Nat), NEW n \in Nat, NEW num \in Seq(Nat)
  PROVE  Parts(front, lead, n, num)
<1> DEFINE rep == Rep(32, n)
           a == lead \o rep
           b == front \o lead
           d == b \o rep
<1>1. rep \in Seq(Nat) /\ Len(rep) = n
  BY RepIs
<1> HIDE DEF rep
<1>2. a \in Seq(Nat)
  BY <1>1, JoinIs
<1>3. b \in Seq(Nat) /\ Len(b) \in Nat
  BY JoinIs
<1>4. front \o a = b \o rep
  BY <1>1, Regroup
<1>5. front \o (a \o num) = (front \o a) \o num
  <2> HIDE DEF a
  <2> QED BY <1>2, Regroup
<1> HIDE DEF a, b
<1>6. d \in Seq(Nat) /\ Len(d) = Len(b) + n
  BY <1>1, <1>3, JoinIs
<1>7. front \o (a \o num) = d \o num
  BY <1>4, <1>5
<1> HIDE DEF d
<1>8. From(d \o num, Len(d)) = num
  BY <1>6, FromIs
<1>9. From(d \o num, Len(b) + n) = num
  BY <1>6, <1>8
<1> QED BY <1>7, <1>9 DEF Parts, a, b, d, rep

\* An integer is written if it fits, and reads back as it was.
LEMMA IntegerHolds ==
  ASSUME NEW c, c.size \in Nat \ {0}, c.val \in Int, c.base \in Bases, c.minDigits \in Nat, c.minLen \in Nat
  PROVE  IntegerFits(c, Signed(c.size, c.val, c.base, c.flags, c.minDigits, c.minLen))
<1> DEFINE size == c.size
           val == c.val
           base == c.base
           flags == c.flags
           minDigits == c.minDigits
           minLen == c.minLen
           a == Abs(val)
           negative == val < 0
           sign == Sign(negative)
           big == a + minDigits + minLen + 6
           body == Body(a, base, flags, minDigits, minLen)
           result == Signed(size, val, base, flags, minDigits, minLen)
           all == Signed(big, val, base, flags, minDigits, minLen)
           txt == sign \o (body \o End(flags))
           chars == sign \o body
           lead == sign \o Lead(base, flags)
           pad == Spaces(a, base, flags, minDigits, minLen)
           num == Numeral(a, base, flags, minDigits)
<1>1. size \in Nat \ {0} /\ val \in Int /\ base \in Bases /\ minDigits \in Nat /\ minLen \in Nat
  OBVIOUS
<1> HIDE DEF size, val, base, flags, minDigits, minLen
<1>2. a \in Nat
  BY <1>1 DEF Abs
<1>3. sign \in Seq(Nat) /\ Len(sign) \in 0 .. 1
  BY SignIs
<1>4. Writes(result, txt, size)
  BY <1>1, SignedWrites
<1>5. big \in Nat \ {0} /\ big \in Int /\ big = a + minDigits + minLen + 6
  <2> HIDE DEF a
  <2> QED BY <1>1, <1>2
<1>6. Writes(all, txt, big)
  <2> HIDE DEF big
  <2> QED BY <1>1, <1>5, SignedWrites
<1> HIDE DEF result, all, big, a, sign
<1>7. body \in Seq(Nat) /\ Len(body) >= 1 /\ Len(body) >= minLen /\ Len(body) <= a + minDigits + minLen + 4
      /\ pad \in 0 .. minLen /\ (pad > 0 => Len(body) = minLen)
  BY <1>1, <1>2, BodyLen
<1>8. num \in Seq(Nat) /\ IsNumeral(num, a, base, flags, minDigits)
  BY <1>1, <1>2, NumeralIs
<1>9. Lead(base, flags) \in Seq(Nat)
  BY <1>1, LeadIs
<1>10. chars = (lead \o Rep(32, pad)) \o num /\ From(chars, Len(lead) + pad) = num
  <2> DEFINE mine == Lead(base, flags)
  <2>1. pad \in Nat /\ mine \in Seq(Nat) /\ sign \in Seq(Nat) /\ num \in Seq(Nat)
    BY <1>1, <1>3, <1>7, <1>8, <1>9
  <2>2. body = (mine \o Rep(32, pad)) \o num
    BY DEF Body
  <2> HIDE DEF pad, num, mine, body
  <2>3. Parts(sign, mine, pad, num)
    BY <2>1, PartsAre, Zenon
  <2> QED BY <2>2, <2>3 DEF mine, Parts
<1> HIDE DEF pad, num, body
<1>11. /\ Chars(txt, flags) = chars /\ txt \in Seq(Nat) /\ Len(txt) = Len(sign) + Len(body) + Len(End(flags))
       /\ Len(chars) = Len(sign) + Len(body)
  BY <1>3, <1>7, CharsIs
<1>12. Len(End(flags)) \in 0 .. 1 /\ Len(body) \in Nat
  BY <1>7, EndIs
<1> HIDE DEF txt, chars
<1>13. Len(txt) <= big /\ Len(chars) >= minLen /\ (pad > 0 => Len(chars) = minLen + Len(sign))
  <2> DEFINE t == Len(txt)
             h == Len(chars)
             u == Len(sign)
             v == Len(body)
             w == Len(End(flags))
  <2>1. u \in 0 .. 1 /\ v \in Nat /\ w \in 0 .. 1 /\ t = u + v + w /\ h = u + v
    BY <1>3, <1>11, <1>12
  <2>2. v >= minLen /\ v <= a + minDigits + minLen + 4 /\ (pad > 0 => v = minLen)
    BY <1>7
  <2> HIDE DEF t, h, u, v, w
  <2>3. t <= big /\ h >= minLen /\ (pad > 0 => h = minLen + u)
    BY <1>1, <1>2, <1>5, <2>1, <2>2
  <2> QED BY <2>3 DEF t, h, u
<1>14. Fitting(result, all, size) /\ all.text = txt
  <2>1. txt \in Seq(Nat) /\ size \in Int /\ big \in Int
    BY <1>1, <1>5, <1>11
  <2> QED BY <1>4, <1>6, <1>13, <2>1, FittingFrom, Zenon
<1>16. Chars(all.text, flags) = chars
  BY <1>11, <1>14
<1>17. chars \in Seq(Nat)
  BY <1>3, <1>7, CharsIs DEF chars
<1> HIDE DEF lead
<1> DEFINE ch == Chars(all.text, flags)
           Between(k, j) == SubSeq(ch, Len(lead) + k + 1, Len(ch) - j)
<1>18. ch = chars
  BY <1>16
<1>19. /\ ch = ((lead \o Rep(32, pad)) \o Between(pad, 0)) \o Rep(32, 0)
       /\ IsNumeral(Between(pad, 0), a, base, flags, minDigits)
       /\ Len(ch) >= minLen
       /\ pad + 0 > 0 => Len(ch) <= minLen + Len(sign)
  <2> HIDE DEF ch
  <2>1. Between(pad, 0) = num
    <3>1. Len(chars) - 0 = Len(chars)
      <4> DEFINE h == Len(chars)
      <4>1. h \in Nat
        BY <1>17
      <4> HIDE DEF h
      <4>2. h - 0 = h
        BY <4>1
      <4> QED BY <4>2 DEF h
    <3>2. From(chars, Len(lead) + pad) = SubSeq(chars, Len(lead) + pad + 1, Len(chars))
      BY Zenon DEF From
    <3> QED BY <1>10, <1>18, <3>1, <3>2, Zenon
  <2> HIDE DEF Between
  <2>2. Rep(32, 0) = <<>> /\ chars \o <<>> = chars
    BY <1>17, RepOfNone, ConcatEmptySeq
  <2>3. chars = ((lead \o Rep(32, pad)) \o num) \o Rep(32, 0)
    BY <1>10, <2>2, Zenon
  <2>4. pad + 0 > 0 => Len(chars) <= minLen + Len(sign)
    <3> DEFINE h == Len(chars)
               u == Len(sign)
    <3>1. u \in 0 .. 1 /\ (pad > 0 => h = minLen + u) /\ pad \in Int
      BY <1>1, <1>3, <1>7, <1>13
    <3> HIDE DEF h, u
    <3>2. pad + 0 > 0 => h <= minLen + u
      BY <1>1, <3>1
    <3> QED BY <3>2 DEF h, u
  <2> QED BY <1>8, <1>13, <1>18, <2>1, <2>3, <2>4, Zenon
<1>20. pad \in 0 .. minLen /\ 0 \in 0 .. minLen
  BY <1>1, <1>7
<1> HIDE DEF ch, Between
<1>21. /\ Len(ch) >= minLen
       /\ \E before, after \in 0 .. minLen :
             /\ ch = ((lead \o Rep(32, before)) \o Between(before, after)) \o Rep(32, after)
             /\ IsNumeral(Between(before, after), a, base, flags, minDigits)
             /\ before + after > 0 => Len(ch) <= minLen + Len(sign)
  BY <1>19, <1>20, Zenon
<1> QED BY <1>14, <1>21 DEF IntegerFits, size, val, base, flags, minDigits, minLen, a, sign, big, result, all,
                            lead, Lead, ch, Between

-----------------------------------------------------------------------------
\* The whole part and the fraction of a number, rounded.

LEMMA Quotient ==
  ASSUME NEW x \in Int, NEW m \in Nat \ {0}
  PROVE  x \div m \in Int /\ x % m \in 0 .. m - 1 /\ x = m * (x \div m) + (x % m)
<1>1. x \div m \in Int
  OBVIOUS
<1>2. x % m \in 0 .. m - 1
  OBVIOUS
<1>3. x = m * (x \div m) + (x % m)
  OBVIOUS
<1> QED BY <1>1, <1>2, <1>3

LEMMA Grows == ASSUME NEW m \in Nat, NEW p \in Int, NEW q \in Int, q >= p PROVE m * q >= m * p
<1>1. \A d \in Nat : m * d >= 0
  OBVIOUS
<1>2. m * (q - p) >= 0
  BY <1>1
<1>3. m * (q - p) = m * q - m * p
  OBVIOUS
<1> QED BY <1>2, <1>3

\* A number has one quotient and one remainder.
LEMMA OneQuotient ==
  ASSUME NEW m \in Nat \ {0}, NEW q \in Int, NEW p \in Int,
         NEW r \in 0 .. m - 1, NEW s \in 0 .. m - 1, m * q + r = m * p + s
  PROVE  q = p /\ r = s
<1>1. q >= p + 1 => m * q >= m * (p + 1)
  BY Grows
<1>2. p >= q + 1 => m * p >= m * (q + 1)
  BY Grows
<1>3. m * (p + 1) = m * p + m /\ m * (q + 1) = m * q + m
  OBVIOUS
<1>4. ~(q >= p + 1) /\ ~(p >= q + 1)
  BY <1>1, <1>2, <1>3
<1> QED BY <1>4

\* The whole part and the fraction of a number of 2 m units, as Floating finds them.
Rounded(a, m) == ((a % (2 * m)) + 1) \div 2
Carry(a, m) == IF Rounded(a, m) >= m THEN 1 ELSE 0
WholePart(a, m) == (a \div (2 * m)) + Carry(a, m)
Fraction(a, m) == Rounded(a, m) - Carry(a, m) * m

\* They are the quotient and the remainder of the number, rounded up from a half on.
LEMMA RoundIs ==
  ASSUME NEW a \in Nat, NEW m \in Nat \ {0}
  PROVE  /\ WholePart(a, m) = ((a + 1) \div 2) \div m /\ Fraction(a, m) = ((a + 1) \div 2) % m
         /\ WholePart(a, m) \in Nat /\ WholePart(a, m) <= a /\ Fraction(a, m) \in 0 .. m - 1
<1> DEFINE q == a \div (2 * m)
           r == a % (2 * m)
           n == (a + 1) \div 2
           x == n \div m
           y == n % m
           t == m * q
           rd == Rounded(a, m)
           carry == Carry(a, m)
           part == Fraction(a, m)
<1>1. q \in Int /\ r \in 0 .. (2 * m) - 1 /\ a = 2 * t + r
  <2> DEFINE d == 2 * m
  <2>1. d \in Nat \ {0} /\ d = 2 * m
    OBVIOUS
  <2> HIDE DEF d
  <2>2. a \div d \in Int /\ a % d \in 0 .. d - 1 /\ a = d * (a \div d) + (a % d)
    <3>1. a \in Int
      OBVIOUS
    <3> QED BY <2>1, <3>1, Quotient, Zenon
  <2> DEFINE p == a \div d
  <2>3. p \in Int
    BY <2>2
  <2>4. q = p /\ r = a % d
    BY <2>1
  <2> HIDE DEF p, q, r
  <2>5. d * p = 2 * (m * p)
    BY <2>1, <2>3
  <2> QED BY <2>1, <2>2, <2>3, <2>4, <2>5 DEF p
<1>2. rd = (r + 1) \div 2
  BY DEF Rounded
<1>3. carry = IF rd >= m THEN 1 ELSE 0
  BY DEF Carry
<1>4. part = rd - carry * m
  BY DEF Fraction
<1>5. WholePart(a, m) = q + carry
  BY DEF WholePart
<1>6. x \in Int /\ y \in 0 .. m - 1 /\ n = m * x + y /\ n \in Nat /\ n <= a
  <2>1. n \in Nat /\ n \in Int /\ n <= a
    OBVIOUS
  <2> HIDE DEF n
  <2> QED BY <2>1, Quotient
<1>7. t \in Int
  BY <1>1
<1> HIDE DEF q, r, rd, carry, part, x, y
<1>8. n = t + rd /\ rd \in 0 .. m
  <2> HIDE DEF t
  <2> QED BY <1>1, <1>2, <1>7
<1>9. part \in 0 .. m - 1 /\ carry \in {0, 1} /\ rd = carry * m + part
  <2>1. CASE rd >= m
    BY <1>3, <1>4, <1>8, <2>1
  <2>2. CASE rd < m
    BY <1>3, <1>4, <1>8, <2>2
  <2> QED BY <1>8, <2>1, <2>2
<1>10. m * (q + carry) + part = m * x + y
  <2>1. m * (q + carry) = t + carry * m
    <3>1. CASE carry = 0
      BY <1>1, <3>1
    <3>2. CASE carry = 1
      <4>1. m * (q + 1) = m * q + m
        BY <1>1
      <4> QED BY <1>1, <3>2, <4>1
    <3> QED BY <1>9, <3>1, <3>2
  <2> HIDE DEF n, t
  <2>2. carry * m \in Int /\ m * x \in Int
    BY <1>6, <1>9
  <2> QED BY <1>6, <1>7, <1>8, <1>9, <2>1, <2>2
<1>11. q + carry = x /\ part = y
  <2> DEFINE p == q + carry
  <2>1. p \in Int /\ m * p + part = m * x + y
    BY <1>1, <1>9, <1>10
  <2> HIDE DEF p
  <2>2. p = x /\ part = y
    BY <1>6, <1>9, <2>1, OneQuotient
  <2> QED BY <2>2 DEF p
<1>12. x \in Nat /\ x <= a
  <2>1. x >= 0
    <3> SUFFICES ASSUME x <= -1 PROVE FALSE
      BY <1>6
    <3>1. m * (-1) >= m * x
      BY <1>6, Grows
    <3>2. m * (-1) = -m /\ m * x \in Int
      BY <1>6
    <3> HIDE DEF n
    <3> QED BY <1>6, <3>1, <3>2
  <2>2. x <= m * x
    <3>1. m - 1 \in Nat
      OBVIOUS
    <3> DEFINE p == m - 1
    <3>2. p \in Nat /\ m = p + 1
      BY <3>1
    <3> HIDE DEF p
    <3>3. m * x = p * x + x /\ p * x >= 0
      BY <1>6, <2>1, <3>2
    <3>4. p * x \in Int /\ m * x \in Int
      BY <1>6, <3>2
    <3> QED BY <1>6, <3>3, <3>4
  <2>3. m * x \in Int
    BY <1>6
  <2> HIDE DEF n
  <2> QED BY <1>6, <2>1, <2>2, <2>3
<1> QED BY <1>5, <1>9, <1>11, <1>12 DEF part, x, y

\* The two numbers a floating point value is written as.
WholeLen(prec, minLen) == IF minLen > prec THEN minLen - (prec + 1) ELSE minLen
WholeBody(val, prec, minDigits, minLen) ==
    Body(WholePart(Abs(val), Pow10(prec)), 10, {"DontNullTerminate"}, minDigits, WholeLen(prec, minLen))
FractionBody(val, prec, flags) == Body(Fraction(Abs(val), Pow10(prec)), 10, flags, prec, 0)
FloatFront(val, prec, minDigits, minLen) == (Sign(val < 0) \o WholeBody(val, prec, minDigits, minLen)) \o <<46>>

LEMMA AbsIs == ASSUME NEW val \in Int PROVE Abs(val) \in Nat
  BY DEF Abs

LEMMA TenIsBase == 10 \in Bases
  BY DEF Bases

LEMMA FractionIs ==
  ASSUME NEW val \in Int, NEW prec \in Nat \ {0}, NEW flags
  PROVE  /\ FractionBody(val, prec, flags) = Numeral(Fraction(Abs(val), Pow10(prec)), 10, flags, prec)
         /\ FractionBody(val, prec, flags) \in Seq(Nat) /\ Len(FractionBody(val, prec, flags)) = prec
         /\ IsNumeral(FractionBody(val, prec, flags), Fraction(Abs(val), Pow10(prec)), 10, {}, prec)
<1> DEFINE m == Pow10(prec)
           a == Abs(val)
           f == Fraction(a, m)
           num == Numeral(f, 10, flags, prec)
           digits == Digits(f, 10, flags)
           lead == Lead(10, flags)
           n == Spaces(f, 10, flags, prec, 0)
<1>1. m \in Nat \ {0} /\ a \in Nat
  BY PowersAre, AbsIs
<1> HIDE DEF m, a
<1>2. f \in 0 .. m - 1 /\ f \in Nat /\ f < m
  BY <1>1, RoundIs
<1> HIDE DEF f
<1>3. DigitsOf(digits, f, 10, flags)
  BY <1>2, DigitsAre, TenIsBase
<1>4. Len(digits) \in Nat /\ Len(digits) <= prec
  BY <1>2, <1>3 DEF DigitsOf, m
<1>5. num \in Seq(Nat) /\ Len(num) = Larger(prec, Len(digits)) /\ IsNumeral(num, f, 10, {}, prec)
  BY <1>2, NumeralIs, TenIsBase
<1>6. Len(num) = prec
  <2> HIDE DEF num, digits
  <2> QED BY <1>4, <1>5 DEF Larger
<1>7. lead = <<>>
  BY LeadIs, TenIsBase
<1>8. n = Larger(0, 0 - (Len(lead) + Len(num)))
  BY DEF Spaces
<1>9. FractionBody(val, prec, flags) = (lead \o Rep(32, n)) \o num
  BY DEF FractionBody, Body, m, a, f
<1> HIDE DEF lead, num, n
<1>10. n = 0
  BY <1>6, <1>7, <1>8 DEF Larger
<1>11. Rep(32, 0) = <<>>
  BY RepOfNone
<1>12. <<>> \o <<>> = <<>> /\ <<>> \o num = num
  BY <1>5, ConcatEmptySeq
<1>13. FractionBody(val, prec, flags) = num
  BY <1>7, <1>9, <1>10, <1>11, <1>12
<1> QED BY <1>5, <1>6, <1>13 DEF num, f, m, a

LEMMA FrontIs ==
  ASSUME NEW val \in Int, NEW prec \in Nat \ {0}, NEW minDigits \in Nat, NEW minLen \in Nat
  PROVE  /\ WholeBody(val, prec, minDigits, minLen) \in Seq(Nat) /\ FloatFront(val, prec, minDigits, minLen) \in Seq(Nat)
         /\ Len(WholeBody(val, prec, minDigits, minLen)) >= 1
         /\ Len(WholeBody(val, prec, minDigits, minLen)) >= WholeLen(prec, minLen)
         /\ Len(WholeBody(val, prec, minDigits, minLen)) <= Abs(val) + minDigits + minLen + 1
         /\ Len(FloatFront(val, prec, minDigits, minLen))
            = Len(Sign(val < 0)) + Len(WholeBody(val, prec, minDigits, minLen)) + 1
         /\ WholeLen(prec, minLen) \in 0 .. minLen
<1> DEFINE a == Abs(val)
           w == WholePart(a, Pow10(prec))
           l == WholeLen(prec, minLen)
           none == {"DontNullTerminate"}
           body == WholeBody(val, prec, minDigits, minLen)
           sign == Sign(val < 0)
           dot == <<46>>
<1>1. a \in Nat /\ Pow10(prec) \in Nat \ {0}
  BY AbsIs, PowersAre
<1> HIDE DEF a
<1>2. w \in Nat /\ w <= a
  BY <1>1, RoundIs
<1>3. l \in 0 .. minLen /\ l \in Nat
  BY DEF WholeLen
<1>4. body = Body(w, 10, none, minDigits, l)
  BY DEF WholeBody, a
<1> HIDE DEF w, l, none
<1>5. /\ Body(w, 10, none, minDigits, l) \in Seq(Nat) /\ Len(Body(w, 10, none, minDigits, l)) >= 1
      /\ Len(Body(w, 10, none, minDigits, l)) >= l
      /\ Len(Body(w, 10, none, minDigits, l)) <= w + minDigits + l + 1
  BY <1>2, <1>3, TenIsBase, BodyLen
<1>6. sign \in Seq(Nat) /\ dot \in Seq(Nat) /\ Len(dot) = 1
  BY SignIs
<1>7. FloatFront(val, prec, minDigits, minLen) = (sign \o body) \o dot
  BY DEF FloatFront
<1> HIDE DEF body, sign, dot
<1>8. /\ body \in Seq(Nat) /\ Len(body) >= 1 /\ Len(body) >= l /\ Len(body) <= w + minDigits + l + 1
  BY <1>4, <1>5
<1> DEFINE both == sign \o body
<1>9. both \in Seq(Nat) /\ Len(both) = Len(sign) + Len(body)
  BY <1>6, <1>8, JoinIs
<1> HIDE DEF both
<1>10. both \o dot \in Seq(Nat) /\ Len(both \o dot) = Len(sign) + Len(body) + 1
  BY <1>6, <1>9, JoinIs
<1>11. Len(body) <= a + minDigits + minLen + 1
  <2> DEFINE n == Len(body)
  <2>1. n \in Nat /\ n <= w + minDigits + l + 1
    BY <1>8
  <2> HIDE DEF n
  <2>2. n <= a + minDigits + minLen + 1
    BY <1>1, <1>2, <1>3, <2>1
  <2> QED BY <2>2 DEF n
<1> QED BY <1>3, <1>7, <1>8, <1>10, <1>11 DEF both, a, l, body, sign, dot

FloatText(val, prec, flags, minDigits, minLen) ==
    FloatFront(val, prec, minDigits, minLen) \o (FractionBody(val, prec, flags) \o End(flags))

\* What such a text is made of.
FloatTextFacts(val, prec, flags, minDigits, minLen, txt, front, body, frac, sign, l) ==
    /\ txt \in Seq(Nat) /\ Len(txt) = Len(sign) + Len(body) + 1 + prec + Len(End(flags))
    /\ Chars(txt, flags) = front \o frac /\ Len(front \o frac) = Len(sign) + Len(body) + 1 + prec
    /\ body \in Seq(Nat) /\ front \in Seq(Nat) /\ Len(body) >= 1 /\ Len(body) >= l /\ l \in 0 .. minLen
    /\ Len(body) <= Abs(val) + minDigits + minLen + 1 /\ Len(front) = Len(sign) + Len(body) + 1

LEMMA FloatTextIs ==
  ASSUME NEW val \in Int, NEW prec \in Nat \ {0}, NEW flags, NEW minDigits \in Nat, NEW minLen \in Nat
  PROVE  FloatTextFacts(val, prec, flags, minDigits, minLen, FloatText(val, prec, flags, minDigits, minLen),
                        FloatFront(val, prec, minDigits, minLen), WholeBody(val, prec, minDigits, minLen),
                        FractionBody(val, prec, flags), Sign(val < 0), WholeLen(prec, minLen))
<1> DEFINE front == FloatFront(val, prec, minDigits, minLen)
           frac == FractionBody(val, prec, flags)
           sign == Sign(val < 0)
           body == WholeBody(val, prec, minDigits, minLen)
           l == WholeLen(prec, minLen)
           s == Len(sign)
           w == Len(body)
<1>1. /\ body \in Seq(Nat) /\ front \in Seq(Nat) /\ Len(body) >= 1 /\ Len(body) >= l /\ l \in 0 .. minLen
      /\ Len(body) <= Abs(val) + minDigits + minLen + 1 /\ Len(front) = s + w + 1
  BY FrontIs
<1>2. frac \in Seq(Nat) /\ Len(frac) = prec
  BY FractionIs
<1>3. FloatText(val, prec, flags, minDigits, minLen) = front \o (frac \o End(flags))
  BY DEF FloatText
<1> HIDE DEF front, frac, sign, body, l
<1> DEFINE txt == front \o (frac \o End(flags))
<1>4. /\ txt \in Seq(Nat) /\ Len(txt) = Len(front) + Len(frac) + Len(End(flags))
      /\ Chars(txt, flags) = front \o frac /\ Len(front \o frac) = Len(front) + Len(frac)
  <2>1. EndedFacts(txt, front, frac, flags)
    BY <1>1, <1>2, EndedFactsAre, Zenon
  <2> HIDE DEF txt
  <2> QED BY <2>1 DEF EndedFacts
<1> HIDE DEF txt
<1>5. Len(txt) = s + w + 1 + prec + Len(End(flags)) /\ Len(front \o frac) = s + w + 1 + prec
  <2> HIDE DEF s, w
  <2> QED BY <1>1, <1>2, <1>4
<1>6. FloatText(val, prec, flags, minDigits, minLen) = txt
  BY <1>3 DEF txt
<1>7. FloatTextFacts(val, prec, flags, minDigits, minLen, txt, front, body, frac, sign, l)
  BY <1>1, <1>4, <1>5 DEF FloatTextFacts
<1> QED BY <1>6, <1>7, Zenon DEF front, frac, sign, body, l

\* Whole part, dot and fraction: all of them are written, or what is written fits.
LEMMA FloatWrites ==
  ASSUME NEW size \in Nat, NEW val \in Int, NEW prec \in Nat \ {0}, NEW flags, NEW minDigits \in Nat,
         NEW minLen \in Nat
  PROVE  \/ Writes(Floating(size, val, prec, flags, minDigits, minLen),
                   FloatText(val, prec, flags, minDigits, minLen), size)
         \/ /\ Aborted(Floating(size, val, prec, flags, minDigits, minLen))
            /\ Len(FloatText(val, prec, flags, minDigits, minLen)) > size
<1> DEFINE a == Abs(val)
           m == Pow10(prec)
           w == WholePart(a, m)
           f == Fraction(a, m)
           l == WholeLen(prec, minLen)
           sign == Sign(val < 0)
           s == Len(sign)
           none == {"DontNullTerminate"}
           body == WholeBody(val, prec, minDigits, minLen)
           b == Len(body)
           e == Len(End(flags))
           whole == Unsigned(size - s, w, 10, none, minDigits, l)
           used == s + Len(whole.text)
           result == Floating(size, val, prec, flags, minDigits, minLen)
           txt == FloatText(val, prec, flags, minDigits, minLen)
           n == Len(txt)
           front == FloatFront(val, prec, minDigits, minLen)
           rest == FractionBody(val, prec, flags) \o End(flags)
<1>1. result = IF size = 0 THEN [ok |-> FALSE, text |-> <<>>]
               ELSE IF size - e < 3 + s THEN Fail(<<>>)
               ELSE IF ~whole.ok THEN Fail(sign)
               ELSE IF used = size THEN Abort(sign \o whole.text)
               ELSE IF (size - e) - used < 2 THEN Fail(sign)
               ELSE Behind((sign \o whole.text) \o <<46>>, Unsigned((size - used) - 1, f, 10, flags, prec, 0))
  BY Zenon DEF Floating, Room, Sign, Abs, WholePart, Fraction, Carry, Rounded, WholeLen
<1>2. txt \in Seq(Nat) /\ n = s + b + 1 + prec + e
  <2>1. FloatTextFacts(val, prec, flags, minDigits, minLen, txt, front, body, FractionBody(val, prec, flags), sign, l)
    BY FloatTextIs, Zenon
  <2> HIDE DEF txt, front, body, sign, l
  <2> QED BY <2>1, Zenon DEF FloatTextFacts
<1>3. /\ body \in Seq(Nat) /\ b >= 1 /\ front \in Seq(Nat) /\ Len(front) = s + b + 1
      /\ front = (sign \o body) \o <<46>>
  BY FrontIs DEF FloatFront
<1>4. txt = front \o rest
  BY DEF FloatText
<1>5. sign \in Seq(Nat) /\ s \in 0 .. 1 /\ e \in 0 .. 1
  BY SignIs, EndIs
<1>6. a \in Nat /\ m \in Nat \ {0}
  BY AbsIs, PowersAre
<1>7. w \in Nat /\ f \in Nat /\ l \in Nat
  <2> HIDE DEF a, m
  <2>1. w \in Nat /\ f \in Nat
    BY <1>6, RoundIs
  <2>2. l \in Nat
    BY DEF WholeLen
  <2> QED BY <2>1, <2>2
<1>8. body = Body(w, 10, none, minDigits, l)
  BY DEF WholeBody
<1>9. rest = Body(f, 10, flags, prec, 0) \o End(flags) /\ FractionBody(val, prec, flags) \in Seq(Nat)
      /\ Len(FractionBody(val, prec, flags)) = prec
  BY FractionIs DEF FractionBody
<1> HIDE DEF a, m, w, f, l, none
<1>10. whole = IF b <= size - s THEN Done(body, none) ELSE Fail(<<>>)
  <2>1. End(none) = <<>> /\ Len(<<>>) = 0
    BY DEF End, none
  <2>2. size - s \in Int /\ b \in Nat
    BY <1>3, <1>5
  <2> DEFINE left == size - s
  <2>3. Unsigned(left, w, 10, none, minDigits, l)
        = IF Len(Body(w, 10, none, minDigits, l)) + Len(End(none)) <= left
          THEN Done(Body(w, 10, none, minDigits, l), none) ELSE Fail(<<>>)
    <3>1. left \in Int
      BY <2>2
    <3> HIDE DEF left
    <3> QED BY <1>7, <3>1, TenIsBase, UnsignedIs
  <2>4. whole = IF b + Len(End(none)) <= left THEN Done(body, none) ELSE Fail(<<>>)
    BY <1>8, <2>3
  <2> HIDE DEF left, whole, body, b
  <2>5. b + Len(End(none)) = b
    BY <2>1, <2>2
  <2> QED BY <2>4, <2>5 DEF left
<1>11. rest \in Seq(Nat) /\ Len(rest) = prec + e
  <2>1. End(flags) \in Seq(Nat)
    BY EndIs
  <2> QED BY <1>9, <2>1, JoinIs
<1> HIDE DEF whole, result, txt, n, front, rest, sign, s, e, body, b
<1>12. n \in Nat /\ b \in Nat /\ n = Len(txt)
  BY <1>2, <1>3 DEF n, b
<1>13. CASE size = 0
  <2> DEFINE r == [ok |-> FALSE, text |-> <<>>]
  <2>1. result = r
    BY <1>1, <1>13
  <2>2. r \in [ok : BOOLEAN, text : Seq(Nat)] /\ ~r.ok /\ Len(r.text) = 0
    OBVIOUS
  <2> HIDE DEF r
  <2>3. ~(n <= size)
    BY <1>2, <1>3, <1>5, <1>12, <1>13
  <2>4. Writes(r, txt, size)
    BY <1>12, <1>13, <2>2, <2>3 DEF Writes
  <2> QED BY <2>1, <2>4 DEF result, txt
<1>14. CASE size # 0 /\ size - e < 3 + s
  <2> DEFINE part == <<>>
  <2>1. result = Fail(part)
    BY <1>1, <1>14
  <2>2. part \in Seq(Nat) /\ Len(part) = 0
    OBVIOUS
  <2> HIDE DEF part
  <2>3. n > size /\ Len(part) < size /\ size \in Int
    BY <1>2, <1>3, <1>5, <1>12, <1>14, <2>2
  <2>4. Writes(Fail(part), txt, size)
    BY <1>2, <1>12, <2>2, <2>3, FailWrites
  <2> QED BY <2>1, <2>4 DEF result, txt
<1>15. CASE size # 0 /\ ~(size - e < 3 + s) /\ whole.ok /\ used = size
  <2> DEFINE part == sign \o whole.text
  <2>1. result = Abort(part)
    BY <1>1, <1>15
  <2>2. Aborted(Abort(part))
    <3> HIDE DEF part
    <3> QED BY DEF Aborted, Abort
  <2>3. n > size
    <3>1. whole = Done(body, none)
      <4>1. ~Fail(<<>>).ok
        BY DEF Fail
      <4> QED BY <1>10, <1>15, <4>1
    <3>2. whole.text = body
      <4>1. body \o <<>> = body
        BY <1>3, ConcatEmptySeq
      <4> QED BY <3>1, <4>1 DEF Done, End, none
    <3>3. s + b = size
      <4>1. used = s + b
        BY <3>2 DEF b
      <4> QED BY <1>15, <4>1
    <3> QED BY <1>2, <1>5, <1>12, <3>3
  <2> HIDE DEF part
  <2> QED BY <2>1, <2>2, <2>3, <1>12 DEF result, txt
<1>16. CASE /\ size # 0 /\ ~(size - e < 3 + s) /\ ~(whole.ok /\ used = size)
            /\ ~whole.ok \/ (size - e) - used < 2
  <2>1. result = Fail(sign)
    BY <1>1, <1>16
  <2>2. n > size
    <3>1. CASE b <= size - s
      <4>1. whole = Done(body, none)
        BY <1>10, <3>1
      <4>2. whole.ok /\ whole.text = body
        <5>1. body \o <<>> = body
          BY <1>3, ConcatEmptySeq
        <5> QED BY <4>1, <5>1 DEF Done, End, none
      <4>3. used = s + b
        BY <4>2 DEF b
      <4> HIDE DEF used
      <4>4. (size - e) - used < 2
        BY <1>16, <4>2
      <4> QED BY <1>2, <1>5, <1>12, <4>3, <4>4
    <3>2. CASE ~(b <= size - s)
      BY <1>2, <1>5, <1>12, <3>2
    <3> QED BY <3>1, <3>2
  <2>3. Len(sign) < size /\ size \in Int
    <3>1. s < size
      BY <1>5, <1>16
    <3> QED BY <3>1 DEF s
  <2>4. Writes(Fail(sign), txt, size)
    BY <1>2, <1>5, <1>12, <2>2, <2>3, FailWrites
  <2> QED BY <2>1, <2>4 DEF result, txt
<1>17. CASE /\ size # 0 /\ ~(size - e < 3 + s) /\ ~(whole.ok /\ used = size)
            /\ ~(~whole.ok \/ (size - e) - used < 2)
  <2>1. result = Behind((sign \o whole.text) \o <<46>>, Unsigned((size - used) - 1, f, 10, flags, prec, 0))
    BY <1>1, <1>17
  <2>2. whole = Done(body, none)
    <3>1. ~Fail(<<>>).ok
      BY DEF Fail
    <3> QED BY <1>10, <1>17, <3>1
  <2>3. whole.text = body
    <3>1. body \o <<>> = body
      BY <1>3, ConcatEmptySeq
    <3> QED BY <2>2, <3>1 DEF Done, End, none
  <2> DEFINE left == size - Len(front)
             u == Unsigned(left, f, 10, flags, prec, 0)
  <2>4. used = s + b /\ (size - used) - 1 = left /\ left \in Nat \ {0}
    <3>1. used = s + b
      BY <2>3 DEF b
    <3>2. (size - e) - (s + b) >= 2
      <4> HIDE DEF used
      <4> QED BY <1>5, <1>12, <1>17, <3>1
    <3>3. left = size - (s + b + 1)
      BY <1>3
    <3> HIDE DEF left, used
    <3> QED BY <1>5, <1>12, <3>1, <3>2, <3>3
  <2>5. result = Behind(front, u)
    <3> HIDE DEF left, used
    <3> QED BY <1>3, <2>1, <2>3, <2>4
  <2>6. Writes(u, rest, left)
    <3> HIDE DEF left
    <3>1. prec \in Nat /\ 0 \in Nat
      OBVIOUS
    <3>2. Writes(Unsigned(left, f, 10, flags, prec, 0), Body(f, 10, flags, prec, 0) \o End(flags), left)
      BY <1>7, <2>4, <3>1, TenIsBase, UnsignedWrites
    <3> QED BY <1>9, <3>2
  <2> HIDE DEF u
  <2>7. Writes(Behind(front, u), front \o rest, size)
    <3>1. Writes(u, rest, size - Len(front)) /\ front \in Seq(Nat) /\ rest \in Seq(Nat) /\ size \in Int
      BY <1>3, <1>11, <2>6
    <3> QED BY <3>1, BehindWrites, Zenon
  <2> QED BY <1>4, <2>5, <2>7 DEF result, txt
<1> QED BY <1>13, <1>14, <1>16, <1>17, <1>15 DEF result, txt

\* What is between the beginning and the end of a text.
LEMMA MiddleIs ==
  ASSUME NEW a \in Seq(Nat), NEW b \in Seq(Nat), NEW d \in Seq(Nat)
  PROVE  SubSeq((a \o b) \o d, Len(a) + 1, Len(a) + Len(b)) = b
<1> DEFINE ab == a \o b
           l == Len(a)
           n == Len(b)
           m == l + n
           k == l + 1
<1>1. ab \in Seq(Nat) /\ Len(ab) = m /\ l \in Nat /\ n \in Nat /\ m = l + n /\ k = l + 1
  BY JoinIs
<1>2. From(ab, l) = b
  BY FromIs
<1>3. SubSeq(ab, k, m) = b
  <2>1. From(ab, l) = SubSeq(ab, l + 1, Len(ab))
    BY DEF From
  <2> HIDE DEF ab
  <2> QED BY <1>1, <1>2, <2>1
<1> HIDE DEF ab, m, k
<1>4. SubSeq(ab \o d, k, m) = SubSeq(ab, k, m)
  <2>1. CASE n = 0
    <3>1. k \in Int /\ m \in Int /\ m < k
      BY <1>1, <2>1
    <3>2. SubSeq(ab \o d, k, m) = <<>> /\ SubSeq(ab, k, m) = <<>>
      BY <3>1, SubSeqEmpty, Zenon
    <3> QED BY <3>2
  <2>2. CASE n # 0
    <3> HIDE DEF l, n
    <3>1. k \in 1 .. Len(ab) /\ m \in 1 .. Len(ab)
      BY <1>1, <2>2
    <3> QED BY <1>1, <3>1, SubSeqOfConcat1
  <2> QED BY <2>1, <2>2
<1> QED BY <1>3, <1>4 DEF ab, m, k

SpacesWithin(val, base, flags, minDigits, len) == Spaces(val, base, flags, minDigits, len) \in 0 .. len
LEMMA SpacesWithinIs ==
  ASSUME NEW val \in Nat, NEW base \in Bases, NEW flags, NEW minDigits \in Nat, NEW minLen \in Nat
  PROVE  SpacesWithin(val, base, flags, minDigits, minLen)
  BY BodyLen DEF SpacesWithin

RepFacts(rep, n) == rep \in Seq(Nat) /\ Len(rep) = n
LEMMA RepFactsAre == ASSUME NEW n \in Nat PROVE RepFacts(Rep(32, n), n)
  BY RepIs DEF RepFacts

\* A floating point value is written if it fits, and reads back rounded.
LEMMA FloatHolds ==
  ASSUME NEW c, c.size \in Nat, c.num \in Int, c.prec \in Nat \ {0}, c.minDigits \in Nat, c.minLen \in Nat
  PROVE  FloatFits(c, Floating(c.size, c.num, c.prec, c.flags, c.minDigits, c.minLen))
<1> DEFINE size == c.size
           val == c.num
           prec == c.prec
           flags == c.flags
           minDigits == c.minDigits
           minLen == c.minLen
           a == Abs(val)
           p == Pow10(prec)
           whole == WholePart(a, p)
           part == Fraction(a, p)
           negative == val < 0
           sign == Sign(negative)
           big == a + minDigits + minLen + prec + 6
           body == WholeBody(val, prec, minDigits, minLen)
           l == WholeLen(prec, minLen)
           none == {"DontNullTerminate"}
           frac == FractionBody(val, prec, flags)
           front == FloatFront(val, prec, minDigits, minLen)
           result == Floating(size, val, prec, flags, minDigits, minLen)
           all == Floating(big, val, prec, flags, minDigits, minLen)
           txt == FloatText(val, prec, flags, minDigits, minLen)
           chars == front \o frac
           pad == Spaces(whole, 10, none, minDigits, l)
           num == Numeral(whole, 10, none, minDigits)
           rep == Rep(32, pad)
           r == (a + 1) \div 2
           point == <<46>>
<1>1. size \in Nat /\ val \in Int /\ prec \in Nat \ {0} /\ minDigits \in Nat /\ minLen \in Nat
  OBVIOUS
<1> HIDE DEF size, val, prec, flags, minDigits, minLen
<1>2. a \in Nat /\ p \in Nat \ {0}
  BY <1>1, AbsIs, PowersAre
<1>3. sign \in Seq(Nat) /\ Len(sign) \in 0 .. 1 /\ point \in Seq(Nat) /\ Len(point) = 1
  BY SignIs
<1>4. Writes(result, txt, size) \/ (Aborted(result) /\ Len(txt) > size)
  BY <1>1, FloatWrites
<1>5. big \in Nat /\ big \in Int /\ big = a + minDigits + minLen + prec + 6
  <2> HIDE DEF a
  <2> QED BY <1>1, <1>2
<1>6. Writes(all, txt, big) \/ Len(txt) > big
  <2> HIDE DEF big
  <2> QED BY <1>1, <1>5, FloatWrites
<1>7. FloatTextFacts(val, prec, flags, minDigits, minLen, txt, front, body, frac, sign, l)
  BY <1>1, FloatTextIs, Zenon
<1>9. front = (sign \o body) \o point /\ body = Body(whole, 10, none, minDigits, l)
  BY DEF FloatFront, WholeBody
<1>10. frac \in Seq(Nat) /\ Len(frac) = prec /\ IsNumeral(frac, part, 10, {}, prec)
  BY <1>1, FractionIs
<1>11. whole = r \div p /\ part = r % p /\ whole \in Nat
  <2> HIDE DEF a, p
  <2> QED BY <1>2, RoundIs
<1>12. l = IF minLen > prec THEN minLen - (prec + 1) ELSE minLen
  BY DEF WholeLen
<1>30. a = Abs(val)
  OBVIOUS
<1> HIDE DEF result, all, big, a, p, sign, txt, front, frac, whole, part, l, none, body, r
<1>8. /\ txt \in Seq(Nat) /\ Len(txt) = Len(sign) + Len(body) + 1 + prec + Len(End(flags))
      /\ Chars(txt, flags) = chars /\ Len(chars) = Len(sign) + Len(body) + 1 + prec
      /\ body \in Seq(Nat) /\ front \in Seq(Nat) /\ Len(body) >= 1 /\ Len(body) >= l /\ l \in 0 .. minLen
      /\ Len(body) <= a + minDigits + minLen + 1 /\ Len(front) = Len(sign) + Len(body) + 1
  BY <1>7, <1>30, Zenon DEF FloatTextFacts
<1>13. num \in Seq(Nat) /\ IsNumeral(num, whole, 10, {}, minDigits)
  BY <1>1, <1>11, TenIsBase, NumeralIs
<1>14. pad \in 0 .. l /\ l \in Nat
  <2>1. l \in Nat
    BY <1>1, <1>8
  <2>2. SpacesWithin(whole, 10, none, minDigits, l)
    BY <1>1, <1>11, <2>1, TenIsBase, SpacesWithinIs, Zenon
  <2> QED BY <2>1, <2>2, Zenon DEF SpacesWithin
<1>15. body = rep \o num /\ rep \in Seq(Nat) /\ Len(rep) = pad
  <2>1. Lead(10, none) = <<>>
    BY LeadIs, TenIsBase
  <2>2. body = (<<>> \o rep) \o num
    BY <1>9, <2>1, Zenon DEF Body
  <2>3. rep \in Seq(Nat) /\ Len(rep) = pad
    <3> HIDE DEF pad
    <3>1. pad \in Nat
      BY <1>14
    <3>2. RepFacts(Rep(32, pad), pad)
      BY <3>1, RepFactsAre, Zenon
    <3> QED BY <3>2, Zenon DEF RepFacts
  <2> HIDE DEF rep, num, pad
  <2>4. <<>> \o rep = rep
    BY <2>3, ConcatEmptySeq
  <2> QED BY <2>2, <2>3, <2>4
<1> HIDE DEF num, rep, pad
<1> DEFINE lead == Len(sign) + pad
           dot == Len(chars) - prec
           parts == (((sign \o rep) \o num) \o point) \o frac
<1>16. chars = parts
  <2>1. sign \o (rep \o num) = (sign \o rep) \o num
    BY <1>3, <1>13, <1>15, Regroup
  <2> QED BY <1>9, <1>15, <2>1, Zenon
<1>17. From(chars, dot) = frac
  <2>1. dot = Len(front)
    <3> DEFINE n == Len(chars)
    <3>1. n = Len(sign) + Len(body) + 1 + prec /\ Len(front) = Len(sign) + Len(body) + 1
      BY <1>8
    <3>2. Len(body) \in Nat
      BY <1>8
    <3> HIDE DEF n
    <3>3. n - prec = Len(front)
      BY <1>1, <1>3, <3>1, <3>2
    <3> QED BY <3>3 DEF n
  <2>2. From(front \o frac, Len(front)) = frac
    BY <1>8, <1>10, FromIs
  <2> HIDE DEF dot
  <2> QED BY <2>1, <2>2
<1>18. SubSeq(chars, lead + 1, dot - 1) = num
  <2> DEFINE x == sign \o rep
             z == point \o frac
  <2>1. x \in Seq(Nat) /\ Len(x) = Len(sign) + pad
    BY <1>3, <1>15, JoinIs
  <2>2. z \in Seq(Nat)
    BY <1>3, <1>10, JoinIs
  <2> HIDE DEF x
  <2>3. ((x \o num) \o point) \o frac = (x \o num) \o z
    <3> DEFINE y == x \o num
    <3>1. y \in Seq(Nat)
      BY <1>13, <2>1, JoinIs
    <3> HIDE DEF y
    <3>2. (y \o point) \o frac = y \o (point \o frac)
      BY <1>3, <1>10, <3>1, Regroup
    <3> QED BY <3>2 DEF y
  <2>4. chars = (x \o num) \o z
    BY <1>16, <2>3 DEF x
  <2>5. dot - 1 = Len(x) + Len(num) /\ lead = Len(x)
    <3> DEFINE n == Len(chars)
               u == Len(num)
               b == Len(body)
    <3>1. n = Len(sign) + b + 1 + prec
      BY <1>8
    <3>2. b = pad + u /\ u \in Nat /\ pad \in Nat
      <4>1. Len(rep \o num) = Len(rep) + Len(num) /\ Len(num) \in Nat /\ Len(rep) \in Nat
        BY <1>13, <1>15, JoinIs
      <4> QED BY <1>15, <4>1
    <3> HIDE DEF n, u, b
    <3>3. (n - prec) - 1 = (Len(sign) + pad) + u
      BY <1>1, <1>3, <3>1, <3>2
    <3> QED BY <2>1, <3>3 DEF n, u
  <2> HIDE DEF z, dot, lead
  <2>6. SubSeq((x \o num) \o z, Len(x) + 1, Len(x) + Len(num)) = num
    BY <1>13, <2>1, <2>2, MiddleIs
  <2> QED BY <2>4, <2>5, <2>6
<1>19. Len(txt) <= big /\ Len(chars) >= minLen /\ pad \in 0 .. minLen
  <2> DEFINE t == Len(txt)
             n == Len(chars)
             b == Len(body)
             s == Len(sign)
             e == Len(End(flags))
  <2>1. t = s + b + 1 + prec + e /\ n = s + b + 1 + prec /\ b \in Nat /\ s \in 0 .. 1 /\ e \in 0 .. 1
        /\ b <= a + minDigits + minLen + 1 /\ b >= l /\ l \in 0 .. minLen /\ pad \in 0 .. l
    BY <1>3, <1>8, <1>14, EndIs
  <2> HIDE DEF t, n, b, s, e
  <2>2. t <= big
    BY <1>1, <1>2, <1>5, <2>1
  <2>3. n >= minLen
    BY <1>1, <1>12, <2>1
  <2>4. pad \in 0 .. minLen
    BY <1>1, <2>1
  <2> QED BY <2>2, <2>3, <2>4 DEF t, n
<1>20. /\ IF Aborted(result) THEN all.ok /\ Len(all.text) > size ELSE Fitting(result, all, size)
       /\ all.text = txt
  <2>1. txt \in Seq(Nat) /\ size \in Int /\ big \in Int /\ Len(txt) <= big
    BY <1>1, <1>5, <1>8, <1>19
  <2>2. Writes(all, txt, big)
    BY <1>6, <1>8, <2>1
  <2>3. all.ok /\ all.text = txt
    BY <2>1, <2>2, Zenon DEF Writes
  <2>4. Writes(result, txt, size) => Fitting(result, all, size)
    BY <2>1, <2>2, FittingFrom, Zenon
  <2> QED BY <1>4, <2>3, <2>4, FitsNotAborted, Zenon
<1> DEFINE ch == Chars(all.text, flags)
           at == Len(ch) - prec
           Middle(k) == SubSeq(ch, Len(sign) + k + 1, at - 1)
<1>21. ch = chars /\ at = dot
  BY <1>8, <1>20
<1>22. /\ ch = (((sign \o Rep(32, pad)) \o Middle(pad)) \o point) \o From(ch, at)
       /\ IsNumeral(Middle(pad), r \div p, 10, {}, minDigits)
       /\ IsNumeral(From(ch, at), r % p, 10, {}, prec)
       /\ Len(ch) >= minLen
  <2>1. Middle(pad) = num
    BY <1>18, <1>21
  <2>2. From(ch, at) = frac
    BY <1>17, <1>21
  <2>3. ch = (((sign \o Rep(32, pad)) \o num) \o point) \o frac
    BY <1>16, <1>21 DEF rep
  <2>4. IsNumeral(num, r \div p, 10, {}, minDigits) /\ IsNumeral(frac, r % p, 10, {}, prec)
    BY <1>10, <1>11, <1>13
  <2>5. Len(ch) >= minLen
    BY <1>19, <1>21
  <2> HIDE DEF ch, at, Middle, num, frac
  <2> QED BY <2>1, <2>2, <2>3, <2>4, <2>5, Zenon
<1> HIDE DEF ch, at, Middle
<1>23. \E k \in 0 .. minLen :
         /\ ch = (((sign \o Rep(32, k)) \o Middle(k)) \o point) \o From(ch, at)
         /\ IsNumeral(Middle(k), r \div p, 10, {}, minDigits)
         /\ IsNumeral(From(ch, at), r % p, 10, {}, prec)
         /\ Len(ch) >= minLen
  BY <1>19, <1>22, Zenon
<1>24. FloatFits(c, result)
  BY <1>20, <1>23, Zenon DEF FloatFits, size, val, prec, flags, minDigits, minLen, a, p, sign, big, all, r, ch, at, Middle
<1> QED BY <1>24 DEF result, size, val, prec, flags, minDigits, minLen

-----------------------------------------------------------------------------
\* Characters and texts.

LEMMA NothingWrites ==
  ASSUME NEW part \in Seq(Nat), NEW txt \in Seq(Nat), NEW size \in Int, Len(part) <= size, Len(txt) > size
  PROVE  Writes([ok |-> FALSE, text |-> part], txt, size)
<1> DEFINE r == [ok |-> FALSE, text |-> part]
<1>1. r \in [ok : BOOLEAN, text : Seq(Nat)] /\ ~r.ok /\ Len(r.text) <= size
  OBVIOUS
<1>2. ~(Len(txt) <= size)
  OBVIOUS
<1> HIDE DEF r
<1> QED BY <1>1, <1>2 DEF Writes, r

LEMMA AllWrites ==
  ASSUME NEW txt \in Seq(Nat)
  PROVE  Writes([ok |-> TRUE, text |-> txt], txt, Len(txt))
<1> DEFINE r == [ok |-> TRUE, text |-> txt]
<1>1. r \in [ok : BOOLEAN, text : Seq(Nat)] /\ r.ok /\ r.text = txt /\ Len(txt) <= Len(txt)
  OBVIOUS
<1> HIDE DEF r
<1> QED BY <1>1 DEF Writes, r

\* A text of which all is known fits as that text.
LEMMA FittingAll ==
  ASSUME NEW txt \in Seq(Nat), NEW size \in Int, NEW result, Writes(result, txt, size)
  PROVE  Fitting(result, [ok |-> TRUE, text |-> txt], size)
<1> DEFINE all == [ok |-> TRUE, text |-> txt]
<1>1. Writes(all, txt, Len(txt)) /\ Len(txt) \in Int /\ Len(txt) <= Len(txt)
  BY AllWrites
<1> HIDE DEF all
<1>2. Fitting(result, all, size)
  BY <1>1, FittingFrom, Zenon
<1> QED BY <1>2 DEF all

LEMMA InfiniteHolds ==
  ASSUME NEW c, c.size \in Nat, c.negative \in BOOLEAN
  PROVE  InfiniteFits(c, Infinite(c.size, c.negative, c.flags))
<1> DEFINE size == c.size
           flags == c.flags
           sign == Sign(c.negative)
           inf == <<105, 110, 102>>
           front == sign \o inf
           e == End(flags)
           txt == front \o e
           none == <<>>
           result == Infinite(size, c.negative, flags)
<1>1. result = IF size = 0 THEN [ok |-> FALSE, text |-> none]
               ELSE IF size - Len(e) < 3 + Len(sign) THEN Fail(none)
               ELSE Done(front, flags)
  BY Zenon DEF Infinite, Sign, Room
<1>2. sign \in Seq(Nat) /\ Len(sign) \in 0 .. 1 /\ inf \in Seq(Nat) /\ Len(inf) = 3 /\ none \in Seq(Nat)
      /\ Len(none) = 0 /\ e \in Seq(Nat) /\ Len(e) \in 0 .. 1
  <2>1. sign \in Seq(Nat) /\ Len(sign) \in 0 .. 1
    BY DEF Sign
  <2>2. inf \in Seq(Nat) /\ Len(inf) = 3 /\ none \in Seq(Nat) /\ Len(none) = 0
    OBVIOUS
  <2> QED BY <2>1, <2>2, EndIs
<1>3. size \in Nat
  OBVIOUS
<1> HIDE DEF sign, inf, e, none, size, flags
<1>4. front \in Seq(Nat) /\ Len(front) = Len(sign) + 3
  <2>1. Len(sign \o inf) = Len(sign) + Len(inf) /\ sign \o inf \in Seq(Nat)
    BY <1>2, JoinIs
  <2> QED BY <1>2, <2>1
<1> HIDE DEF front
<1>5. txt \in Seq(Nat) /\ Len(txt) = Len(sign) + 3 + Len(e)
  BY <1>2, <1>4, JoinIs
<1> HIDE DEF txt, result
<1>6. Writes(result, txt, size) /\ size \in Int
  <2>1. CASE size = 0
    <3>1. Len(none) <= size /\ Len(txt) > size /\ size \in Int
      BY <1>2, <1>3, <1>5, <2>1
    <3>2. Writes([ok |-> FALSE, text |-> none], txt, size)
      BY <1>2, <1>5, <3>1, NothingWrites
    <3> QED BY <1>1, <1>3, <2>1, <3>2
  <2>2. CASE size # 0 /\ size - Len(e) < 3 + Len(sign)
    <3>1. Len(none) < size /\ Len(txt) > size /\ size \in Int
      BY <1>2, <1>3, <1>5, <2>2
    <3>2. Writes(Fail(none), txt, size)
      BY <1>2, <1>5, <3>1, FailWrites
    <3> QED BY <1>1, <1>3, <2>2, <3>2
  <2>3. CASE size # 0 /\ ~(size - Len(e) < 3 + Len(sign))
    <3>1. Len(front) + Len(End(flags)) <= size /\ size \in Int
      BY <1>2, <1>3, <1>4, <2>3 DEF e
    <3>2. Writes(Done(front, flags), front \o End(flags), size)
      BY <1>4, <3>1, DoneWrites
    <3> QED BY <1>1, <1>3, <2>3, <3>2 DEF txt, e
  <2> QED BY <1>3, <2>1, <2>2, <2>3
<1>7. Fitting(result, [ok |-> TRUE, text |-> txt], size)
  BY <1>5, <1>6, FittingAll, Zenon
<1> QED BY <1>7, Zenon DEF InfiniteFits, result, txt, front, sign, inf, e, size, flags

\* The beginning of a text that was cut off, read back.
LEMMA CutIs ==
  ASSUME NEW val \in Seq(Nat), NEW n \in 0 .. Len(val), NEW flags
  PROVE  /\ SubSeq(val, 1, n) \in Seq(Nat) /\ Len(SubSeq(val, 1, n)) = n
         /\ Chars(SubSeq(val, 1, n) \o End(flags), flags) = SubSeq(val, 1, n)
<1> DEFINE cut == SubSeq(val, 1, n)
           none == <<>>
<1>1. cut \in Seq(Nat) /\ Len(cut) = n
  OBVIOUS
<1>2. none \in Seq(Nat) /\ none \o cut = cut
  BY <1>1
<1>3. End(flags) \in Seq(Nat)
  BY EndIs
<1> HIDE DEF cut, none
<1>4. Chars(cut \o (none \o End(flags)), flags) = cut \o none
  BY <1>1, <1>2, CharsIs
<1>5. none \o End(flags) = End(flags) /\ cut \o none = cut
  BY <1>1, <1>3 DEF none
<1> QED BY <1>1, <1>4, <1>5 DEF cut

LEMMA WholeIs == ASSUME NEW val \in Seq(Nat) PROVE SubSeq(val, 1, Len(val)) = val
  OBVIOUS

\* What there is of a text is its beginning.
Begins(txt, val, flags) == txt # <<>> => Chars(txt, flags) = SubSeq(val, 1, Len(Chars(txt, flags)))

LEMMA CutBegins ==
  ASSUME NEW val \in Seq(Nat), NEW n \in 0 .. Len(val), NEW flags
  PROVE  Begins(SubSeq(val, 1, n) \o End(flags), val, flags)
<1> DEFINE cut == SubSeq(val, 1, n)
<1>1. Len(cut) = n /\ Chars(cut \o End(flags), flags) = cut
  BY CutIs
<1>2. SubSeq(val, 1, Len(cut)) = cut
  BY <1>1, Zenon
<1> HIDE DEF cut
<1>3. Begins(cut \o End(flags), val, flags)
  BY <1>1, <1>2, Zenon DEF Begins
<1> QED BY <1>3 DEF cut

LEMMA AllBegins == ASSUME NEW val \in Seq(Nat), NEW flags PROVE Begins(val \o End(flags), val, flags)
<1>1. Len(val) \in 0 .. Len(val) /\ SubSeq(val, 1, Len(val)) = val
  BY WholeIs
<1>2. Begins(SubSeq(val, 1, Len(val)) \o End(flags), val, flags)
  BY <1>1, CutBegins
<1> QED BY <1>1, <1>2

LEMMA NoneBegins == ASSUME NEW val, NEW flags PROVE Begins(<<>>, val, flags)
  BY DEF Begins

LEMMA EndBegins == ASSUME NEW val \in Seq(Nat), NEW flags PROVE Begins(End(flags), val, flags)
<1>1. 0 \in 0 .. Len(val) /\ SubSeq(val, 1, 0) = <<>>
  OBVIOUS
<1>2. Begins(SubSeq(val, 1, 0) \o End(flags), val, flags)
  BY <1>1, CutBegins
<1>3. <<>> \o End(flags) = End(flags)
  BY EndIs
<1> QED BY <1>1, <1>2, <1>3

LEMMA TextFrom ==
  ASSUME NEW c, NEW result, c.val \in Seq(Nat), c.size \in Int,
         Writes(result, c.val \o End(c.flags), c.size), Begins(result.text, c.val, c.flags)
  PROVE  TextFits(c, result)
<1> DEFINE txt == c.val \o End(c.flags)
           size == c.size
<1>1. txt \in Seq(Nat)
  <2> DEFINE val == c.val
  <2>1. val \in Seq(Nat)
    OBVIOUS
  <2> HIDE DEF val
  <2>2. val \o End(c.flags) \in Seq(Nat)
    BY <2>1, EndIs, JoinIs
  <2> QED BY <2>2 DEF val
<1>2. Writes(result, txt, size) /\ size \in Int
  OBVIOUS
<1> HIDE DEF txt, size
<1>3. Fitting(result, [ok |-> TRUE, text |-> txt], size)
  BY <1>1, <1>2, FittingAll, Zenon
<1> QED BY <1>3, Zenon DEF TextFits, Begins, txt, size

LEMMA TextWrites ==
  ASSUME NEW size \in Nat, NEW val \in Seq(Nat), NEW flags
  PROVE  /\ Writes(Text(size, val, flags), val \o End(flags), size)
         /\ Begins(Text(size, val, flags).text, val, flags)
<1> DEFINE e == End(flags)
           l == Len(e)
           n == size - l
           v == Len(val)
           txt == val \o e
           none == <<>>
           result == Text(size, val, flags)
           cut == SubSeq(val, 1, n) \o e
           part == [ok |-> FALSE, text |-> cut]
           nothing == [ok |-> FALSE, text |-> none]
<1>1. result = IF size < l THEN nothing ELSE IF v <= n THEN Done(val, flags) ELSE part
  BY Zenon DEF Text, Room
<1>2. e \in Seq(Nat) /\ l \in 0 .. 1 /\ none \in Seq(Nat) /\ Len(none) = 0
  BY EndIs
<1>3. txt \in Seq(Nat) /\ Len(txt) = v + l /\ v \in Nat
  <2> HIDE DEF e
  <2> QED BY <1>2, JoinIs
<1>4. CASE size < l
  <2>1. Len(none) <= size /\ Len(txt) > size /\ size \in Int
    <3> HIDE DEF l, v, txt, none
    <3> QED BY <1>2, <1>3, <1>4
  <2>2. Writes(nothing, txt, size)
    <3> HIDE DEF txt, none
    <3> QED BY <1>2, <1>3, <2>1, NothingWrites
  <2>3. nothing.text = none
    OBVIOUS
  <2>4. Begins(none, val, flags)
    BY NoneBegins
  <2> HIDE DEF nothing, result, txt, none
  <2>5. result = nothing
    BY <1>1, <1>4
  <2> QED BY <2>2, <2>3, <2>4, <2>5, Zenon DEF result, txt, e
<1>5. CASE ~(size < l) /\ v <= n
  <2>1. result = Done(val, flags)
    BY <1>1, <1>5
  <2>2. Len(val) + Len(End(flags)) <= size /\ size \in Int
    <3>1. v + l <= size
      <4> HIDE DEF l, v
      <4> QED BY <1>2, <1>3, <1>5
    <3> QED BY <3>1
  <2>3. Writes(Done(val, flags), val \o End(flags), size)
    BY <2>2, DoneWrites
  <2>4. Done(val, flags).text = val \o End(flags)
    BY DEF Done
  <2>5. Begins(val \o End(flags), val, flags)
    BY AllBegins
  <2> HIDE DEF result
  <2> QED BY <2>1, <2>3, <2>4, <2>5, Zenon DEF result
<1>6. CASE ~(size < l) /\ ~(v <= n)
  <2>1. n \in 0 .. v
    <3> HIDE DEF l, v
    <3> QED BY <1>2, <1>3, <1>6
  <2>2. SubSeq(val, 1, n) \in Seq(Nat) /\ Len(SubSeq(val, 1, n)) = n /\ n \in 0 .. Len(val)
    <3>1. n \in 0 .. Len(val)
      BY <2>1
    <3> HIDE DEF n
    <3> QED BY <3>1, CutIs
  <2>3. Begins(cut, val, flags)
    <3> HIDE DEF n
    <3> QED BY <2>2, CutBegins
  <2>4. cut \in Seq(Nat) /\ Len(cut) = n + l
    <3> DEFINE s == SubSeq(val, 1, n)
    <3>1. s \in Seq(Nat) /\ Len(s) = n
      BY <2>2
    <3> HIDE DEF s, n, e
    <3>2. s \o e \in Seq(Nat) /\ Len(s \o e) = Len(s) + Len(e)
      BY <1>2, <3>1, JoinIs
    <3> QED BY <3>1, <3>2 DEF s
  <2>5. Len(cut) <= size /\ Len(txt) > size /\ size \in Int
    <3> HIDE DEF l, v, txt, cut
    <3> QED BY <1>2, <1>3, <1>6, <2>1, <2>4
  <2>6. Writes(part, txt, size)
    <3> HIDE DEF txt, cut
    <3> QED BY <1>2, <1>3, <2>4, <2>5, NothingWrites
  <2>7. part.text = cut
    OBVIOUS
  <2> HIDE DEF part, result, txt, cut
  <2>8. result = part
    BY <1>1, <1>6
  <2> QED BY <2>3, <2>6, <2>7, <2>8, Zenon DEF result, txt, e
<1> QED BY <1>4, <1>5, <1>6

LEMMA OneIs == ASSUME NEW val \in Seq(Nat), Len(val) = 1 PROVE <<val[1]>> = val
  OBVIOUS

LEMMA CharWrites ==
  ASSUME NEW size \in Nat, NEW val \in Seq(Nat), Len(val) = 1, NEW flags
  PROVE  /\ Writes(Char(size, val[1], flags), val \o End(flags), size)
         /\ Begins(Char(size, val[1], flags).text, val, flags)
<1> DEFINE e == End(flags)
           l == Len(e)
           txt == val \o e
           none == <<>>
           rest == IF size = 0 THEN none ELSE e
           result == Char(size, val[1], flags)
           part == [ok |-> FALSE, text |-> rest]
<1>1. result = IF size > l THEN Done(val, flags) ELSE part
  BY OneIs, Zenon DEF Char
<1>2. e \in Seq(Nat) /\ l \in 0 .. 1 /\ none \in Seq(Nat) /\ Len(none) = 0
  BY EndIs
<1>3. txt \in Seq(Nat) /\ Len(txt) = 1 + l
  <2>1. Len(val \o e) = Len(val) + Len(e) /\ val \o e \in Seq(Nat)
    <3> HIDE DEF e
    <3> QED BY <1>2, JoinIs
  <2> QED BY <2>1
<1>4. CASE size > l
  <2>1. Len(val) + Len(End(flags)) <= size /\ size \in Int
    BY <1>2, <1>4
  <2>2. Writes(Done(val, flags), val \o End(flags), size)
    BY <2>1, DoneWrites
  <2>3. Done(val, flags).text = val \o End(flags)
    BY DEF Done
  <2>4. Begins(val \o End(flags), val, flags)
    BY AllBegins
  <2>5. result = Done(val, flags)
    BY <1>1, <1>4
  <2> HIDE DEF result
  <2> QED BY <2>2, <2>3, <2>4, <2>5, Zenon DEF result
<1>5. CASE ~(size > l)
  <2>1. rest \in Seq(Nat) /\ Len(rest) <= size /\ Len(txt) > size /\ size \in Int
    <3>1. CASE size = 0
      <4>1. rest = none
        BY <3>1
      <4> HIDE DEF rest, none, txt, l
      <4> QED BY <1>2, <1>3, <1>5, <3>1, <4>1
    <3>2. CASE size # 0
      <4>1. rest = e /\ Len(e) = l
        BY <3>2
      <4> HIDE DEF rest, txt, l, e
      <4> QED BY <1>2, <1>3, <1>5, <3>2, <4>1
    <3> QED BY <3>1, <3>2
  <2>2. Begins(rest, val, flags)
    <3>1. Begins(none, val, flags) /\ Begins(e, val, flags)
      BY NoneBegins, EndBegins
    <3> HIDE DEF none, e
    <3> QED BY <3>1
  <2>3. part.text = rest
    OBVIOUS
  <2> HIDE DEF rest
  <2>4. Writes(part, txt, size)
    <3> HIDE DEF txt
    <3> QED BY <1>3, <2>1, NothingWrites
  <2> HIDE DEF part, result, txt
  <2>5. result = part
    BY <1>1, <1>5
  <2> QED BY <2>2, <2>3, <2>4, <2>5, Zenon DEF result, txt, e
<1> QED BY <1>4, <1>5

LEMMA RepeatedIs ==
  ASSUME NEW val \in Seq(Nat), \A i \in DOMAIN val : val[i] = val[1]
  PROVE  Rep(val[1], Len(val)) = val
  BY DEF Rep

LEMMA RepeatedWrites ==
  ASSUME NEW size \in Nat, NEW val \in Seq(Nat), NEW flags, val # <<>>, \A i \in DOMAIN val : val[i] = val[1]
  PROVE  Writes(RptChar(size, val[1], Len(val), flags), val \o End(flags), size)
<1> DEFINE e == End(flags)
           l == Len(e)
           v == Len(val)
           txt == val \o e
           none == <<>>
           result == RptChar(size, val[1], Len(val), flags)
           nothing == [ok |-> FALSE, text |-> none]
<1>1. result = IF size = 0 \/ v > size - l THEN nothing ELSE Done(val, flags)
  BY RepeatedIs, Zenon DEF RptChar, Room
<1>2. e \in Seq(Nat) /\ l \in 0 .. 1 /\ none \in Seq(Nat) /\ Len(none) = 0
  BY EndIs
<1>3. txt \in Seq(Nat) /\ Len(txt) = v + l /\ v \in Nat /\ v > 0
  <2>1. v \in Nat /\ v > 0
    BY EmptySeq
  <2> HIDE DEF e
  <2> QED BY <1>2, <2>1, JoinIs
<1>4. CASE size = 0 \/ v > size - l
  <2>1. Len(none) <= size /\ Len(txt) > size /\ size \in Int
    <3> HIDE DEF l, v, txt, none
    <3> QED BY <1>2, <1>3, <1>4
  <2>2. Writes(nothing, txt, size)
    <3> HIDE DEF txt, none
    <3> QED BY <1>2, <1>3, <2>1, NothingWrites
  <2> HIDE DEF nothing, result, v, l
  <2> QED BY <1>1, <1>4, <2>2, Zenon DEF result
<1>5. CASE ~(size = 0 \/ v > size - l)
  <2>1. Len(val) + Len(End(flags)) <= size /\ size \in Int
    <3>1. v + l <= size
      <4> HIDE DEF l, v
      <4> QED BY <1>2, <1>3, <1>5
    <3> QED BY <3>1
  <2>2. Writes(Done(val, flags), val \o End(flags), size)
    BY <2>1, DoneWrites
  <2> HIDE DEF result, v, l
  <2> QED BY <1>1, <1>5, <2>2, Zenon DEF result
<1> QED BY <1>4, <1>5

-----------------------------------------------------------------------------
\* The steps.

LEMMA IntegerWritten == ASSUME WriteInteger PROVE ToStringFits'
<1>1. PICK c \in Conversions.int :
        Written("int", c, Signed(c.size, c.val, c.base, c.flags, c.minDigits, c.minLen))
  BY DEF WriteInteger
<1> DEFINE result == Signed(c.size, c.val, c.base, c.flags, c.minDigits, c.minLen)
           new == [f |-> "int", args |-> c, result |-> result]
<1>2. /\ c.size \in Nat \ {0} /\ c.val \in Int /\ c.base \in Bases /\ c.minDigits \in Nat /\ c.minLen \in Nat
  BY NumberTextAssumption DEF Bases
<1>3. IntegerFits(c, result)
  BY <1>2, IntegerHolds
<1> HIDE DEF result
<1>4. new.f = "int" /\ new.args = c /\ new.result = result
  OBVIOUS
<1>5. written' = new
  BY <1>1 DEF Written, result
<1> HIDE DEF new
<1> QED BY <1>3, <1>4, <1>5 DEF ToStringFits

LEMMA FloatWritten == ASSUME WriteFloat PROVE ToStringFits'
<1>1. PICK c \in Conversions.float :
        Written("float", c, Floating(c.size, c.num, c.prec, c.flags, c.minDigits, c.minLen))
  BY DEF WriteFloat
<1> DEFINE result == Floating(c.size, c.num, c.prec, c.flags, c.minDigits, c.minLen)
           new == [f |-> "float", args |-> c, result |-> result]
<1>2. /\ c.size \in Nat /\ c.num \in Int /\ c.prec \in Nat \ {0} /\ c.minDigits \in Nat /\ c.minLen \in Nat
  BY NumberTextAssumption
<1>3. FloatFits(c, result)
  BY <1>2, FloatHolds
<1> HIDE DEF result
<1>4. new.f = "float" /\ new.args = c /\ new.result = result
  OBVIOUS
<1>5. written' = new
  BY <1>1 DEF Written, result
<1> HIDE DEF new
<1> QED BY <1>3, <1>4, <1>5 DEF ToStringFits

LEMMA InfiniteWritten == ASSUME WriteInfinite PROVE ToStringFits'
<1>1. PICK c \in Conversions.inf : Written("inf", c, Infinite(c.size, c.negative, c.flags))
  BY DEF WriteInfinite
<1> DEFINE result == Infinite(c.size, c.negative, c.flags)
           new == [f |-> "inf", args |-> c, result |-> result]
<1>2. c.size \in Nat /\ c.negative \in BOOLEAN
  BY NumberTextAssumption
<1>3. InfiniteFits(c, result)
  BY <1>2, InfiniteHolds
<1> HIDE DEF result
<1>4. new.f = "inf" /\ new.args = c /\ new.result = result
  OBVIOUS
<1>5. written' = new
  BY <1>1 DEF Written, result
<1> HIDE DEF new
<1> QED BY <1>3, <1>4, <1>5 DEF ToStringFits

LEMMA TextIsLegal == ASSUME NEW c \in Conversions.text PROVE c.size \in Nat /\ c.val \in Seq(Nat)
<1>1. c \in [size : Nat, val : Seq(1 .. 255), flags : Flags]
  BY NumberTextAssumption
<1>2. c.size \in Nat /\ c.val \in Seq(1 .. 255)
  BY <1>1
<1> DEFINE val == c.val
<1>3. val \in Seq(1 .. 255)
  BY <1>2
<1> HIDE DEF val
<1>4. val \in Seq(Nat)
  <2>1. 1 .. 255 \subseteq Nat
    OBVIOUS
  <2> QED BY <1>3, <2>1, SeqMonotonic, Zenon
<1> QED BY <1>2, <1>4 DEF val

\* A text that was written, in one call or the other.
LEMMA TextKept ==
  ASSUME NEW c \in Conversions.text, NEW result, Written("text", c, result),
         Writes(result, c.val \o End(c.flags), c.size), Begins(result.text, c.val, c.flags)
  PROVE  ToStringFits'
<1> DEFINE new == [f |-> "text", args |-> c, result |-> result]
<1>1. TextFits(c, result)
  <2>1. c.val \in Seq(Nat) /\ c.size \in Int
    BY TextIsLegal
  <2> QED BY <2>1, TextFrom, Zenon
<1>2. new.f = "text" /\ new.args = c /\ new.result = result
  OBVIOUS
<1>3. written' = new
  BY DEF Written
<1> HIDE DEF new
<1> QED BY <1>1, <1>2, <1>3 DEF ToStringFits

LEMMA TextWritten == ASSUME WriteText PROVE ToStringFits'
<1>1. PICK c \in Conversions.text :
        \/ Written("text", c, Text(c.size, c.val, c.flags))
        \/ Len(c.val) = 1 /\ Written("text", c, Char(c.size, c.val[1], c.flags))
  BY DEF WriteText
<1>2. c.size \in Nat /\ c.val \in Seq(Nat)
  BY TextIsLegal
<1>3. CASE Written("text", c, Text(c.size, c.val, c.flags))
  <2> DEFINE result == Text(c.size, c.val, c.flags)
  <2>1. Writes(result, c.val \o End(c.flags), c.size) /\ Begins(result.text, c.val, c.flags)
    BY <1>2, TextWrites, Zenon
  <2>2. Written("text", c, result)
    BY <1>3
  <2> HIDE DEF result
  <2> QED BY <2>1, <2>2, TextKept, Zenon
<1>4. CASE Len(c.val) = 1 /\ Written("text", c, Char(c.size, c.val[1], c.flags))
  <2> DEFINE result == Char(c.size, c.val[1], c.flags)
  <2>1. Writes(result, c.val \o End(c.flags), c.size) /\ Begins(result.text, c.val, c.flags)
    BY <1>2, <1>4, CharWrites, Zenon
  <2>2. Written("text", c, result)
    BY <1>4
  <2> HIDE DEF result
  <2> QED BY <2>1, <2>2, TextKept, Zenon
<1> QED BY <1>1, <1>3, <1>4

LEMMA RepeatedWritten == ASSUME WriteRptChar PROVE ToStringFits'
<1>1. PICK c \in Conversions.text :
        /\ \A i \in DOMAIN c.val : c.val[i] = c.val[1]
        /\ c.val # <<>> /\ Written("repeated", c, RptChar(c.size, c.val[1], Len(c.val), c.flags))
  BY DEF WriteRptChar
<1> DEFINE size == c.size
           val == c.val
           flags == c.flags
           txt == val \o End(flags)
           result == RptChar(size, val[1], Len(val), flags)
           new == [f |-> "repeated", args |-> c, result |-> result]
<1>2. size \in Nat /\ val \in Seq(Nat)
  BY TextIsLegal
<1>3. val # <<>> /\ \A i \in DOMAIN val : val[i] = val[1]
  BY <1>1
<1>4. written' = new
  BY <1>1 DEF Written
<1>5. new.f = "repeated" /\ new.args = c /\ new.result = result
  OBVIOUS
<1> HIDE DEF size, val, flags, new
<1>6. Writes(result, txt, size)
  BY <1>2, <1>3, RepeatedWrites, Zenon
<1>7. txt \in Seq(Nat) /\ size \in Int
  BY <1>2, EndIs, JoinIs
<1> HIDE DEF result, txt
<1>8. Fitting(result, [ok |-> TRUE, text |-> txt], size)
  BY <1>6, <1>7, FittingAll, Zenon
<1>9. RepeatedFits(c, result)
  BY <1>8, Zenon DEF RepeatedFits, txt, size, val, flags
<1> QED BY <1>4, <1>5, <1>9 DEF ToStringFits

LEMMA ToStringFitsInit == ASSUME NumberInit PROVE ToStringFits
<1> DEFINE new == [f |-> "nothing"]
<1>1. written = new /\ new.f = "nothing"
  BY DEF NumberInit
<1> HIDE DEF new
<1> QED BY <1>1 DEF ToStringFits

LEMMA UseForgets == ASSUME Use \/ Reboot PROVE ToStringFits'
<1> DEFINE new == [f |-> "nothing"]
<1>1. written' = new /\ new.f = "nothing"
  BY DEF Use, Reboot
<1> HIDE DEF new
<1> QED BY <1>1 DEF ToStringFits

\* Every conversion keeps ToStringFits, whatever was written before.
LEMMA ToStringFitsStep == ASSUME NumberNext PROVE ToStringFits'
  BY IntegerWritten, FloatWritten, InfiniteWritten, TextWritten, RepeatedWritten, UseForgets DEF NumberNext

LEMMA ToStringFitsStays == ASSUME ToStringFits, UNCHANGED written PROVE ToStringFits'
  BY DEF ToStringFits
=============================================================================
