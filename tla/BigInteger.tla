----------------------------- MODULE BigInteger -----------------------------
(***************************************************************************)
(* The unbounded naturals with which rapidjson decides how a decimal is    *)
(* rounded (internal/biginteger.h): sequences of digits of Width bits, the *)
(* lowest first, in arithmetic modulo 2^Width.                             *)
(***************************************************************************)
EXTENDS Integers, Sequences, SequencesExt

CONSTANTS
    Width,      \* bits of a digit, an even number: 64
    Capacity    \* digits there is room for: 416

Radix == 2 ^ Width
Half == 2 ^ (Width \div 2)
Wrap(n) == n % Radix
Largest(P(_), n) == CHOOSE m \in 0 .. n : P(m) /\ \A k \in m + 1 .. n : ~P(k)

Overfull == <<>>    \* the assertion on the capacity fails
Zero == <<0>>
IsZero(a) == a = Zero
PushBack(a, d) == IF Len(a) < Capacity THEN Append(a, d) ELSE Overfull

\* operator+= of a digit u: the carry goes on while a digit became smaller.
RECURSIVE AddFrom(_, _, _)
AddFrom(a, i, u) ==
    LET b == [a EXCEPT ![i] = Wrap(@ + u)]
    IN  IF b[i] >= a[i] THEN b
        ELSE IF i = Len(a) THEN PushBack(b, 1) ELSE AddFrom(b, i + 1, 1)
Add(a, u) == AddFrom(a, 1, u)

\* operator*= of a digit: one product of two digits and a carry at a time.
MulAdd64(a, b, k) == [low |-> Wrap(a * b + k), high |-> (a * b + k) \div Radix]
RECURSIVE Product(_, _, _, _)
Product(a, u, i, k) ==
    LET p == MulAdd64(a[i], u, k)
    IN  IF i > Len(a) THEN IF k > 0 THEN PushBack(a, k) ELSE a
        ELSE Product([a EXCEPT ![i] = p.low], u, i + 1, p.high)

\* operator*= of half a digit: each digit in two halves.
RECURSIVE HalfProduct(_, _, _, _)
HalfProduct(a, u, i, k) ==
    LET p0 == Wrap(u * (a[i] % Half) + k)
        p1 == Wrap(u * (a[i] \div Half) + p0 \div Half)
    IN  IF i > Len(a) THEN IF k > 0 THEN PushBack(a, k) ELSE a
        ELSE HalfProduct([a EXCEPT ![i] = (p0 % Half) + Wrap(p1 * Half)], u, i + 1, p1 \div Half)
Multiply(a, u, Loop(_, _, _, _)) ==
    CASE u = 0 -> Zero [] u = 1 -> a [] a = <<1>> -> <<u>> [] OTHER -> Loop(a, u, 1, 0)

\* operator<<=: whole digits, and bits across the digits.
ShiftLeft(a, shift) ==
    LET bits == shift % Width
        At(i) == IF i \in DOMAIN a THEN a[i] ELSE 0
        moved == [i \in 1 .. Len(a) + 1 |->
                     Wrap(At(i) * 2 ^ bits) + At(i - 1) \div 2 ^ (Width - bits)]
        kept == IF bits = 0 THEN a
                ELSE IF Last(moved) = 0 THEN Front(moved) ELSE moved
    IN  IF IsZero(a) \/ shift = 0 THEN a
        ELSE IF Len(a) + shift \div Width > Capacity THEN Overfull
        ELSE [i \in 1 .. shift \div Width |-> 0] \o kept

\* The largest powers of five in a digit and in half a digit: 5^27 and 5^13.
Five == Largest(LAMBDA m : 5 ^ m < Radix, Width)
FiveHalf == Largest(LAMBDA m : 5 ^ m < Half, Width)
RECURSIVE MultiplyPow5(_, _)
MultiplyPow5(a, exp) ==
    IF exp = 0 THEN a
    ELSE IF exp >= Five THEN MultiplyPow5(Multiply(a, 5 ^ Five, Product), exp - Five)
    ELSE IF exp >= FiveHalf
    THEN MultiplyPow5(Multiply(a, 5 ^ FiveHalf, HalfProduct), exp - FiveHalf)
    ELSE Multiply(a, 5 ^ exp, HalfProduct)

\* Decimals, as many at a time as a digit holds: 19.
PerIteration == Largest(LAMBDA m : 10 ^ m < Radix, Width)
ParseUint64(s) == FoldLeft(LAMBDA r, d : Wrap(10 * r + d), 0, s)
AppendDecimal64(a, s) ==
    IF IsZero(a) THEN <<ParseUint64(s)>>
    ELSE Add(ShiftLeft(MultiplyPow5(a, Len(s)), Len(s)), ParseUint64(s))
RECURSIVE FromDecimals(_, _)
FromDecimals(a, s) ==
    IF s = <<>> THEN a
    ELSE IF Len(s) < PerIteration THEN AppendDecimal64(a, s)
    ELSE FromDecimals(AppendDecimal64(a, SubSeq(s, 1, PerIteration)),
                      SubSeq(s, PerIteration + 1, Len(s)))

Compare(a, b) ==
    LET differ == {i \in DOMAIN a : a[i] # b[i]}
        top == CHOOSE i \in differ : \A j \in differ : j <= i
    IN  IF Len(a) # Len(b) THEN IF Len(a) < Len(b) THEN -1 ELSE 1
        ELSE IF differ = {} THEN 0 ELSE IF a[top] < b[top] THEN -1 ELSE 1

\* Difference: out as Difference leaves it, from the count it had before.  The
\* borrow is seen by a digit that became larger; one of all ones, subtracted
\* with a borrow, leaves the digit as it was.
RECURSIVE Subtract(_, _, _, _)
Subtract(a, b, i, borrow) ==
    LET d == Wrap(a[i] - borrow - (IF i \in DOMAIN b THEN b[i] ELSE 0))
    IN  IF i > Len(a) THEN <<>>
        ELSE <<d>> \o Subtract(a, b, i + 1, IF d > a[i] THEN 1 ELSE 0)
RECURSIVE Trimmed(_)
Trimmed(a) == IF Len(a) > 1 /\ Last(a) = 0 THEN Trimmed(Front(a)) ELSE a
Difference(a, b) ==
    Trimmed(IF Compare(a, b) < 0 THEN Subtract(b, a, 1, 0) ELSE Subtract(a, b, 1, 0))

-----------------------------------------------------------------------------
(* What is asked of them, for values that TLC's integers hold.             *)

ValueOf(a) == FoldRight(LAMBDA d, v : v * Radix + d, a, 0)
Normal(a) == a # Overfull /\ (Len(a) > 1 => Last(a) # 0)

\* The operations compute what they are named for, with no digit too many.
OperatesRightly(a, u, n) ==
    LET v == ValueOf(a)
        Is(b, w) == Normal(b) /\ ValueOf(b) = w
    IN  /\ Is(Add(a, u), v + u)
        /\ Is(Multiply(a, u, Product), v * u)
        /\ u < Half => Multiply(a, u, HalfProduct) = Multiply(a, u, Product)
        /\ Is(ShiftLeft(a, n), v * 2 ^ n)
        /\ Is(MultiplyPow5(a, n), v * 5 ^ n)

\* Difference is the absolute difference, but where a digit of all ones is
\* subtracted with a borrow: the borrow is lost there.
RECURSIVE Borrow(_, _, _)
Borrow(a, b, i) ==      \* out of digit i
    i > 0 /\ (a[i] < b[i] \/ (a[i] = b[i] /\ Borrow(a, b, i - 1)))
SubtractsRightly(a, b) ==
    LET big == IF Compare(a, b) < 0 THEN b ELSE a
        small == IF Compare(a, b) < 0 THEN a ELSE b
        padded == [i \in DOMAIN big |-> IF i \in DOMAIN small THEN small[i] ELSE 0]
        lost == {i \in DOMAIN big : padded[i] = Radix - 1 /\ Borrow(big, padded, i - 1)}
        got == ValueOf(Difference(a, b))
    IN  a # b => /\ Compare(a, b) = (IF ValueOf(a) < ValueOf(b) THEN -1 ELSE 1)
                 /\ (got = ValueOf(big) - ValueOf(small)) <=> lost = {}
DecimalsRead(s) == ValueOf(FromDecimals(Zero, s)) = FoldLeft(LAMBDA r, d : 10 * r + d, 0, s)
=============================================================================
