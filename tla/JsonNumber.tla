----------------------------- MODULE JsonNumber -----------------------------
(***************************************************************************)
(* How rapidjson turns numbers into decimals and decimals into numbers:    *)
(* itoa, the Grisu2 of dtoa, and strtod with its exact fallback.           *)
(*                                                                         *)
(* A double is its bits without the sign, a natural number; a DiyFp is     *)
(* [f, e], f times two to the e, in arithmetic modulo 2^Diy.  The widths   *)
(* and the tables that depend on them are constants.                       *)
(***************************************************************************)
EXTENDS Integers, Sequences, FiniteSets, SequencesExt

CONSTANTS
    Diy,            \* bits of the significand of a DiyFp: 64
    Dp,             \* and of a double, without the hidden one: 52
    ExpBits,        \* bits of the exponent of a double: 11
    CachedPowers,   \* powers of ten, as DiyFp: 10^-348, 10^-340, ...
    FirstPower,     \* -348
    Step,           \* 8
    MaxPow,         \* the largest power of ten in a double: 308
    Exact,          \* the largest exact one: 22
    FastDigits,     \* 16
    MinDecimal,     \* 10^MinDecimal is nothing: -324
    MaxDecimal,     \* 10^MaxDecimal is infinite: 309
    MaxDecimalDigit \* digits of a decimal that count: 768

Big == INSTANCE BigInteger WITH Width <- 6, Capacity <- 40

Least(S) == CHOOSE m \in S : \A n \in S : m <= n
Wrap(n) == n % 2 ^ Diy
TenDigits == <<"0", "1", "2", "3", "4", "5", "6", "7", "8", "9">>
Print10(s) == [i \in DOMAIN s |-> TenDigits[s[i] + 1]]
Zeros(n) == [i \in 1 .. n |-> "0"]

-----------------------------------------------------------------------------
(* internal/ieee754.h.                                                     *)

Hidden == 2 ^ Dp
Bias == 2 ^ (ExpBits - 1) - 1 + Dp
Infinity == (2 ^ ExpBits - 1) * Hidden
Significand(u) == u % Hidden
IsNormal(u) == u \div Hidden # 0 \/ u = 0
IntegerSignificand(u) == IF IsNormal(u) THEN Significand(u) + Hidden ELSE Significand(u)
IntegerExponent(u) == IF IsNormal(u) THEN u \div Hidden - Bias ELSE 1 - Bias
NextPositiveDouble(u) == u + 1

\* The bits that a double has for a value of the order two to the order.
EffectiveSignificandSize(order) ==
    LET lowest == 2 - 2 ^ (ExpBits - 1) - Dp
    IN  IF order >= lowest + Dp + 1 THEN Dp + 1
        ELSE IF order <= lowest THEN 0 ELSE order - lowest

\* What the machine does with an operation on doubles whose exact result is
\* n / d: the nearest double, of two the even one.
Rounded(n, d) ==
    LET Num(e) == IF e < 0 THEN n * 2 ^ (-e) ELSE n
        Den(e) == IF e < 0 THEN d ELSE d * 2 ^ e
        fits == {e \in 1 - Bias .. 2 ^ ExpBits - 2 - Bias : Num(e) \div Den(e) < 2 * Hidden}
        e == Least(fits)
        q == Num(e) \div Den(e)
        r == 2 * (Num(e) % Den(e))
        up == r > Den(e) \/ (r = Den(e) /\ q % 2 = 1)
    IN  IF n \div d >= 2 ^ (2 ^ (ExpBits - 1)) THEN Infinity
        ELSE (e + Bias - 1) * Hidden + q + (IF up THEN 1 ELSE 0)

-----------------------------------------------------------------------------
(* internal/diyfp.h.                                                       *)

DiyFp(f, e) == [f |-> f, e |-> e]
DiyOf(u) ==
    IF u \div Hidden # 0 THEN DiyFp(Significand(u) + Hidden, u \div Hidden - Bias)
    ELSE DiyFp(Significand(u), 1 - Bias)
Minus(a, b) == DiyFp(Wrap(a.f - b.f), a.e)

\* operator*: the upper half of the product, rounded.
Times(a, b) ==
    DiyFp(((a.f * b.f) \div 2 ^ Diy) + (((a.f * b.f) \div 2 ^ (Diy - 1)) % 2), a.e + b.e + Diy)

ShiftTo(a, top) ==      \* until the bit top is set
    LET s == CHOOSE n \in 0 .. Diy : a.f * 2 ^ n \in 2 ^ top .. 2 ^ (top + 1) - 1
    IN  DiyFp(a.f * 2 ^ s, a.e - s)
Normalize(a) == ShiftTo(a, Diy - 1)
NormalizeBoundary(a) ==
    LET b == ShiftTo(a, Dp + 1)
        more == Diy - Dp - 2
    IN  DiyFp(b.f * 2 ^ more, b.e - more)

\* Half way to the next double and to the one before, which is nearer below
\* a power of two.
NormalizedBoundaries(a) ==
    LET plus == NormalizeBoundary(DiyFp(2 * a.f + 1, a.e - 1))
        minus == IF a.f = Hidden THEN DiyFp(4 * a.f - 1, a.e - 2)
                 ELSE DiyFp(2 * a.f - 1, a.e - 1)
    IN  [plus |-> plus, minus |-> DiyFp(minus.f * 2 ^ (minus.e - plus.e), plus.e)]

ToDouble(a) ==
    LET biased == IF a.e = 1 - Bias /\ a.f < Hidden THEN 0 ELSE a.e + Bias
    IN  IF a.e < 1 - Bias THEN 0
        ELSE IF a.e >= 2 ^ ExpBits - 1 - Bias THEN Infinity
        ELSE Significand(a.f) + biased * Hidden

\* The cached power that brings the exponent e into the range of DigitGen,
\* and minus its decimal exponent.
GetCachedPower(e) ==
    LET k == -((-((3 - Diy - e) * 30103)) \div 100000) - FirstPower - 1
        index == k \div Step + 1
    IN  [c |-> CachedPowers[index + 1], K |-> -(FirstPower + index * Step)]

\* The largest cached power up to 10^exp.
GetCachedPower10(exp) ==
    LET index == (exp - FirstPower) \div Step
    IN  [c |-> CachedPowers[index + 1], exp |-> FirstPower + index * Step]

-----------------------------------------------------------------------------
(* internal/dtoa.h.                                                        *)

\* The last digit is lowered while that brings the result nearer to W.
RECURSIVE GrisuRound(_, _, _, _, _)
GrisuRound(digits, delta, rest, ten, wp_w) ==
    IF /\ rest < wp_w /\ delta - rest >= ten
       /\ rest + ten < wp_w \/ wp_w - rest > rest + ten - wp_w
    THEN GrisuRound([digits EXCEPT ![Len(digits)] = @ - 1], delta, rest + ten, ten, wp_w)
    ELSE digits

CountDecimalDigit32(n) == Least({k \in 1 .. 9 : n < 10 ^ k \/ k = 9})
Put(digits, d) == IF d = 0 /\ digits = <<>> THEN digits ELSE Append(digits, d)

\* The digits before the point of Mp, p1, and then those behind it, p2, until
\* the rest is within delta of it: [digits, kappa].
RECURSIVE Fractional(_, _, _, _, _, _)
Fractional(digits, p2, delta, wp_w, kappa, point) ==
    LET ten == Wrap(p2 * 10)
        more == Wrap(delta * 10)
        all == Put(digits, ten \div 2 ^ point)
        rest == ten % 2 ^ point
        scale == IF 1 - kappa < 9 THEN 10 ^ (1 - kappa) ELSE 0
    IN  IF rest < more
        THEN [digits |-> GrisuRound(all, more, rest, 2 ^ point, Wrap(wp_w * scale)),
              kappa |-> kappa - 1]
        ELSE Fractional(all, rest, more, wp_w, kappa - 1, point)
RECURSIVE Integral(_, _, _, _, _, _, _)
Integral(digits, p1, p2, delta, wp_w, kappa, point) ==
    LET ten == 10 ^ (kappa - 1)
        all == Put(digits, p1 \div ten)
        rest == (p1 % ten) * 2 ^ point + p2
    IN  IF kappa = 0 THEN Fractional(digits, p2, delta, wp_w, 0, point)
        ELSE IF rest <= delta
        THEN [digits |-> GrisuRound(all, delta, rest, Wrap(ten * 2 ^ point), wp_w),
              kappa |-> kappa - 1]
        ELSE Integral(all, p1 % ten, p2, delta, wp_w, kappa - 1, point)
DigitGen(W, Mp, delta) ==
    LET p1 == Mp.f \div 2 ^ (-Mp.e)
    IN  Integral(<<>>, p1, Mp.f % 2 ^ (-Mp.e), delta, Minus(Mp, W).f,
                 CountDecimalDigit32(p1), -Mp.e)

\* The digits and the decimal exponent of a positive double, which are looked
\* for one unit inside of the computed boundaries.
Generated(W, Wp, Wm) == DigitGen(W, DiyFp(Wp.f - 1, Wp.e), (Wp.f - 1) - (Wm.f + 1))
Grisu2(u) ==
    LET InDigits(got, K) == [digits |-> got.digits, K |-> K + got.kappa]
        ByPower(bounds, cached) ==
            InDigits(Generated(Times(Normalize(DiyOf(u)), cached.c), Times(bounds.plus, cached.c),
                               Times(bounds.minus, cached.c)), cached.K)
        Between(bounds) == ByPower(bounds, GetCachedPower(bounds.plus.e))
    IN  Between(NormalizedBoundaries(DiyOf(u)))

WriteExponent(K) ==
    LET n == IF K < 0 THEN -K ELSE K
    IN  (IF K < 0 THEN <<"-">> ELSE <<>>) \o
        Print10(IF n >= 100 THEN <<n \div 100, (n % 100) \div 10, n % 10>>
                ELSE IF n >= 10 THEN <<n \div 10, n % 10>> ELSE <<n>>)

\* Digits behind the point that are cut off, with the zeros before them, all
\* but the first.
RECURSIVE Cut(_, _)
Cut(s, places) ==
    IF Len(s) > places THEN Cut(SubSeq(s, 1, places), places)
    ELSE IF Len(s) > 1 /\ Last(s) = "0" THEN Cut(Front(s), places) ELSE s

\* The text of digits times ten to the k.
Prettify(digits, k, maxDecimalPlaces) ==
    LET s == Print10(digits)
        n == Len(s)
        kk == n + k
        behind == IF kk > 0 THEN SubSeq(s, kk + 1, n) ELSE Zeros(-kk) \o s
        kept == IF Len(behind) > maxDecimalPlaces THEN Cut(behind, maxDecimalPlaces) ELSE behind
    IN  CASE k >= 0 /\ kk <= 21 -> s \o Zeros(k) \o <<".", "0">>
          [] k < 0 /\ kk \in 1 .. 21 -> SubSeq(s, 1, kk) \o <<".">> \o kept
          [] kk \in -5 .. 0 -> <<"0", ".">> \o kept
          [] kk <= -6 /\ kk < -maxDecimalPlaces -> <<"0", ".", "0">>
          [] OTHER -> <<s[1]>> \o (IF n = 1 THEN <<>> ELSE <<".">> \o Tail(s))
                      \o <<"e">> \o WriteExponent(kk - 1)

dtoa(u, negative, maxDecimalPlaces) ==
    LET Text(g) == Prettify(g.digits, g.K, maxDecimalPlaces)
    IN  (IF negative THEN <<"-">> ELSE <<>>) \o (IF u = 0 THEN <<"0", ".", "0">> ELSE Text(Grisu2(u)))

-----------------------------------------------------------------------------
(* internal/itoa.h: a value is written in groups of four digits, of which  *)
(* only the first is written without its zeros.                            *)

Four(n) == Print10(<<n \div 1000, (n \div 100) % 10, (n \div 10) % 10, n % 10>>)
Eight(n) == Four(n \div 10000) \o Four(n % 10000)
NoZeros(s, n) == SubSeq(s, Len(s) - Least({k \in 1 .. 8 : n < 10 ^ k \/ k = 8}) + 1, Len(s))

u32toa(n) ==
    IF n < 100000000 THEN NoZeros(Eight(n), n)
    ELSE (IF n \div 100000000 >= 10 THEN Print10(<<n \div 1000000000>>) ELSE <<>>)
         \o Print10(<<(n \div 100000000) % 10>>) \o Eight(n % 100000000)
i32toa(n) == IF n < 0 THEN <<"-">> \o u32toa(-n) ELSE u32toa(n)

\* A 64-bit value is given as <<a, v0, v1>>, in base 10^8.
u64toa(v) ==
    IF v[1] = 0 /\ v[2] = 0 THEN NoZeros(Eight(v[3]), v[3])
    ELSE IF v[1] = 0 THEN NoZeros(Eight(v[2]), v[2]) \o Eight(v[3])
    ELSE NoZeros(Four(v[1]), v[1]) \o Eight(v[2]) \o Eight(v[3])

-----------------------------------------------------------------------------
(* internal/strtod.h.                                                      *)

\* Doubles times and over a power of ten; Pow10 is the nearest double.
Shifted(n, e) == IF e < 0 THEN n ELSE n * 2 ^ e
ProductOf(u, v) ==
    LET a == DiyOf(u)
        b == DiyOf(v)
    IN  Rounded(Shifted(a.f * b.f, a.e + b.e), Shifted(1, -(a.e + b.e)))
QuotientOf(u, v) ==
    LET a == DiyOf(u)
        b == DiyOf(v)
    IN  Rounded(Shifted(a.f, a.e - b.e), b.f * Shifted(1, b.e - a.e))
Pow10(n) == Rounded(10 ^ n, 1)
FastPath(u, exp) ==
    IF exp < -MaxPow THEN 0
    ELSE IF exp >= 0 THEN ProductOf(u, Pow10(exp)) ELSE QuotientOf(u, Pow10(-exp))
StrtodNormalPrecision(u, p) ==
    IF p < -MaxPow THEN FastPath(FastPath(u, -MaxPow), p + MaxPow) ELSE FastPath(u, p)

\* <<whether it applies, the result>>.
StrtodFast(u, p) ==
    LET disguised == p > Exact /\ p < Exact + FastDigits
        d == IF disguised THEN ProductOf(u, Pow10(p - Exact)) ELSE u
        q == IF disguised THEN Exact ELSE p
    IN  IF q \in -Exact .. Exact /\ d <= Rounded(2 * Hidden - 1, 1)
        THEN <<TRUE, FastPath(d, q)>> ELSE <<FALSE, 0>>

\* How far the decimal s, an integer times 10^dExp, is from u, compared with
\* half a unit of u: all three are scaled to integers.
CheckWithinHalfULP(u, s, dExp) ==
    LET bExp == IntegerExponent(u)
        hExp == bExp - 1
        Pos(n) == IF n > 0 THEN n ELSE 0
        dS2 == Pos(dExp) + Pos(-bExp) + Pos(-hExp)
        bS2 == Pos(-dExp) + Pos(bExp) + Pos(-hExp)
        hS2 == Pos(-dExp) + Pos(-bExp) + Pos(hExp)
        common == Least({dS2, bS2, hS2})
        Times5And2(a, e5, e2) == Big!ShiftLeft(Big!MultiplyPow5(a, e5), e2 - common)
        dS == Times5And2(Big!FromDecimals(Big!Zero, s), Pos(dExp), dS2)
        bS == Times5And2(<<IntegerSignificand(u)>>, Pos(-dExp), bS2)
        hS == Times5And2(<<1>>, Pos(-dExp), hS2)
    IN  Big!Compare(Big!Difference(dS, bS), hS)

\* The digits of a 64-bit significand, and what the rest would round it to.
RECURSIVE Leading(_, _, _)
Leading(s, i, n) ==
    IF i > Len(s) \/ n > (2 ^ Diy - 1) \div 10
       \/ (n = (2 ^ Diy - 1) \div 10 /\ s[i] > (2 ^ Diy - 1) % 10)
    THEN [f |-> IF i <= Len(s) /\ s[i] >= 5 THEN n + 1 ELSE n, rest |-> Len(s) - i + 1]
    ELSE Leading(s, i + 1, 10 * n + s[i])

\* A value v with an error in eighths of a unit.
Ulp == 8
Inexact(v, error) == [v |-> v, error |-> error]
\* What was left out costs half a unit.
Normalized(v, rest) == Inexact(v, (IF rest = 0 THEN 0 ELSE Ulp \div 2) * 2 ^ (-v.e))
\* Times the ten to the adjust between two cached powers.
Adjusted(a, adjust, len) ==
    IF adjust = 0 THEN a
    ELSE Inexact(Times(a.v, Normalize(DiyFp(10 ^ adjust, 0))),
                 a.error + (IF 10 ^ (len + adjust) >= 2 ^ Diy THEN Ulp \div 2 ELSE 0))
TimesPower(a, c) == Inexact(Times(a.v, c), a.error + Ulp + (IF a.error = 0 THEN 0 ELSE 1))
Renormalized(a, v) == Inexact(v, a.error * 2 ^ (a.v.e - v.e))
\* Where the bits that do not count leave no room for the error, it is scaled.
Scaled(a, scale) ==
    IF scale = 0 THEN a
    ELSE Inexact(DiyFp(a.v.f \div 2 ^ scale, a.v.e + scale), a.error \div 2 ^ scale + 1 + Ulp)
RoundedUp(down) ==
    IF down.f + 1 = 2 * Hidden THEN DiyFp(Hidden, down.e + 1) ELSE DiyFp(down.f + 1, down.e)
\* <<whether the result is certain, the result>>.
Chosen(down, precision, halfway, error) ==
    <<halfway - error >= precision \/ precision >= halfway + error,
      ToDouble(IF precision >= halfway + error THEN RoundedUp(down) ELSE down)>>
Without(a, bits) ==
    Chosen(DiyFp(a.v.f \div 2 ^ bits, a.v.e + bits), (a.v.f % 2 ^ bits) * Ulp,
           2 ^ (bits - 1) * Ulp, a.error)
CutTo(a, size) ==
    LET scale == IF size + 3 >= Diy THEN size + 4 - Diy ELSE 0
    IN  Without(Scaled(a, scale), size - scale)
Certain(a) == CutTo(a, Diy - EffectiveSignificandSize(Diy + a.v.e))
Product(a) == Certain(Renormalized(a, Normalize(a.v)))
TimesCached(a, cached, dExp, len) ==
    Product(TimesPower(Adjusted(a, dExp - cached.exp, len), cached.c))
OfLeading(lead, dExp, len) ==
    TimesCached(Normalized(Normalize(DiyFp(lead.f, 0)), lead.rest),
                GetCachedPower10(dExp + lead.rest), dExp + lead.rest, len)
StrtodDiyFp(s, dExp) == OfLeading(Leading(s, 1, 0), dExp, Len(s))

StrtodBigInteger(u, s, dExp) ==
    LET cmp == CheckWithinHalfULP(u, s, dExp)
    IN  IF cmp < 0 \/ (cmp = 0 /\ Significand(u) % 2 = 0) THEN u ELSE NextPositiveDouble(u)

\* The number of zeros that s starts and ends with.
Nonzero(s) == {i \in DOMAIN s : s[i] # 0}
Before(s) == IF Nonzero(s) = {} THEN Len(s) ELSE Least(Nonzero(s)) - 1
After(s) == Before(Reverse(s))

\* UncertainToo: the approximation is taken as it is.
UncertainToo(near, s, dExp) == near[2]
Decided(near, s, dExp) == IF near[1] THEN near[2] ELSE StrtodBigInteger(near[2], s, dExp)

\* s are all the digits, the last places of them behind the point, u and p
\* what the reader made of them, exp the exponent in the text.
OfDigits(digits, dExp) ==
    IF Len(digits) + dExp <= MinDecimal THEN 0
    ELSE IF Len(digits) + dExp > MaxDecimal THEN Infinity
    ELSE Decided(StrtodDiyFp(digits, dExp), digits, dExp)
OfTrimmed(trimmed, dExp) ==
    LET cut == IF Len(trimmed) > MaxDecimalDigit THEN Len(trimmed) - MaxDecimalDigit ELSE 0
    IN  OfDigits(SubSeq(trimmed, 1, Len(trimmed) - cut), dExp + cut)
Slow(s, dExp) ==
    IF Nonzero(s) = {} THEN 0
    ELSE OfTrimmed(SubSeq(s, Before(s) + 1, Len(s) - After(s)), dExp + After(s))
Unless(fast, s, dExp) == IF fast[1] THEN fast[2] ELSE Slow(s, dExp)
StrtodFullPrecision(u, p, s, places, exp) == Unless(StrtodFast(u, p), s, exp - places)

-----------------------------------------------------------------------------
(* What is asked of them.                                                  *)

Value(s) == FoldLeft(LAMBDA n, c : 10 * n + c, 0, s)

\* The double nearest to n times ten to the e.
Nearest(n, e) == IF e >= 0 THEN Rounded(n * 10 ^ e, 1) ELSE Rounded(n, 10 ^ (-e))

\* A decimal, its last places digits behind the point, is read as the double
\* that is nearest to it, whichever way the reader takes; and as a double
\* next to that one at most in normal precision.  Of those that are too large
\* for a double, the ones that are not certain at first become not an infinity
\* but the bits after it, which are not a number.
Near(normal, full, right, certain) ==
    /\ full = right \/ (right = Infinity /\ full = NextPositiveDouble(Infinity))
    /\ certain => normal \in right - 1 .. right + 1
ReadsUnit(u, s, places, exp) ==
    Near(StrtodNormalPrecision(u, exp - places),
         StrtodFullPrecision(u, exp - places, s, places, exp),
         Nearest(Value(s), exp - places), u < Infinity /\ exp - places >= -2 * MaxPow)
ReadsNearest(s, places, exp) == ReadsUnit(Rounded(Value(s), 1), s, places, exp)

\* What a text of digits, point and exponent stands for: digits and exponent.
DigitOf(c) == (CHOOSE i \in DOMAIN TenDigits : TenDigits[i] = c) - 1
DigitsIn(t) ==
    LET d == SelectSeq(t, LAMBDA c : c \in ToSet(TenDigits))
    IN  [i \in DOMAIN d |-> DigitOf(d[i])]
Position(t, c) == IF \E i \in DOMAIN t : t[i] = c THEN CHOOSE i \in DOMAIN t : t[i] = c ELSE Len(t) + 1
Read(text) ==
    LET t == IF text[1] = "-" THEN Tail(text) ELSE text
        e == Position(t, "e")
        mantissa == SubSeq(t, 1, e - 1)
        exp == Value(DigitsIn(SubSeq(t, e + 1, Len(t))))
        point == Least({Position(mantissa, "."), Len(mantissa)})
    IN  [digits |-> DigitsIn(mantissa), places |-> Len(mantissa) - point,
         exp |-> IF e < Len(t) /\ t[e + 1] = "-" THEN -exp ELSE exp]

\* A double is written as a decimal that is read as the same double.
StrtodOf(r) ==
    StrtodFullPrecision(Rounded(Value(r.digits), 1), r.exp - r.places, r.digits, r.places, r.exp)
IsTextOf(text, u, negative) ==
    /\ (text[1] = "-") = negative
    /\ Position(text, ".") < Len(text) \/ Position(text, "e") < Len(text)
    /\ StrtodOf(Read(text)) = u
WritesBack(u, negative) == IsTextOf(dtoa(u, negative, 324), u, negative)

Lead(s) == SubSeq(s, Before(s) + 1, Len(s))

\* With fewer decimal places the text is that of the number cut off there,
\* with one place at least; a number that is written with an exponent is not
\* cut, and one below the places is zero.
CutsOff(digits, k, places) ==
    LET full == Read(Prettify(digits, k, 324))
        r == Read(Prettify(digits, k, places))
        shift == full.places - r.places
        text == Prettify(digits, k, places)
    IN  /\ full.exp - full.places <= k
        /\ Lead(full.digits) = digits \o [i \in 1 .. k - full.exp + full.places |-> 0]
        /\ IF Position(text, "e") <= Len(text) THEN r = full
           ELSE IF full.exp # 0 THEN Lead(r.digits) = <<>> /\ full.exp < -places
           ELSE /\ r.places \in 1 .. Least({places, full.places})
                /\ Lead(r.digits) = Lead(SubSeq(full.digits, 1, Len(full.digits) - shift))

\* An integer is written with all its digits and no zero before them; the
\* same digits come out of the 32-bit and of the 64-bit conversion.
Groups(v) == Lead(DigitsIn(Four(v[1]) \o Eight(v[2]) \o Eight(v[3])))
WritesIntegers(v) ==
    /\ DigitsIn(u64toa(v)) = IF v = <<0, 0, 0>> THEN <<0>> ELSE Groups(v)
    /\ v[1] = 0 /\ v[2] <= 20 =>
          LET n == v[2] * 100000000 + v[3]
          IN  u32toa(n) = u64toa(v) /\ (n > 0 => i32toa(-n) = <<"-">> \o u64toa(v))
=============================================================================
