----------------------------- MODULE LogStream ------------------------------
(***************************************************************************)
(* base/log/LogStream.h and LogStream.cpp: the stream in which a thread    *)
(* composes a log line, a FixedBuffer that takes a piece of text as a      *)
(* whole or not at all, and the conversions of numbers.                    *)
(*                                                                         *)
(* A piece is what was streamed, its length and, of a number, its digits;  *)
(* a buffer is cur, the length so far, and the pieces it has taken.        *)
(***************************************************************************)
EXTENDS Integers, Sequences

CONSTANTS Size,             \* SIZE of the FixedBuffer: kSmallBuffer
          kMaxNumericSize

Text(what, len) == [what |-> what, len |-> len, value |-> 0, digits |-> << >>]
Number(what, value, digits) ==
    [what |-> what, len |-> Len(digits), value |-> value, digits |-> digits]

-----------------------------------------------------------------------------
\* The conversions.  C's % has the sign of the dividend and / truncates.

Lsd(i, base) == IF i >= 0 \/ i % base = 0 THEN i % base ELSE (i % base) - base
Abs(i) == IF i < 0 THEN -i ELSE i
Minus == -1

\* convert: the least significant digit first, from a table that is symmetric about
\* zero, then the sign, then reversed.
convert(v) ==
    LET digitsOf[i \in Int] ==
            LET lsd == Lsd(i, 10)
                i2 == (i - lsd) \div 10
            IN  IF i2 = 0 THEN << Abs(lsd) >> ELSE Append(digitsOf[i2], Abs(lsd))
    IN  IF v < 0 THEN << Minus >> \o digitsOf[v] ELSE digitsOf[v]

convertHex(v) ==
    LET digitsOf[i \in Nat] ==
            IF i \div 16 = 0 THEN << i % 16 >> ELSE Append(digitsOf[i \div 16], i % 16)
    IN  digitsOf[v]

-----------------------------------------------------------------------------
\* FixedBuffer.

Empty == [cur |-> 0, pieces |-> << >>]
avail(b) == Size - b.cur
add(b, piece) == [cur |-> b.cur + piece.len, pieces |-> Append(b.pieces, piece)]

\* Mutation of append: no character is kept free.
appendInclusive(b, piece) == IF avail(b) >= piece.len THEN add(b, piece) ELSE b

append(b, piece) == IF avail(b) > piece.len THEN add(b, piece) ELSE b

\* formatInteger, and the operators << of a pointer and of a double, which is a text
\* of snprintf.
addNumber(b, piece) == IF avail(b) >= kMaxNumericSize THEN add(b, piece) ELSE b
Integer(v) == Number("integer", v, convert(v))
Pointer(v) == [Number("pointer", v, convertHex(v)) EXCEPT !.len = @ + 2]
Double(len) == Text("double", len)

\* From left to right: op(... op(op(base, seq[1]), seq[2]) ..., seq[Len(seq)]).
Fold(op(_, _), base, seq) ==
    LET upto[n \in 0..Len(seq)] == IF n = 0 THEN base ELSE op(upto[n - 1], seq[n])
    IN  upto[Len(seq)]

\* operator<<: texts are appended, numbers formatted in place.
Out(b, piece) ==
    IF piece.what \in {"integer", "pointer", "double"} THEN addNumber(b, piece) ELSE append(b, piece)
-----------------------------------------------------------------------------
\* formatSI and formatIEC: the units are a tower, 1000 or 1024 times as large from
\* floor to floor.  What is printed is a unit, a number of decimals and the mantissa,
\* here without its point.

\* The integers a double holds: 2^53 and all those below it.
kExact == 2097152 * 2097152 * 2048

\* static_cast<double>(s): n is s, or a multiple of a power of two that is nearest to it.
AsDouble(s, n) ==
    IF s <= kExact THEN n = s
    ELSE \E k \in 1..10 : LET ulp == 2 ^ k IN
            /\ kExact * ulp <= 2 * s /\ s < kExact * ulp
            /\ n % ulp = 0 /\ 2 * (n - s) <= ulp /\ 2 * (s - n) <= ulp

Pow10(d) == IF d = 0 THEN 1 ELSE IF d = 1 THEN 10 ELSE 100

\* %.<d>f of n / u, of which a double is exact when u is a power of two: m is nearest.
Rounds(m, n, u, d) ==
    /\ 2 * (m * u) <= 2 * (n * Pow10(d)) + u
    /\ 2 * (n * Pow10(d)) <= 2 * (m * u) + u

\* The same when u is a power of ten: the quotient is off by up to one part in 2^53.
RoundsQuotient(m, n, u, d) ==
    /\ 2 * (m * u) * kExact <= (2 * (n * Pow10(d)) + u) * kExact + 2 * (n * Pow10(d))
    /\ 2 * (n * Pow10(d)) * kExact <= (2 * (m * u) + u) * kExact + 2 * (n * Pow10(d))

\* s < 9995, s < 99950 and s < 999500 in thousandths of the unit.
unitSI(s, u) == 1000 * s < 999500 * u
decimalsSI(s, u) == IF 1000 * s < 9995 * u THEN 2 ELSE IF 1000 * s < 99950 * u THEN 1 ELSE 0

\* n < Ki*9.995, n < Ki*99.95 and n < Ki*1023.5; up to 2^53 no n is between a product
\* and its double.
unitIEC(n, u) == 10 * n < 10235 * u
decimalsIEC(n, u) == IF 1000 * n < 9995 * u THEN 2 ELSE IF 100 * n < 9995 * u THEN 1 ELSE 0

\* The floor of the tower that is taken: the first that s is small enough for.
formatSI(s, u) == unitSI(s, u) /\ (IF u = 1000 THEN s >= 1000 ELSE ~unitSI(s, u \div 1000))
formatIEC(n, u) == unitIEC(n, u) /\ (IF u = 1024 THEN n >= 1024 ELSE ~unitIEC(n, u \div 1024))
=============================================================================
