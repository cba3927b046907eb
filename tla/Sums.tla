-------------------------------- MODULE Sums --------------------------------
(***************************************************************************)
(* The way of an amount of money through the program: the number of a JSON *)
(* request is parsed into hundredths, written to a NUMERIC column, read    *)
(* back, alone or as a part of the balance, in whatever form the driver    *)
(* gives it, and shown in a JSON response.                                 *)
(*                                                                         *)
(* A text is the parts of a JSON number; digits are numbers.  The code's   *)
(* limit of 18 integer digits is MaxDigits; its numbers have no bound.     *)
(***************************************************************************)
EXTENDS Integers, Sequences, SequencesExt

CONSTANTS
    Texts,          \* the sums of the requests
    Credits,        \* the accruals of the user, in hundredths
    MaxDigits,      \* maxSumIntegerDigits
    Invalid         \* ErrInvalidSum

VARIABLES
    text,           \* the sum of the request
    stage,          \* how far it has come
    amount,         \* domain.Amount in hundredths, or Invalid
    credit,         \* what the sum is subtracted from: 0 if it is read alone
    numeric,        \* pgtype.Numeric: its Int and Exp
    shown           \* the number in the response: digits, Point, digits

vars == <<text, stage, amount, credit, numeric, shown>>

Point == -1
-----------------------------------------------------------------------------
TenTo(n) == LET power[k \in 0..n] == IF k = 0 THEN 1 ELSE 10 * power[k - 1] IN power[n]

Value(digits) ==
    LET value[k \in 0..Len(digits)] ==      \* of the first k digits
            IF k = 0 THEN 0 ELSE 10 * value[k - 1] + digits[k]
    IN  value[Len(digits)]

DecimalDigits(n) ==
    LET digits[k \in 0..n] ==
            IF k < 10 THEN <<k>> ELSE Append(digits[k \div 10], k % 10)
    IN  digits[n]

NonZero(s) == {k \in DOMAIN s : s[k] # 0}
TrimLeft(s) == SubSeq(s, Min(NonZero(s) \cup {Len(s) + 1}), Len(s))
TrimRight(s) == SubSeq(s, 1, Max(NonZero(s) \cup {0}))

\* encoding/json lets no zeros in front of the integer part.  The body, and so the
\* number, is a megabyte at most, less than the exponents that are too long to parse.
ConstantsAssumption ==
    /\ MaxDigits \in Nat \ {0}
    /\ Credits \subseteq Nat
    /\ Invalid \notin Int
    /\ \A t \in Texts :
          /\ t.negative \in BOOLEAN /\ t.sign \in {-1, 1}
          /\ t.integer \in Seq(0..9) /\ t.fraction \in Seq(0..9) /\ t.exponent \in Seq(0..9)
          /\ t.integer # <<>> /\ (Len(t.integer) > 1 => t.integer[1] # 0)
          /\ Len(t.integer) + Len(t.fraction) + MaxDigits + 2 < TenTo(MaxDigits)
-----------------------------------------------------------------------------
(***************************************************************************)
(* Faults: a plausible mistake in the code each.  They are no part of the  *)
(* specification; they show what the properties below detect.              *)
(***************************************************************************)
\* Trailing zeros stay, so the decimal places are counted with them.
SignificantUntrimmed(digits) == digits

\* The point is trimmed together with the zeros: 100.00 becomes 1.
CompactedGreedily(s) ==
    SubSeq(s, 1, Max({k \in DOMAIN s : s[k] \notin {0, Point}} \cup {0}))
-----------------------------------------------------------------------------
\* parseExponent.
ParsedExponent(t) ==
    LET digits == TrimLeft(t.exponent)
    IN  IF Len(digits) > MaxDigits THEN Invalid ELSE t.sign * Value(digits)

Significant(digits) == TrimRight(digits)

ParseSum(t) ==
    LET digits == TrimLeft(t.integer \o t.fraction)
        significant == Significant(digits)
        exponent == ParsedExponent(t) - Len(t.fraction) + Len(digits) - Len(significant)
    IN  IF \/ t.negative
           \/ Len(t.integer) > 1 /\ t.integer[1] = 0
           \/ ParsedExponent(t) = Invalid
           \/ digits = <<>>
           \/ exponent < -2
           \/ Len(significant) + exponent > MaxDigits
        THEN Invalid
        ELSE Value(significant) * TenTo(exponent + 2)

\* amountFromNumeric and AmountFromHundredths.
FromNumeric(int, exp) ==
    LET scale == exp + 2
        hundredths == IF scale >= 0 THEN int * TenTo(scale) ELSE int \div TenTo(-scale)
    IN  IF (scale < 0 /\ int % TenTo(-scale) # 0) \/ hundredths < 0
        THEN Invalid ELSE hundredths

\* Amount.String: the units, a point and two digits.
AmountString(a) ==
    DecimalDigits(a \div 100) \o <<Point>> \o <<(a % 100) \div 10, a % 10>>

\* What Compact leaves of it.
Compacted(s) ==
    LET trimmed == TrimRight(s)
    IN  IF Last(trimmed) = Point THEN Front(trimmed) ELSE trimmed
-----------------------------------------------------------------------------
Init ==
    /\ text \in Texts
    /\ stage = "request"
    /\ amount = Invalid
    /\ credit = 0
    /\ numeric = <<0, 0>>
    /\ shown = <<>>

\* Service.Withdraw parses the sum; 422 if that fails.
Parse ==
    /\ stage = "request"
    /\ amount' = ParseSum(text)
    /\ stage' = IF amount' = Invalid THEN "refused" ELSE "parsed"
    /\ UNCHANGED <<text, credit, numeric, shown>>

\* Whatever form of h hundredths the driver reads: 100.00 is 10000e-2, 1e2, ...
Numerics(h) ==
    {<<h * TenTo(-2 - exp), exp>> : exp \in {-3, -2}} \cup
    {<<h \div TenTo(exp + 2), exp>> : exp \in {e \in -1..MaxDigits : h % TenTo(e + 2) = 0}}

\* The sum is written as numericFromAmount gives it and read for the list.
ReadAlone ==
    /\ stage = "parsed"
    /\ numeric' \in Numerics(amount)
    /\ amount' = Invalid
    /\ stage' = "read"
    /\ UNCHANGED <<text, credit, shown>>

\* It is written and read as what is left of the accruals.
ReadBalance(c) ==
    /\ stage = "parsed"
    /\ c >= amount
    /\ credit' = c
    /\ numeric' \in Numerics(c - amount)
    /\ amount' = Invalid
    /\ stage' = "read"
    /\ UNCHANGED <<text, shown>>

\* Withdrawals and Get convert what they read; 500 if that fails.
Convert ==
    /\ stage = "read"
    /\ amount' = FromNumeric(numeric[1], numeric[2])
    /\ stage' = IF amount' = Invalid THEN "failed" ELSE "converted"
    /\ UNCHANGED <<text, credit, numeric, shown>>

\* The handlers give it to the client.
Show ==
    /\ stage = "converted"
    /\ shown' = Compacted(AmountString(amount))
    /\ stage' = "shown"
    /\ UNCHANGED <<text, amount, credit, numeric>>

Next == Parse \/ ReadAlone \/ (\E c \in Credits : ReadBalance(c)) \/ Convert \/ Show

Spec == Init /\ [][Next]_vars
-----------------------------------------------------------------------------
\* By what a decimal number means: its digits as one number, how many they are, and
\* how many hundredths one unit of the number is, as a power of ten.
Decimal(t) ==
    [mantissa |-> Value(t.integer \o t.fraction),
     length |-> Len(t.integer) + Len(t.fraction),
     power |-> t.sign * Value(t.exponent) - Len(t.fraction) + 2]

\* x.mantissa * 10^x.power = h, for h below 10^(MaxDigits + 3).  A power of ten that
\* is larger than what it would have to divide is not computed.
Equal(x, h) ==
    IF x.mantissa = 0 \/ h = 0
    THEN x.mantissa = h
    ELSE \/ x.power \in 0..MaxDigits + 2 /\ x.mantissa * TenTo(x.power) = h
         \/ -x.power \in 1..x.length /\ h * TenTo(-x.power) = x.mantissa

IsValue(t, h) == Equal(Decimal(t), h)

\* The number in the response, as the client reads it.
ShownText ==
    LET points == {k \in DOMAIN shown : shown[k] = Point}
        point == Min(points \cup {Len(shown) + 1})
    IN  [negative |-> FALSE, sign |-> 1, exponent |-> <<>>,
         integer |-> SubSeq(shown, 1, point - 1),
         fraction |-> SubSeq(shown, point + 1, Len(shown))]

\* The column holds every parsed sum, and the parser takes every sum that the
\* API allows, however it is written: positive, a whole number of hundredths,
\* below 10^MaxDigits.  What it takes is the number that was written.
ParsedExactly ==
    /\ stage = "refused" /\ ~text.negative =>
          LET x == Decimal(text) IN \A h \in 1..TenTo(MaxDigits + 2) - 1 : ~Equal(x, h)
    /\ stage = "parsed" =>
          /\ ~text.negative
          /\ amount \in 1..TenTo(MaxDigits + 2) - 1
          /\ IsValue(text, amount)

\* No sum is lost or changed on the way to the database and back, whatever
\* exponent the driver reads: the client is shown the number it asked for, or
\* the exact rest of its accruals, and never an error.
ShownExactly ==
    /\ stage # "failed"
    /\ stage = "shown" =>
          /\ IsValue(text, IF credit = 0 THEN amount ELSE credit - amount)
          /\ IsValue(ShownText, amount)
=============================================================================
