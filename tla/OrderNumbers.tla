---------------------------- MODULE OrderNumbers ----------------------------
(***************************************************************************)
(* ParseNumber, as uploads and withdrawals use it: a customer copies the   *)
(* number of an order, perhaps with a mistake, and the program goes through *)
(* what it is sent from the right to the left.                             *)
(***************************************************************************)
EXTENDS Integers, Sequences, SequencesExt

CONSTANTS
    MaxNumberLength,
    Other,          \* a byte that is no digit
    MaxLength       \* bound: how much a customer sends

ConstantsAssumption ==
    /\ MaxNumberLength \in Nat \ {0}
    /\ MaxLength \in Nat
    /\ Other \notin 0..9

VARIABLES
    number,         \* the number of an order
    value,          \* what the customer sends
    mistake,        \* the mistake in it, if there is one
    i, checksum, double,    \* the loop
    result          \* whether it is a number

vars == <<number, value, mistake, i, checksum, double, result>>
-----------------------------------------------------------------------------
\* The Luhn check by its definition: every second digit from the right counts
\* as the digit sum of its double, and ten divides the sum.
Count(digit, k) ==      \* the k-th from the right
    IF k % 2 = 1 THEN digit ELSE ((2 * digit) \div 10) + ((2 * digit) % 10)

LuhnSum(s) ==
    LET sum[k \in 0..Len(s)] ==     \* of the last k digits
            IF k = 0 THEN 0 ELSE sum[k - 1] + Count(s[Len(s) + 1 - k], k)
    IN  sum[Len(s)]

IsNumber(s) ==
    /\ s # <<>> /\ Len(s) <= MaxNumberLength
    /\ \A p \in DOMAIN s : s[p] \in 0..9
    /\ LuhnSum(s) % 10 = 0
-----------------------------------------------------------------------------
(***************************************************************************)
(* Faults: a plausible mistake in the code each.  They are no part of the  *)
(* specification; they show what the properties below detect.              *)
(***************************************************************************)
\* The digits of a double are not added.
WeightUnreduced(digit) == IF double THEN 2 * digit ELSE digit
-----------------------------------------------------------------------------
Init ==
    /\ number \in {s \in BoundedSeq(0..9, MaxLength) : IsNumber(s)}
    /\ value = number
    /\ mistake = "none"
    /\ i = 0
    /\ checksum = 0
    /\ double = FALSE
    /\ result = "unknown"

Copying == i = 0 /\ result = "unknown" /\ mistake = "none"

\* The customer's mistakes: one character is wrong, ...
Mistype(p, character) ==
    /\ Copying
    /\ character # number[p]
    /\ value' = [number EXCEPT ![p] = character]
    /\ mistake' = "mistyped"
    /\ UNCHANGED <<number, i, checksum, double, result>>

\* ... two digits have changed places, ...
Transpose(p) ==
    /\ Copying
    /\ number[p] # number[p + 1]
    /\ value' = [number EXCEPT ![p] = number[p + 1], ![p + 1] = number[p]]
    /\ mistake' = IF {number[p], number[p + 1]} = {0, 9} THEN "zero and nine" ELSE "transposed"
    /\ UNCHANGED <<number, i, checksum, double, result>>

\* ... or there is too much or nothing.
Overdo(s) ==
    /\ Copying
    /\ value' = s
    /\ mistake' = "other"
    /\ UNCHANGED <<number, i, checksum, double, result>>

Mistake ==
    \/ \E p \in DOMAIN number, c \in (0..9) \cup {Other} : Mistype(p, c)
    \/ \E p \in 1..Len(number) - 1 : Transpose(p)
    \/ \E s \in {<<>>, <<0>> \o number, number \o <<0>>} : Overdo(s)
-----------------------------------------------------------------------------
\* ParseNumber looks at the length, ...
Begin ==
    /\ i = 0 /\ result = "unknown"
    /\ IF value = <<>> \/ Len(value) > MaxNumberLength
       THEN result' = "invalid" /\ UNCHANGED i
       ELSE i' = Len(value) /\ UNCHANGED result
    /\ UNCHANGED <<number, value, mistake, checksum, double>>

Weight(digit) ==
    IF double THEN (IF 2 * digit > 9 THEN 2 * digit - 9 ELSE 2 * digit) ELSE digit

\* ... takes a digit after the other, ...
TakeDigit ==
    /\ i > 0 /\ result = "unknown"
    /\ value[i] \in 0..9
    /\ checksum' = (checksum + Weight(value[i])) % 10
    /\ double' = ~double
    /\ i' = i - 1
    /\ result' = IF i > 1 THEN result ELSE IF checksum' # 0 THEN "invalid" ELSE "number"
    /\ UNCHANGED <<number, value, mistake>>

\* ... and stops at anything else.
RefuseByte ==
    /\ i > 0 /\ result = "unknown"
    /\ value[i] \notin 0..9
    /\ result' = "invalid"
    /\ UNCHANGED <<number, value, mistake, i, checksum, double>>

Next == Mistake \/ Begin \/ TakeDigit \/ RefuseByte

Spec == Init /\ [][Next]_vars
-----------------------------------------------------------------------------
\* The loop accepts what the Luhn check by its definition accepts, however long
\* and however many zeros lead, and nothing else.  So one wrong digit, or two
\* digits in each other's place, never make another number, and nobody withdraws
\* for, or registers, an order by a slip; only 09 and 90 the check cannot tell apart.
SlipsDetected ==
    /\ result = "number" => IsNumber(value) /\ mistake \notin {"mistyped", "transposed"}
    /\ result = "invalid" => ~IsNumber(value)
=============================================================================
