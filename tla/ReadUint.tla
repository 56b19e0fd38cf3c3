------------------------------ MODULE ReadUint ------------------------------
(***************************************************************************)
(* The two decimal readers of the bundle parser (patch.cpp): read_uint,    *)
(* for addresses, and parse_decimal_full, for the length of a guard.  Both *)
(* take one digit a step and must refuse a number before it overflows.     *)
(***************************************************************************)
EXTENDS Integers

CONSTANTS
    MAX,        \* INT64_MAX
    MaxDigits   \* bound on the length of the number, for TLC

\* The last digit of INT64_MAX is 7.
ASSUME MaxAssumption == MAX \in Nat /\ MAX >= 9 /\ MAX % 10 # 9
ASSUME DigitsAssumption == MaxDigits \in Nat

VARIABLES
    reader,     \* which of the two reads
    value,      \* `value`, or `v`: what int64_t arithmetic makes of it
    number,     \* the number that the digits so far write
    digits,     \* how many there are
    status      \* "reading", "accepted" or "refused"

vars == <<reader, value, number, digits, status>>

TypeOK ==
    /\ reader \in {"uint", "full"}
    /\ value \in 0..MAX /\ number \in Nat /\ digits \in Nat
    /\ status \in {"reading", "accepted", "refused"}

Init ==
    /\ reader \in {"uint", "full"}
    /\ value = 0 /\ number = 0 /\ digits = 0
    /\ status = "reading"

\* Mutants: only the product must fit; the same test for both.
TooBigLoose(d) == value > MAX \div 10
TooBigRough(d) == value > (MAX - 9) \div 10

\* read_uint leaves room for any digit, parse_decimal_full for this one.
TooBig(d) ==
    IF reader = "uint" THEN value > (MAX - 9) \div 10 ELSE value > (MAX - d) \div 10

TakeDigit(d) ==
    /\ status = "reading" /\ digits < MaxDigits
    /\ number' = number * 10 + d
    /\ digits' = digits + 1
    /\ IF TooBig(d) THEN status' = "refused" /\ UNCHANGED value
                    ELSE value' = value * 10 + d /\ UNCHANGED status
    /\ UNCHANGED reader

\* The number ends; there must have been a digit.
EndNumber ==
    /\ status = "reading"
    /\ status' = IF digits = 0 THEN "refused" ELSE "accepted"
    /\ UNCHANGED <<reader, value, number, digits>>

Next == EndNumber \/ \E d \in 0..9 : TakeDigit(d)

Spec == Init /\ [][Next]_vars

-----------------------------------------------------------------------------

\* Nothing wraps: an accepted number is read for what it is, and while digits
\* are coming the accumulator fits its type (signed overflow is undefined).  An
\* address is even below INT64_MAX, so the barrier that validate_command_order
\* starts from is above every first command.
Exact ==
    status # "refused" =>
        value = number /\ IF reader = "uint" THEN number < MAX ELSE number <= MAX

\* Only what does not fit is refused: parse_decimal_full refuses no number that
\* fits, and read_uint none but the last nine.
RefusedIsTooBig ==
    status = "refused" /\ digits > 0 =>
        IF reader = "uint" THEN number > MAX - 9 ELSE number > MAX
=============================================================================
