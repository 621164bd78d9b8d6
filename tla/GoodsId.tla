------------------------------- MODULE GoodsId -------------------------------
(***************************************************************************)
(* parseGoodsId of application/legacy: the number a text denotes, or NoId. *)
(* A character is a decimal digit, the letter G (or g), or another one.    *)
(***************************************************************************)
EXTENDS Integers, Sequences

CONSTANT MaxId  \* the largest std::int64_t

ASSUME MaxIdAssumption == MaxId \in Nat /\ MaxId >= 9

Digits == 0..9
G == 10
Other == 11
Chars == Digits \cup {G, Other}
NoNumber == 0
Overflow == -1

\* Defect: the digit is left out of the test.
AppendDigitLate(value, digit) ==
    IF value > MaxId \div 10 THEN Overflow ELSE 10 * value + digit

\* One turn of the loop: the test is made before the value can exceed MaxId.
AppendDigit(value, digit) ==
    IF value > (MaxId - digit) \div 10 THEN Overflow ELSE 10 * value + digit

\* The loop over a text of digits.
Accumulate(s) ==
    LET after[n \in 0..Len(s)] ==
            IF n = 0 THEN 0
            ELSE IF after[n - 1] = Overflow THEN Overflow
            ELSE AppendDigit(after[n - 1], s[n])
    IN  after[Len(s)]

ParseGoodsId(text) ==
    LET s == IF text # << >> /\ Head(text) = G THEN Tail(text) ELSE text
    IN  IF s = << >> \/ (\E i \in DOMAIN s : s[i] \notin Digits) \/ Accumulate(s) = Overflow
        THEN NoNumber
        ELSE Accumulate(s)

\* The number a text of digits denotes.
Denoted(s) ==
    LET sum[n \in 0..Len(s)] == IF n = 0 THEN 0 ELSE 10 * sum[n - 1] + s[n]
    IN  sum[Len(s)]
=============================================================================
