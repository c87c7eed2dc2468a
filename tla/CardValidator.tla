--------------------------- MODULE CardValidator ---------------------------
(***************************************************************************)
(* BankCardValidatorTool: the check of a card number's last digit.  A      *)
(* number is the sequence of its digits; what is not a number of the       *)
(* required length stands for every argument the schema refuses.           *)
(***************************************************************************)
EXTENDS Integers, Sequences, Totals

CONSTANT CardLength \* the digits CardValidationArguments requires

ASSUME CardLengthAssumption == CardLength \in Nat \ {0}

Digits == 0 .. 9

WellFormed(card) == card \in Seq(Digits) /\ Len(card) = CardLength

\* The index that enumerate gives the digit at place i of the reversed number.
Index(card, i) == Len(card) - i

\* Slips: the product stays as it is; places are counted from the left.
AddendUncarried(card, i) ==
    IF Index(card, i) % 2 = 1 THEN 2 * card[i] ELSE card[i]

AddendFromLeft(card, i) ==
    IF i % 2 = 0
    THEN IF 2 * card[i] > 9 THEN 2 * card[i] - 9 ELSE 2 * card[i]
    ELSE card[i]

\* What the digit at place i adds to the total.
Addend(card, i) ==
    IF Index(card, i) % 2 = 1
    THEN IF 2 * card[i] > 9 THEN 2 * card[i] - 9 ELSE 2 * card[i]
    ELSE card[i]

Addends(card) == [i \in 1 .. Len(card) |-> Addend(card, i)]

IsValid(card) == Total(Addends(card)) % 10 = 0
-----------------------------------------------------------------------------
(* What it is for: the algorithm of Luhn, as the card standard states it.  *)

\* The sum of the digits of a number below 100.
DigitSum(k) == (k \div 10) + (k % 10)

\* Beginning with the last digit of the payload, which is the number without
\* its last digit, every other digit is doubled, and the digits are added up.
PayloadSum(card) ==
    Total([i \in 1 .. (Len(card) - 1) |->
              IF (Len(card) - 1 - i) % 2 = 0 THEN DigitSum(2 * card[i])
                                             ELSE card[i]])

CheckDigit(card) == (10 - (PayloadSum(card) % 10)) % 10

IsLuhn(card) == card[Len(card)] = CheckDigit(card)
=============================================================================
