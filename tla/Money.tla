-------------------------------- MODULE Money --------------------------------
(***************************************************************************)
(* moneyToCents and formatMoney (apps/orders-service): amounts as strings  *)
(* of decimals, and as the bigint cents that orders are computed in.       *)
(*                                                                         *)
(* An amount is the number before its point and the digits after it.       *)
(***************************************************************************)
EXTENDS Integers, Sequences

Digit == 0..9

Amount(whole, fraction) == [whole |-> whole, fraction |-> fraction]

\* What the columns of type numeric with scale 2 read as.
Amounts == [whole : Nat, fraction : Digit \X Digit]

\* OrderCreatedEvent: @Matches(/^\d+\.\d{2}$/).
Matches(amount) ==
    amount.whole \in Nat /\ Len(amount.fraction) = 2
    /\ \A i \in 1..2 : amount.fraction[i] \in Digit

\* padEnd(2, '0'), of at most two digits.
PadEnd(digits) ==
    CASE Len(digits) = 0 -> <<0, 0>>
      [] Len(digits) = 1 -> <<digits[1], 0>>
      [] OTHER           -> digits

MoneyToCents(amount) ==
    LET fraction == PadEnd(amount.fraction)
    IN  100 * amount.whole + 10 * fraction[1] + fraction[2]

\* toString, of a number below 100.
Digits(n) == IF n < 10 THEN <<n>> ELSE <<n \div 10, n % 10>>

\* Mutant of PadStart: nothing is padded.
AsItIs(digits) == digits

\* padStart(2, '0'), of at most two digits.
PadStart(digits) == IF Len(digits) = 1 THEN <<0, digits[1]>> ELSE digits

FormatMoney(cents) == Amount(cents \div 100, PadStart(Digits(cents % 100)))
=============================================================================
