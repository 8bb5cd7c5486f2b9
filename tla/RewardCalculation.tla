-------------------------- MODULE RewardCalculation --------------------------
(***************************************************************************)
(* What a rebate is worth: RewardCalculationInterpretation turns the terms *)
(* of an offer into an operand, an operation and a unit, RebateCalculation *)
(* applies them to a transaction, PendingRebateIssuance rounds, and the    *)
(* export writes the result.                                               *)
(*                                                                         *)
(* Big numbers are integers here.  An operand counts ten-thousandths of a  *)
(* dollar, of a point or of the factor; a transaction's amount counts      *)
(* cents; a product of the two, and any amount that is not yet rounded,    *)
(* counts millionths.  What is stored and exported counts hundredths.      *)
(***************************************************************************)
EXTENDS Integers

Benefits == {"DollarsOff", "PercentageOffForDollars", "PointsTopUp", "MultiplierForPoints"}

DollarBenefits == {"DollarsOff", "PercentageOffForDollars"}

AbsoluteBenefits == {"DollarsOff", "PointsTopUp"}

(* KafkaOfferSerializer: an amount below zero counts as none.  What is     *)
(* entered by hand is taken as it is.                                      *)
KafkaOffer(offer) == [offer EXCEPT !.rebateAmount = IF @ > 0 THEN @ ELSE 0]

(* RewardCalculationInterpretation.result                                  *)
Interpretation(offer) ==
  LET dollars == offer.benefit \in DollarBenefits
  IN  [operand |-> IF dollars THEN -offer.rebateAmount ELSE offer.rebateAmount,
       operation |-> IF offer.benefit \in AbsoluteBenefits THEN "addition" ELSE "multiplication",
       unit |-> IF dollars THEN "dollars" ELSE "points"]

Factor(m, reward) == IF reward.unit = "dollars" THEN m.amount ELSE 100 * m.basePoints

(* RebateCalculation.result                                                *)
Calculation(m, reward) ==
  LET amount == IF reward.unit = "dollars" THEN -reward.operand ELSE reward.operand
  IN  amount * (IF reward.operation = "multiplication" THEN Factor(m, reward) ELSE 100)

(* big.js rounds half up, away from zero.                                  *)
RoundHalfUp(amount, unit) ==
  IF amount >= 0 THEN (2 * amount + unit) \div (2 * unit)
                 ELSE -((unit - 2 * amount) \div (2 * unit))

RoundedDown(amount, reward) ==
  IF reward.unit = "points" THEN 100 * (amount \div 1000000) ELSE amount \div 10000

(* PendingRebateIssuance: whole points, or cents, in hundredths.           *)
Rounded(amount, reward) ==
  IF reward.unit = "points" THEN 100 * RoundHalfUp(amount, 1000000) ELSE RoundHalfUp(amount, 10000)

(* RebateExportSerializer: what the CSV says, points rounded up.           *)
Exported(amount, unit) == IF unit = "points" THEN 100 * ((amount + 99) \div 100) ELSE amount
=============================================================================
