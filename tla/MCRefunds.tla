------------------------------ MODULE MCRefunds ------------------------------
(* An instance of Refunds for TLC.                                         *)
EXTENDS Refunds, TLC

CONSTANTS p1, p2

Row(id, user, offer, type, date) ==
  [id |-> id, userId |-> user, rebateCriteriaId |-> offer, type |-> type, transactionDate |-> date]

MCProcessors == {p1, p2}

MCCriteria ==
  "o1" :> [validFromDate |-> 1, validToDate |-> 2, refundPeriodInDays |-> 1,
           hasBeenActivated |-> TRUE, isRedeemable |-> TRUE]

(* Ava's third refund comes after the refund period, and she may have two  *)
(* rebates; Bo has none, and o9 is unknown.                                *)
MCRows ==
  {Row(1, "ava", "o1", "qualifying", 2), Row(2, "ava", "o1", "refund", 3),
   Row(3, "ava", "o1", "refund", 2), Row(4, "ava", "o1", "refund", 4),
   Row(7, "ava", "o1", "qualifying", 1),
   Row(5, "bo", "o1", "refund", 1), Row(6, "bo", "o9", "refund", 1)}
=============================================================================
