------------------------ MODULE MCQualifyingStrategy ------------------------
(* An instance of QualifyingStrategy for TLC.                              *)
EXTENDS QualifyingStrategy, TLC

Row(id, date, amount, points) ==
  [transactionId |-> id, rebateCriteriaId |-> "o1", userId |-> "bo", accountId |-> "a1",
   productCode |-> "gold", cardType |-> "credit", card |-> "c1", date |-> date, amount |-> amount,
   basePoints |-> points, tsysCustomerId |-> "s1"]

(* The gold card: shown to its primary owner, to be used by both.          *)
Gold == <<[code |-> "gold", redeemable |-> {"Primary", "AuthorizedUser"}, presentable |-> {"Primary"}]>>

Offer(active, until, targeted, limit, benefit, amount) ==
  [id |-> "o1", isRedeemable |-> TRUE, wasActive |-> active, validFromDate |-> 1,
   validToDate |-> until, redemptionBasedOn |-> "ProductOwnership", eligibleProducts |-> Gold,
   requiresCustomerToBeTargeted |-> targeted, requiresCustomerToBeLinked |-> TRUE,
   redemptionLimit |-> limit, redemptionLimitType |-> "overall",
   benefit |-> benefit, rebateAmount |-> amount]

(* 5 % once, on the first day; 1.5 points per base point, twice, to those  *)
(* who are targeted; the withdrawal is not stored.                         *)
MCOfferEvents ==
  {Offer(TRUE, 1, FALSE, 1, "PercentageOffForDollars", 500),
   Offer(TRUE, 2, TRUE, 2, "MultiplierForPoints", 15000),
   Offer(FALSE, 2, FALSE, 1, "PercentageOffForDollars", 500)}

CardOf(code, account, ownership, primary, eligible) ==
  [code |-> code, accountId |-> account, ownershipType |-> ownership,
   primaryAccountHashSRF |-> primary, isEligible |-> eligible]

User(id, targeted, linked, credit) ==
  [id |-> id, isAnonymous |-> FALSE, isBlacklisted |-> FALSE, optInFileOffers |-> {},
   targeted |-> targeted, linked |-> linked, products |-> [credit |-> credit, debit |-> <<>>]]

(* Entered by hand: one that is not redeemable, one without the card, on   *)
(* which the linking check throws, and one whose amount is below zero.     *)
MCEnteredOffers ==
  LET entered == Offer(TRUE, 2, FALSE, 1, "PercentageOffForDollars", 500)
  IN  {[entered EXCEPT !.isRedeemable = FALSE], [entered EXCEPT !.eligibleProducts = <<>>],
       [entered EXCEPT !.rebateAmount = -500]}

(* Bo has a blocked card, and is an authorized user of a card of Ava's.    *)
CardsOfBo ==
  <<CardOf("gold", "a2", "Primary", "bo", "0"), CardOf("gold", "a1", "AuthorizedUser", "ava", "1")>>

(* Bo is targeted from the start; Ava links the offer, and by hand it is   *)
(* said of her that she did not.                                           *)
MCUserEvents == {User("bo", {"o1"}, {}, CardsOfBo), User("ava", {}, {"o1"}, <<>>)}
MCEnteredUsers == {User("ava", {}, {}, <<>>)}

(* The second is too small for a cent, and has no points.                  *)
MCRows == {Row("t1", 1, 1050, 15), Row("t2", 2, 1, 0)}
=============================================================================
