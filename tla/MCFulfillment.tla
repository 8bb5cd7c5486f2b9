---------------------------- MODULE MCFulfillment ---------------------------
(* An instance of Fulfillment for TLC.                                     *)
EXTENDS Fulfillment

CONSTANTS r1, r2, p1, p2

Msg(id, tid, user, account, amount, rebate, byHand) ==
  [id |-> id, transactionId |-> tid, userId |-> user, accountId |-> account,
   amount |-> amount, rebateId |-> rebate, byHand |-> byHand]

MCRebates == {r1, r2}
MCProcessors == {p1, p2}
MCAccountOf == [r \in {r1, r2} |-> "a1"]
MCAmountOf == [r \in {r1, r2} |-> 10]
MCKnownUsers == {"ava", "bo"}

(* Ava's t1 names both rebates; Bo, who shares the account, pays r1 too,   *)
(* and his t3 has no rebate id.                                            *)
Contenders ==
  {Msg(1, "t1", "ava", "a1", 10, r1, FALSE), Msg(2, "t1", "ava", "a1", 10, r2, FALSE),
   Msg(3, "t2", "bo", "a1", 10, r1, FALSE), Msg(4, "t3", "bo", "a1", 10, NoRebateId, FALSE)}
=============================================================================
