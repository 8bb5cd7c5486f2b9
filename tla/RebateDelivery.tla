--------------------------- MODULE RebateDelivery ---------------------------
(***************************************************************************)
(* What the export of rebates to Marketing Cloud promises: a rebate that   *)
(* has been issued is sent, possibly several times when an export fails    *)
(* half way, until it is recorded as sent; a rebate recorded as sent has   *)
(* been, and is never sent again.                                          *)
(***************************************************************************)
CONSTANT Rebates

VARIABLE stage     \* of each rebate

Issue(r) ==
  /\ stage[r] = "none"
  /\ stage' = [stage EXCEPT ![r] = "issued"]

Send(S) ==
  /\ \A r \in S : stage[r] \in {"issued", "sent"}
  /\ stage' = [r \in Rebates |-> IF r \in S THEN "sent" ELSE stage[r]]

Settle(S) ==
  /\ \A r \in S : stage[r] = "sent"
  /\ stage' = [r \in Rebates |-> IF r \in S THEN "settled" ELSE stage[r]]

Init == stage = [r \in Rebates |-> "none"]

Next ==
  \/ \E r \in Rebates : Issue(r)
  \/ \E S \in SUBSET Rebates : Send(S) \/ Settle(S)

Spec == Init /\ [][Next]_stage
=============================================================================
