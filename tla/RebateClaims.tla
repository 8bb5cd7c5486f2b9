---------------------------- MODULE RebateClaims ----------------------------
(***************************************************************************)
(* What fulfillment promises: a rebate is fulfilled by one transaction, a  *)
(* transaction fulfills one rebate at a time, and nothing is taken back,   *)
(* but that a rival, a transaction of another user of the same account,    *)
(* may take the place of the first.                                        *)
(***************************************************************************)
CONSTANTS Rebates, Transactions, NoTransaction, Rivals

VARIABLE fulfilledBy

Claim(r, t) ==
  /\ fulfilledBy[r] = NoTransaction \/ <<fulfilledBy[r], t>> \in Rivals
  /\ \A s \in Rebates : fulfilledBy[s] # t
  /\ fulfilledBy' = [fulfilledBy EXCEPT ![r] = t]

Init == fulfilledBy = [r \in Rebates |-> NoTransaction]

Next == \E r \in Rebates, t \in Transactions : Claim(r, t)

Spec == Init /\ [][Next]_fulfilledBy
=============================================================================
