----------------------- MODULE MCTransactionProcessing -----------------------
(* Instances of TransactionProcessing for TLC.                             *)
EXTENDS TransactionProcessing, TLC

MCUsers == {"ava", "bo"}
MCWorkers == 1 .. 2

Msg(id, user, offer, card, date) ==
  [transactionId |-> id, userId |-> user, rebateCriteriaId |-> offer, card |-> card,
   transactionDate |-> date]

(* Ava's t1 is sent for two offers, t2 on another card; Bo has one.        *)
MCMessages ==
  {Msg("t1", "ava", "o1", "c1", 1), Msg("t1", "ava", "o2", "c1", 1),
   Msg("t2", "ava", "o1", "c2", 2), Msg("t3", "bo", "o1", "c1", 1)}

(* Ava and Bo with different workers, and the other way round, as when the *)
(* number of workers changes.                                              *)
MCHashes == {[u \in MCUsers |-> IF u = "ava" THEN 1 ELSE 2],
             [u \in MCUsers |-> IF u = "ava" THEN 2 ELSE 1]}

MCRedemptionLimit == "o1" :> 1 @@ "o2" :> 0
MCPerCard == "o1" :> "per card" @@ "o2" :> "overall"
MCOverall == "o1" :> "overall" @@ "o2" :> "overall"

NoFaults == {}
RunFaults == {"throw", "crash", "arrival"}
Arrivals == {"arrival"}
=============================================================================
