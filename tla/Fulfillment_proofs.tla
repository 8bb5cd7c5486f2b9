------------------------- MODULE Fulfillment_proofs -------------------------
(***************************************************************************)
(* For any fulfillments, rebates and processors, and any number of faults: *)
(* the types; that fulfillment keeps the promise of RebateClaims, where    *)
(* rivals may replace each other; and that a row marked successful and the *)
(* journal agree with the rebates, but for the rows cut off by a fault.    *)
(***************************************************************************)
EXTENDS Fulfillment, TLAPS

USE DEF history

LEMMA ThrowReleases ==
  ASSUME TypeOK, HoldsWhileAtWork, NEW p \in Processors, pc[p] # "idle", Throw(p)
  PROVE  Release(p) /\ faults' \in 0 .. MaxFaults /\ cutOff' \subseteq Messages
<1>1. current[p] \in Messages
  BY DEF HoldsWhileAtWork, TypeOK
<1> QED
  BY <1>1, ConstantsAssumption DEF Throw, Fault, TypeOK

LEMMA ReleaseTypes ==
  ASSUME TypeOK, NEW p \in Processors, Release(p)
  PROVE  /\ pc' = [pc EXCEPT ![p] = "idle"]
         /\ current' \in [Processors -> Messages \cup {NoMessage}]
         /\ result' \in [Processors -> Results \cup {"none"}]
         /\ existingReport' \in [Processors -> 0 .. 2]
BY DEF Release, TypeOK

LEMMA MatchIsAResult == ASSUME NEW m, NEW r PROVE Match(m, r) \in Results
BY DEF Match, Results, Mismatches

LEMMA TypeStep == TypeOK /\ HoldsWhileAtWork /\ [Next]_vars => TypeOK'
<1> SUFFICES ASSUME TypeOK, HoldsWhileAtWork, [Next]_vars PROVE TypeOK'
  OBVIOUS
<1>1. ASSUME NEW m \in Messages, Arrive(m) PROVE TypeOK'
  BY <1>1 DEF Arrive, TypeOK, processorVars
<1>2. ASSUME NEW r \in Rebates, WriteJournal(r) PROVE TypeOK'
  BY <1>2, ConstantsAssumption DEF WriteJournal, Fault, TypeOK, JournalStatuses, processorVars
<1>3. ASSUME NEW r \in Rebates, MarkExported(r) PROVE TypeOK'
  BY <1>3 DEF MarkExported, TypeOK, processorVars
<1>4. ASSUME NEW p \in Processors, NEW m \in Messages, Take(p, m) PROVE TypeOK'
  BY <1>4 DEF Take, TypeOK, tables, Results, Mismatches
<1>5. ASSUME NEW p \in Processors, CheckUsed(p) PROVE TypeOK'
  BY <1>5, ThrowReleases, ReleaseTypes DEF CheckUsed, Decide, TypeOK, tables, Results, Mismatches
<1>6. ASSUME NEW p \in Processors, FindRebate(p) PROVE TypeOK'
  BY <1>6, ThrowReleases, ReleaseTypes, MatchIsAResult
     DEF FindRebate, Decide, TypeOK, tables, Results, Mismatches
<1>7. ASSUME NEW p \in Processors, MarkAsProcessed(p) PROVE TypeOK'
  BY <1>7, ThrowReleases, ReleaseTypes DEF MarkAsProcessed, TypeOK
<1>8. ASSUME NEW p \in Processors, UpdateRebate(p) PROVE TypeOK'
  <2>1. current[p].transactionId \in Transactions
    BY <1>8 DEF UpdateRebate, HoldsWhileAtWork, TypeOK, Transactions
  <2> QED
    BY <1>8, <2>1, ThrowReleases, ReleaseTypes DEF UpdateRebate, TypeOK
<1>9. ASSUME NEW p \in Processors, FindReport(p) PROVE TypeOK'
  BY <1>9, ThrowReleases, ReleaseTypes DEF FindReport, ReportsOf, TypeOK, tables
<1>10. ASSUME NEW p \in Processors, UpdateReport(p) PROVE TypeOK'
  BY <1>10, ThrowReleases, ReleaseTypes DEF UpdateReport, TypeOK, JournalStatuses
<1>11. ASSUME NEW p \in Processors, Crash(p) PROVE TypeOK'
  BY <1>11, ThrowReleases, ReleaseTypes DEF Crash, TypeOK, tables
<1>12. CASE UNCHANGED vars
  BY <1>12 DEF vars, tables, processorVars, TypeOK
<1> QED
  BY <1>1, <1>2, <1>3, <1>4, <1>5, <1>6, <1>7, <1>8, <1>9, <1>10, <1>11, <1>12 DEF Next, Step

LEMMA InitInv == Init => IInv
BY ConstantsAssumption
   DEF Init, IInv, TypeOK, JournalStatuses, OneUserAtATime, HoldsWhileAtWork, Matched, ChecksStillHold,
       UnfulfilledHaveNoTransaction, FulfilledHasItsRow

(* A processor that moves holds the row it held, or drops it, and leaves   *)
(* alone what the others hold.                                             *)
LEMMA OneUserStep == TypeOK /\ OneUserAtATime /\ [Next]_vars => OneUserAtATime'
<1> SUFFICES ASSUME TypeOK, OneUserAtATime, [Next]_vars PROVE OneUserAtATime'
  OBVIOUS
<1>1. ASSUME NEW p \in Processors, NEW m \in Messages, Take(p, m) PROVE OneUserAtATime'
  BY <1>1 DEF Take, OneUserAtATime, TypeOK
<1>2. ASSUME NEW p \in Processors, Release(p) PROVE OneUserAtATime'
  BY <1>2 DEF Release, OneUserAtATime, TypeOK
<1>3. ASSUME UNCHANGED current PROVE OneUserAtATime'
  BY <1>3 DEF OneUserAtATime
<1>4. ASSUME NEW p \in Processors, Step(p) PROVE Release(p) \/ UNCHANGED current
  BY <1>4 DEF Step, CheckUsed, FindRebate, MarkAsProcessed, UpdateRebate, FindReport,
              UpdateReport, Decide, Throw
<1> QED
  BY <1>1, <1>2, <1>3, <1>4 DEF Next, Arrive, WriteJournal, MarkExported, Crash, Throw,
                                vars, processorVars

LEMMA WorkStep ==
  TypeOK /\ OneUserAtATime /\ HoldsWhileAtWork /\ [Next]_vars => HoldsWhileAtWork'
<1> SUFFICES ASSUME TypeOK, OneUserAtATime, HoldsWhileAtWork, [Next]_vars
             PROVE  HoldsWhileAtWork'
  OBVIOUS
<1>1. ASSUME NEW m \in Messages, Arrive(m) PROVE HoldsWhileAtWork'
  BY <1>1 DEF Arrive, TypeOK, HoldsWhileAtWork, processorVars
<1>2. ASSUME NEW p \in Processors, NEW m \in Messages, Take(p, m) PROVE HoldsWhileAtWork'
  BY <1>2, ConstantsAssumption
     DEF Take, TypeOK, HoldsWhileAtWork, tables, Results, Mismatches
<1>3. ASSUME NEW p \in Processors, Release(p), UNCHANGED rowStatus PROVE HoldsWhileAtWork'
  BY <1>3 DEF Release, TypeOK, HoldsWhileAtWork
<1>4. ASSUME NEW p \in Processors, CheckUsed(p) PROVE HoldsWhileAtWork'
  BY <1>3, <1>4 DEF CheckUsed, Throw, Decide, TypeOK, HoldsWhileAtWork, tables, Results, Mismatches
<1>5. ASSUME NEW p \in Processors, FindRebate(p) PROVE HoldsWhileAtWork'
  BY <1>3, <1>5, MatchIsAResult
     DEF FindRebate, Throw, Decide, TypeOK, HoldsWhileAtWork, tables, Results, Mismatches
<1>6. ASSUME NEW p \in Processors, MarkAsProcessed(p) PROVE HoldsWhileAtWork'
  <2>1. ASSUME NEW q \in Processors, q # p, current[q] # NoMessage
        PROVE  current[q] # current[p]
    BY <1>6, <2>1 DEF MarkAsProcessed, OneUserAtATime, HoldsWhileAtWork
  <2>2. CASE Throw(p) /\ UNCHANGED rowStatus
    BY <1>3, <2>2 DEF Throw
  <2>3. CASE /\ rowStatus' = [rowStatus EXCEPT ![current[p]] = result[p]]
             /\ result[p] = "FulfilledTransSuccessful"
             /\ pc' = [pc EXCEPT ![p] = "update"]
             /\ UNCHANGED <<current, result, existingReport>>
    BY <1>6, <2>1, <2>3 DEF MarkAsProcessed, TypeOK, HoldsWhileAtWork
  <2>4. CASE /\ rowStatus' = [rowStatus EXCEPT ![current[p]] = result[p]]
             /\ Release(p)
    BY <1>6, <2>1, <2>4 DEF MarkAsProcessed, Release, TypeOK, HoldsWhileAtWork
  <2> QED
    BY <1>6, <2>2, <2>3, <2>4 DEF MarkAsProcessed
<1>7. ASSUME NEW p \in Processors, UpdateRebate(p) PROVE HoldsWhileAtWork'
  BY <1>3, <1>7 DEF UpdateRebate, Throw, TypeOK, HoldsWhileAtWork
<1>8. ASSUME NEW p \in Processors, FindReport(p) PROVE HoldsWhileAtWork'
  BY <1>3, <1>8 DEF FindReport, Throw, TypeOK, HoldsWhileAtWork, tables
<1>9. ASSUME NEW p \in Processors, UpdateReport(p) PROVE HoldsWhileAtWork'
  BY <1>3, <1>9 DEF UpdateReport, Throw, TypeOK, HoldsWhileAtWork
<1>10. ASSUME UNCHANGED <<rowStatus, processorVars>> PROVE HoldsWhileAtWork'
  BY <1>10 DEF HoldsWhileAtWork, processorVars
<1> QED
  BY <1>1, <1>2, <1>3, <1>4, <1>5, <1>6, <1>7, <1>8, <1>9, <1>10
     DEF Next, Step, WriteJournal, MarkExported, Crash, Throw, vars, tables

(* Every variable keeps its type; what a processor holds, which the types  *)
(* rest on, needs that no two work for one user.                           *)
THEOREM TypeCorrect == Spec => []TypeOK
<1> DEFINE Inv == TypeOK /\ OneUserAtATime /\ HoldsWhileAtWork
<1>1. Init => Inv
  BY InitInv DEF IInv
<1>2. Inv /\ [Next]_vars => Inv'
  BY TypeStep, OneUserStep, WorkStep
<1> QED
  BY <1>1, <1>2, PTL DEF Spec

LEMMA UnfulfilledStep ==
  TypeOK /\ HoldsWhileAtWork /\ UnfulfilledHaveNoTransaction /\ [Next]_vars
    => UnfulfilledHaveNoTransaction'
<1> SUFFICES ASSUME TypeOK, HoldsWhileAtWork, UnfulfilledHaveNoTransaction, [Next]_vars
             PROVE  UnfulfilledHaveNoTransaction'
  OBVIOUS
<1>1. ASSUME NEW r \in Rebates, MarkExported(r) PROVE UnfulfilledHaveNoTransaction'
  BY <1>1 DEF MarkExported, TypeOK, UnfulfilledHaveNoTransaction
<1>2. ASSUME NEW p \in Processors, UpdateRebate(p) PROVE UnfulfilledHaveNoTransaction'
  BY <1>2 DEF UpdateRebate, TypeOK, UnfulfilledHaveNoTransaction
<1>3. ASSUME UNCHANGED <<rebateStatus, fulfilledBy>> PROVE UnfulfilledHaveNoTransaction'
  BY <1>3 DEF UnfulfilledHaveNoTransaction
<1> QED
  BY <1>1, <1>2, <1>3
     DEF Next, Arrive, WriteJournal, Take, Step, CheckUsed, FindRebate, MarkAsProcessed,
         FindReport, UpdateReport, Crash, vars, tables

(* The row of a fulfilled rebate was processed, so that nobody marks it.   *)
LEMMA FulfilledStep ==
  TypeOK /\ HoldsWhileAtWork /\ ChecksStillHold /\ FulfilledHasItsRow /\ [Next]_vars
    => FulfilledHasItsRow'
<1> SUFFICES ASSUME TypeOK, HoldsWhileAtWork, ChecksStillHold, FulfilledHasItsRow,
                    [Next]_vars
             PROVE  FulfilledHasItsRow'
  OBVIOUS
<1>1. ASSUME UNCHANGED fulfilledBy,
             \A r \in Rebates : rebateStatus'[r] = "FulfilledTransSuccessful" =>
                                  rebateStatus[r] = "FulfilledTransSuccessful",
             \A m \in Messages : rowStatus[m] = "FulfilledTransSuccessful" =>
                                   rowStatus'[m] = "FulfilledTransSuccessful"
      PROVE  FulfilledHasItsRow'
  <2> SUFFICES ASSUME NEW r \in Rebates, rebateStatus'[r] = "FulfilledTransSuccessful"
               PROVE  \E m \in Messages :
                        /\ fulfilledBy'[r] = m.transactionId
                        /\ RebateId(m) = r
                        /\ m.accountId = AccountOf[r] /\ m.amount = AmountOf[r]
                        /\ rowStatus'[m] = "FulfilledTransSuccessful"
    BY DEF FulfilledHasItsRow, RebateId
  <2> QED
    BY <1>1 DEF FulfilledHasItsRow
<1>2. ASSUME NEW m \in Messages, Arrive(m) PROVE FulfilledHasItsRow'
  BY <1>1, <1>2 DEF Arrive, TypeOK
<1>3. ASSUME NEW r \in Rebates, MarkExported(r) PROVE FulfilledHasItsRow'
  BY <1>1, <1>3 DEF MarkExported, TypeOK
<1>4. ASSUME NEW p \in Processors, MarkAsProcessed(p) PROVE FulfilledHasItsRow'
  <2>1. current[p] \in Messages /\ rowStatus[current[p]] = "Pending"
    BY <1>4 DEF MarkAsProcessed, HoldsWhileAtWork, TypeOK
  <2> QED
    BY <1>1, <1>4, <2>1 DEF MarkAsProcessed, TypeOK
<1>5. ASSUME NEW p \in Processors, UpdateRebate(p) PROVE FulfilledHasItsRow'
  <2> DEFINE m == current[p]
             r == RebateId(current[p])
  <2>1. /\ m \in Messages /\ r \in Rebates
        /\ m.accountId = AccountOf[r] /\ m.amount = AmountOf[r]
        /\ rowStatus[m] = "FulfilledTransSuccessful"
    BY <1>5 DEF UpdateRebate, HoldsWhileAtWork, ChecksStillHold, Matched, TypeOK
  <2>2. CASE UNCHANGED <<rebateStatus, fulfilledBy>>
    BY <1>1, <1>5, <2>2 DEF UpdateRebate
  <2>3. CASE /\ rebateStatus' = [rebateStatus EXCEPT ![r] = "FulfilledTransSuccessful"]
             /\ fulfilledBy' = [fulfilledBy EXCEPT ![r] = m.transactionId]
    <3>1. UNCHANGED rowStatus
      BY <1>5 DEF UpdateRebate
    <3> SUFFICES ASSUME NEW s \in Rebates, rebateStatus'[s] = "FulfilledTransSuccessful"
                 PROVE  \E n \in Messages :
                          /\ fulfilledBy'[s] = n.transactionId
                          /\ RebateId(n) = s
                          /\ n.accountId = AccountOf[s] /\ n.amount = AmountOf[s]
                          /\ rowStatus'[n] = "FulfilledTransSuccessful"
      BY DEF FulfilledHasItsRow, RebateId
    <3>2. CASE s = r
      BY <2>1, <2>3, <3>1, <3>2 DEF TypeOK
    <3>3. CASE s # r
      BY <2>3, <3>1, <3>3 DEF TypeOK, FulfilledHasItsRow
    <3> QED
      BY <3>2, <3>3
  <2> QED
    BY <1>5, <2>2, <2>3 DEF UpdateRebate
<1>6. ASSUME UNCHANGED <<rowStatus, rebateStatus, fulfilledBy>> PROVE FulfilledHasItsRow'
  BY <1>1, <1>6
<1> QED
  BY <1>2, <1>3, <1>4, <1>5, <1>6
     DEF Next, WriteJournal, Take, Step, CheckUsed, FindRebate, FindReport, UpdateReport,
         Crash, vars, tables

----------------------------------------------------------------------------
(* Two processors work for two users, hence for two transactions; where    *)
(* both are to fulfill one rebate, the two are rivals.                     *)
LEMMA OthersAreOfOthers ==
  ASSUME TypeOK, OneUserAtATime, HoldsWhileAtWork, ChecksStillHold,
         NEW p \in Processors, NEW q \in Processors, p # q,
         pc[p] # "idle", pc[q] # "idle"
  PROVE  /\ current[p] \in Messages /\ current[q] \in Messages
         /\ current[p] # current[q]
         /\ current[p].userId # current[q].userId
         /\ current[p].transactionId # current[q].transactionId
         /\ Matched(p) /\ Matched(q) /\ RebateId(current[p]) = RebateId(current[q]) =>
              <<current[p].transactionId, current[q].transactionId>> \in Rivals
<1>1. current[p] \in Messages /\ current[q] \in Messages
  BY DEF HoldsWhileAtWork, TypeOK
<1>2. current[p].userId # current[q].userId
  BY DEF HoldsWhileAtWork, OneUserAtATime
<1>3. current[p].transactionId # current[q].transactionId
  BY <1>1, <1>2, ConstantsAssumption
<1>4. ASSUME Matched(p), Matched(q), RebateId(current[p]) = RebateId(current[q])
      PROVE  <<current[p].transactionId, current[q].transactionId>> \in Rivals
  <2>1. current[p].accountId = current[q].accountId
    BY <1>4 DEF ChecksStillHold
  <2> QED
    BY <1>1, <1>2, <2>1 DEF Rivals, Transactions
<1> QED
  BY <1>1, <1>2, <1>3, <1>4

LEMMA ChecksStep ==
  IInv /\ [Next]_vars => ChecksStillHold'
<1> SUFFICES ASSUME IInv, [Next]_vars PROVE ChecksStillHold'
  OBVIOUS
<1> USE DEF IInv
<1>1. ASSUME NEW m \in Messages, Arrive(m) PROVE ChecksStillHold'
  BY <1>1 DEF Arrive, TypeOK, HoldsWhileAtWork, ChecksStillHold, Matched, NotUsed, Available, RebateId,
              processorVars
<1>2. ASSUME NEW r \in Rebates, MarkExported(r) PROVE ChecksStillHold'
  BY <1>2 DEF MarkExported, TypeOK, ChecksStillHold, Matched, NotUsed, Available, RebateId, processorVars
<1>3. ASSUME NEW p \in Processors, NEW m \in Messages, Take(p, m) PROVE ChecksStillHold'
  BY <1>3 DEF Take, TypeOK, ChecksStillHold, Matched, NotUsed, Available, RebateId, tables
<1>4. ASSUME NEW p \in Processors, Release(p), UNCHANGED <<rowStatus, rebateStatus, fulfilledBy>>
      PROVE  ChecksStillHold'
  BY <1>4 DEF Release, TypeOK, ChecksStillHold, Matched, NotUsed, Available, RebateId
<1>5. ASSUME NEW p \in Processors, CheckUsed(p) PROVE ChecksStillHold'
  BY <1>4, <1>5 DEF CheckUsed, Throw, Decide, TypeOK, ChecksStillHold, Matched, NotUsed, Available,
                    RebateId, tables
<1>6. ASSUME NEW p \in Processors, FindRebate(p) PROVE ChecksStillHold'
  <2> DEFINE r == RebateId(current[p])
  <2>1. NotUsed(current[p])
    BY <1>6 DEF FindRebate, ChecksStillHold
  <2>2. Match(current[p], r) = "FulfilledTransSuccessful" =>
          /\ current[p].accountId = AccountOf[r]
          /\ current[p].amount = AmountOf[r]
          /\ rebateStatus[r] = "PendingFulfillment"
    BY DEF Match, AccountMismatch, AmountMismatch, StatusMismatch
  <2>3. CASE r \notin Rebates /\ Decide(p, "RebateNotFound")
    BY <1>6, <2>3 DEF FindRebate, Decide, TypeOK, ChecksStillHold, Matched, NotUsed, Available, RebateId, tables
  <2>4. CASE r \in Rebates /\ Decide(p, Match(current[p], r))
    BY <1>6, <2>1, <2>2, <2>4
       DEF FindRebate, Decide, TypeOK, ChecksStillHold, Matched, NotUsed, Available, RebateId, tables
  <2>5. CASE Release(p)
    BY <1>4, <1>6, <2>5 DEF FindRebate, tables
  <2> QED
    BY <1>6, <2>3, <2>4, <2>5 DEF FindRebate, RebateNotFound, Throw
<1>7. ASSUME NEW p \in Processors, MarkAsProcessed(p) PROVE ChecksStillHold'
  <2>1. current[p] \in Messages /\ rowStatus[current[p]] = "Pending"
    BY <1>7 DEF MarkAsProcessed, HoldsWhileAtWork, TypeOK
  <2>2. CASE Throw(p) /\ UNCHANGED rowStatus
    BY <1>4, <1>7, <2>2 DEF MarkAsProcessed, Throw
  <2>3. CASE /\ rowStatus' = [rowStatus EXCEPT ![current[p]] = result[p]]
             /\ result[p] = "FulfilledTransSuccessful"
             /\ pc' = [pc EXCEPT ![p] = "update"]
             /\ UNCHANGED <<current, result, existingReport>>
    BY <1>7, <2>1, <2>3 DEF MarkAsProcessed, TypeOK, HoldsWhileAtWork, ChecksStillHold, Matched,
                            NotUsed, Available, RebateId
  <2>4. CASE /\ rowStatus' = [rowStatus EXCEPT ![current[p]] = result[p]]
             /\ Release(p)
    BY <1>7, <2>1, <2>4 DEF MarkAsProcessed, Release, TypeOK, HoldsWhileAtWork, ChecksStillHold,
                            Matched, NotUsed, Available, RebateId
  <2> QED
    BY <1>7, <2>2, <2>3, <2>4 DEF MarkAsProcessed
<1>8. ASSUME NEW p \in Processors, UpdateRebate(p) PROVE ChecksStillHold'
  <2> DEFINE r == RebateId(current[p])
  <2>1. CASE Throw(p) /\ UNCHANGED <<rebateStatus, fulfilledBy>>
    BY <1>4, <1>8, <2>1 DEF UpdateRebate, Throw
  <2>2. CASE /\ rebateStatus' = [rebateStatus EXCEPT ![r] = "FulfilledTransSuccessful"]
             /\ fulfilledBy' = [fulfilledBy EXCEPT ![r] = current[p].transactionId]
             /\ pc' = [pc EXCEPT ![p] = "findReport"]
             /\ UNCHANGED <<history, current, result, existingReport>>
    <3>1. pc[p] = "update" /\ Matched(p) /\ UNCHANGED rowStatus
      BY <1>8 DEF UpdateRebate, Matched
    <3>2. r \in Rebates
      BY <3>1 DEF ChecksStillHold
    <3>3. ASSUME NEW q \in Processors, q # p, pc[q] # "idle"
          PROVE  /\ NotUsed(current[q]) => NotUsed(current[q])'
                 /\ Matched(q) /\ Available(current[q], RebateId(current[q])) =>
                      Available(current[q], RebateId(current[q]))'
      <4>1. /\ current[p].transactionId # current[q].transactionId
            /\ Matched(q) /\ RebateId(current[q]) = r =>
                 <<current[p].transactionId, current[q].transactionId>> \in Rivals
        BY <3>1, <3>3, OthersAreOfOthers
      <4>2. /\ rebateStatus'[r] = "FulfilledTransSuccessful"
            /\ fulfilledBy'[r] = current[p].transactionId
            /\ \A s \in Rebates : s # r => /\ rebateStatus'[s] = rebateStatus[s]
                                          /\ fulfilledBy'[s] = fulfilledBy[s]
            /\ current'[q] = current[q]
        BY <2>2, <3>2 DEF TypeOK
      <4>3. NotUsed(current[q]) => NotUsed(current[q])'
        BY <4>1, <4>2 DEF NotUsed
      <4>4. ASSUME Matched(q), Available(current[q], RebateId(current[q]))
            PROVE  Available(current[q], RebateId(current[q]))'
        <5>1. RebateId(current[q]) \in Rebates
          BY <4>4 DEF ChecksStillHold
        <5>2. CASE RebateId(current[q]) = r
          BY <4>1, <4>2, <4>4, <5>2 DEF Available, RebateId
        <5>3. CASE RebateId(current[q]) # r
          BY <4>2, <4>4, <5>1, <5>3 DEF Available, RebateId
        <5> QED
          BY <5>2, <5>3
      <4> QED
        BY <4>3, <4>4
    <3>4. ASSUME NEW q \in Processors, q # p PROVE pc'[q] = pc[q]
      BY <2>2, <3>4 DEF TypeOK
    <3>5. pc'[p] = "findReport"
      BY <2>2 DEF TypeOK
    <3> QED
      BY <2>2, <3>1, <3>2, <3>3, <3>4, <3>5 DEF ChecksStillHold, Matched, RebateId
  <2> QED
    BY <1>8, <2>1, <2>2 DEF UpdateRebate
<1>9. ASSUME NEW p \in Processors, FindReport(p) PROVE ChecksStillHold'
  BY <1>4, <1>9 DEF FindReport, Throw, TypeOK, ChecksStillHold, Matched, NotUsed, Available, RebateId, tables
<1>10. ASSUME NEW p \in Processors, UpdateReport(p) PROVE ChecksStillHold'
  BY <1>4, <1>10 DEF UpdateReport, Throw
<1>11. ASSUME UNCHANGED <<rowStatus, rebateStatus, fulfilledBy, processorVars>>
       PROVE  ChecksStillHold'
  BY <1>11 DEF ChecksStillHold, Matched, NotUsed, Available, RebateId, processorVars
<1> QED
  BY <1>1, <1>2, <1>3, <1>4, <1>5, <1>6, <1>7, <1>8, <1>9, <1>10, <1>11
     DEF Next, Step, WriteJournal, Crash, Throw, vars, tables

(* What the runs check as IInv.                                            *)
THEOREM Inductive == Spec => []IInv
<1>1. IInv /\ [Next]_vars => IInv'
  BY TypeStep, OneUserStep, WorkStep, ChecksStep, UnfulfilledStep, FulfilledStep DEF IInv
<1> QED
  BY InitInv, <1>1, PTL DEF Spec

(* A fulfilled rebate has the row of its account and amount.               *)
THEOREM FulfilledHasItsRowAlways == Spec => []FulfilledHasItsRow
<1>1. IInv => FulfilledHasItsRow
  BY DEF IInv
<1> QED
  BY <1>1, Inductive, PTL

(* Marking the rebate is the claim, and nothing else touches it: the       *)
(* rebate is free or a rival's, and no transaction has two.                *)
LEMMA StepImplements == IInv /\ [Next]_vars => [Claims!Next]_fulfilledBy
<1> SUFFICES ASSUME IInv, [Next]_vars PROVE [Claims!Next]_fulfilledBy
  OBVIOUS
<1>1. ASSUME NEW p \in Processors, UpdateRebate(p) PROVE [Claims!Next]_fulfilledBy
  <2> DEFINE r == RebateId(current[p])
             t == current[p].transactionId
  <2>1. CASE UNCHANGED fulfilledBy
    BY <2>1
  <2>2. CASE fulfilledBy' = [fulfilledBy EXCEPT ![r] = t]
    <3>1. pc[p] = "update" /\ Matched(p)
      BY <1>1 DEF UpdateRebate, Matched
    <3>2. r \in Rebates /\ NotUsed(current[p]) /\ Available(current[p], r)
      BY <3>1 DEF IInv, ChecksStillHold
    <3>3. fulfilledBy[r] = NoTransaction \/ <<fulfilledBy[r], t>> \in Rivals
      BY <3>2 DEF IInv, UnfulfilledHaveNoTransaction, Available
    <3>4. t \in Transactions
      BY <3>1 DEF IInv, HoldsWhileAtWork, TypeOK, Transactions
    <3> QED
      BY <2>2, <3>2, <3>3, <3>4 DEF Claims!Next, Claims!Claim, NotUsed
  <2> QED
    BY <1>1, <2>1, <2>2 DEF UpdateRebate
<1>2. CASE UNCHANGED fulfilledBy
  BY <1>2
<1> QED
  BY <1>1, <1>2 DEF Next, Arrive, WriteJournal, MarkExported, Take, Step, CheckUsed,
                    FindRebate, MarkAsProcessed, FindReport, UpdateReport, Crash, vars, tables

(* Whoever shares an account and whatever fails, a rebate changes its      *)
(* transaction for a rival's only, and no transaction has two rebates.     *)
THEOREM Implements == Spec => ClaimsSpec
<1>1. Init => Claims!Init
  BY DEF Init, Claims!Init
<1>2. IInv /\ [Next]_vars => [Claims!Next]_fulfilledBy
  BY StepImplements
<1>3. Spec => []IInv
  BY Inductive
<1> QED
  BY <1>1, <1>2, <1>3, PTL DEF Spec, ClaimsSpec, Claims!Spec

----------------------------------------------------------------------------
(* A row marked successful has its rebate, or a rival has.                 *)
LEMMA RowsStep ==
  ASSUME IInv, RowsTell, LateAreRivals, [Next]_vars
  PROVE  RowsTell'
<1> USE DEF IInv
<1>1. ASSUME UNCHANGED fulfilledBy,
             \A m \in Messages : rowStatus'[m] = "FulfilledTransSuccessful" =>
                                   /\ rowStatus[m] = "FulfilledTransSuccessful"
                                   /\ m \in cutOff => m \in cutOff',
             \A q \in Processors : pc[q] = "update" =>
               \/ pc'[q] = "update" /\ current'[q] = current[q]
               \/ current[q] \in cutOff'
      PROVE  RowsTell'
  BY <1>1 DEF RowsTell, RebateId
<1>2. ASSUME NEW m \in Messages, Arrive(m) PROVE RowsTell'
  BY <1>1, <1>2 DEF Arrive, TypeOK, processorVars
<1>3. ASSUME NEW p \in Processors, NEW m \in Messages, Take(p, m) PROVE RowsTell'
  BY <1>1, <1>3 DEF Take, TypeOK, tables
<1>4. ASSUME NEW p \in Processors, Throw(p), UNCHANGED <<rowStatus, fulfilledBy>>
      PROVE  RowsTell'
  BY <1>1, <1>4 DEF Throw, Release, TypeOK
<1>5. ASSUME NEW p \in Processors, CheckUsed(p) \/ FindRebate(p) PROVE RowsTell'
  BY <1>1, <1>4, <1>5 DEF CheckUsed, FindRebate, Decide, Release, TypeOK, tables
<1>6. ASSUME NEW p \in Processors, MarkAsProcessed(p) PROVE RowsTell'
  <2>1. current[p] \in Messages /\ pc[p] = "mark"
    BY <1>6 DEF MarkAsProcessed, HoldsWhileAtWork, TypeOK
  <2>2. CASE /\ rowStatus' = [rowStatus EXCEPT ![current[p]] = result[p]]
             /\ result[p] = "FulfilledTransSuccessful"
             /\ pc' = [pc EXCEPT ![p] = "update"]
             /\ UNCHANGED <<history, current>>
    <3>1. /\ RebateId(current[p]) \in Rebates
          /\ current[p].accountId = AccountOf[RebateId(current[p])]
      BY <2>1, <2>2 DEF ChecksStillHold, Matched
    <3>2. UNCHANGED fulfilledBy
      BY <1>6 DEF MarkAsProcessed
    <3>3. ASSUME NEW m \in Messages, rowStatus'[m] = "FulfilledTransSuccessful"
          PROVE  /\ RebateId(m) \in Rebates
                 /\ m.accountId = AccountOf[RebateId(m)]
                 /\ \/ fulfilledBy'[RebateId(m)] = m.transactionId
                    \/ <<m.transactionId, fulfilledBy'[RebateId(m)]>> \in Rivals
                    \/ m \in cutOff'
                    \/ \E q \in Processors : pc'[q] = "update" /\ current'[q] = m
      <4>1. CASE m = current[p]
        BY <2>1, <2>2, <3>1, <4>1 DEF TypeOK
      <4>2. CASE m # current[p]
        BY <2>1, <2>2, <3>2, <3>3, <4>2 DEF TypeOK, RowsTell
      <4> QED
        BY <4>1, <4>2
    <3> QED
      BY <3>3 DEF RowsTell, RebateId
  <2>3. CASE /\ rowStatus' = [rowStatus EXCEPT ![current[p]] = result[p]]
             /\ result[p] # "FulfilledTransSuccessful"
             /\ Release(p)
             /\ UNCHANGED history
    BY <1>1, <1>6, <2>1, <2>3 DEF MarkAsProcessed, Release, TypeOK
  <2> QED
    BY <1>4, <1>6, <2>2, <2>3 DEF MarkAsProcessed
<1>7. ASSUME NEW p \in Processors, UpdateRebate(p) PROVE RowsTell'
  <2> DEFINE r == RebateId(current[p])
  <2>1. CASE Throw(p) /\ UNCHANGED <<rebateStatus, fulfilledBy>>
    BY <1>4, <1>7, <2>1 DEF UpdateRebate
  <2>2. CASE /\ fulfilledBy' = [fulfilledBy EXCEPT ![r] = current[p].transactionId]
             /\ pc' = [pc EXCEPT ![p] = "findReport"]
             /\ UNCHANGED <<history, current>>
    <3>1. /\ pc[p] = "update" /\ Matched(p) /\ current[p] \in Messages
          /\ UNCHANGED rowStatus
      BY <1>7 DEF UpdateRebate, Matched, HoldsWhileAtWork, TypeOK
    <3>2. /\ r \in Rebates /\ current[p].accountId = AccountOf[r]
      BY <3>1 DEF ChecksStillHold
    <3>3. /\ fulfilledBy'[r] = current[p].transactionId
          /\ \A s \in Rebates : s # r => fulfilledBy'[s] = fulfilledBy[s]
          /\ \A q \in Processors : q # p => pc'[q] = pc[q]
      BY <2>2, <3>2 DEF TypeOK
    <3>4. ASSUME NEW m \in Messages, rowStatus[m] = "FulfilledTransSuccessful"
          PROVE  /\ RebateId(m) \in Rebates
                 /\ m.accountId = AccountOf[RebateId(m)]
                 /\ \/ fulfilledBy'[RebateId(m)] = m.transactionId
                    \/ <<m.transactionId, fulfilledBy'[RebateId(m)]>> \in Rivals
                    \/ m \in cutOff'
                    \/ \E q \in Processors : pc'[q] = "update" /\ current'[q] = m
      <4>1. RebateId(m) \in Rebates /\ m.accountId = AccountOf[RebateId(m)]
        BY <3>4 DEF RowsTell
      <4>2. CASE RebateId(m) = r /\ m # current[p] /\ m \notin cutOff
        <5>1. m.userId # current[p].userId
          BY <3>1, <3>4, <4>2 DEF LateAreRivals
        <5>2. <<m.transactionId, current[p].transactionId>> \in Rivals
          BY <3>1, <3>2, <4>1, <4>2, <5>1 DEF Rivals, Transactions
        <5> QED
          BY <3>3, <4>1, <4>2, <5>2
      <4>3. CASE m = current[p] \/ m \in cutOff
        BY <2>2, <3>2, <3>3, <4>1, <4>3
      <4>4. CASE RebateId(m) # r
        BY <2>2, <3>3, <3>4, <4>1, <4>4 DEF RowsTell
      <4> QED
        BY <4>2, <4>3, <4>4
    <3> QED
      BY <3>1, <3>4 DEF RowsTell, RebateId
  <2> QED
    BY <1>7, <2>1, <2>2 DEF UpdateRebate
<1>8. ASSUME NEW p \in Processors, FindReport(p) \/ UpdateReport(p) PROVE RowsTell'
  BY <1>1, <1>4, <1>8 DEF FindReport, UpdateReport, Release, TypeOK, tables
<1>9. ASSUME UNCHANGED <<rowStatus, fulfilledBy, cutOff, processorVars>> PROVE RowsTell'
  BY <1>1, <1>9 DEF processorVars
<1>10. ASSUME NEW p \in Processors, Crash(p) PROVE RowsTell'
  BY <1>4, <1>10 DEF Crash, tables
<1>11. ASSUME NEW r \in Rebates, WriteJournal(r) \/ MarkExported(r) PROVE RowsTell'
  BY <1>9, <1>11 DEF WriteJournal, MarkExported
<1> QED
  BY <1>2, <1>3, <1>5, <1>6, <1>7, <1>8, <1>9, <1>10, <1>11 DEF Next, Step, vars, tables

(* Two are about to fulfill one rebate only if both found it pending, and  *)
(* then they work for two users.                                           *)
LEMMA LateStep ==
  ASSUME IInv, RowsTell, LateAreRivals, [Next]_vars
  PROVE  LateAreRivals'
<1> USE DEF IInv
<1> DEFINE Late(p) == Matched(p) /\ pc[p] \in {"mark", "update"}
<1>1. ASSUME \A m \in Messages : rowStatus'[m] = "FulfilledTransSuccessful" =>
                                   /\ rowStatus[m] = "FulfilledTransSuccessful"
                                   /\ m \in cutOff => m \in cutOff',
             \A q \in Processors : Late(q)' => Late(q) /\ current'[q] = current[q]
      PROVE  LateAreRivals'
  BY <1>1 DEF LateAreRivals, RebateId
<1>2. ASSUME NEW m \in Messages, Arrive(m) PROVE LateAreRivals'
  BY <1>1, <1>2 DEF Arrive, TypeOK, Matched, processorVars
<1>3. ASSUME NEW p \in Processors, NEW m \in Messages, Take(p, m) PROVE LateAreRivals'
  BY <1>1, <1>3 DEF Take, TypeOK, Matched, tables
<1>4. ASSUME NEW p \in Processors, Release(p), UNCHANGED rowStatus,
             UNCHANGED history \/ Throw(p)
      PROVE  LateAreRivals'
  BY <1>1, <1>4 DEF Throw, Release, TypeOK, Matched
<1>5. ASSUME NEW p \in Processors, CheckUsed(p) PROVE LateAreRivals'
  BY <1>1, <1>4, <1>5 DEF CheckUsed, Throw, Decide, TypeOK, Matched, tables
<1>6. ASSUME NEW p \in Processors, FindRebate(p) PROVE LateAreRivals'
  <2> DEFINE r == RebateId(current[p])
  <2>1. CASE r \in Rebates /\ Decide(p, Match(current[p], r)) /\ UNCHANGED history
    <3>1. /\ pc[p] = "find" /\ UNCHANGED <<rowStatus, current>>
          /\ \A q \in Processors : q # p => pc'[q] = pc[q] /\ result'[q] = result[q]
      BY <1>6, <2>1 DEF FindRebate, Decide, TypeOK, tables
    <3>2. result'[p] = "FulfilledTransSuccessful" => rebateStatus[r] = "PendingFulfillment"
      BY <2>1 DEF Decide, TypeOK, Match, StatusMismatch, AccountMismatch, AmountMismatch
    <3>3. ASSUME NEW m \in Messages, m \notin cutOff, Late(p)',
                 rowStatus[m] = "FulfilledTransSuccessful", RebateId(m) = r
          PROVE  m.userId # current[p].userId
      <4>1. fulfilledBy[r] = NoTransaction
        BY <2>1, <3>2, <3>3, <3>1 DEF Decide, TypeOK, Matched, UnfulfilledHaveNoTransaction
      <4>2. PICK q \in Processors : pc[q] = "update" /\ current[q] = m
        <5>1. fulfilledBy[r] # m.transactionId
          BY <4>1, ConstantsAssumption
        <5>2. fulfilledBy[r] \notin Transactions
          BY <4>1, ConstantsAssumption DEF Transactions
        <5>3. <<m.transactionId, fulfilledBy[r]>> \notin Rivals
          BY <5>2 DEF Rivals
        <5> QED
          BY <3>3, <5>1, <5>3 DEF RowsTell
      <4> QED
        BY <3>1, <4>2, OthersAreOfOthers
    <3>4. ASSUME NEW q \in Processors, NEW m \in Messages \ cutOff, Late(q)',
                 rowStatus[m] = "FulfilledTransSuccessful",
                 RebateId(m) = RebateId(current[q]), m # current[q]
          PROVE  m.userId # current[q].userId
      <4>1. CASE q = p
        BY <3>3, <3>4, <4>1
      <4>2. CASE q # p
        <5>1. Late(q)
          BY <3>1, <3>4, <4>2 DEF Matched
        <5> QED
          BY <3>4, <5>1 DEF LateAreRivals
      <4> QED
        BY <4>1, <4>2
    <3> QED
      BY <2>1, <3>1, <3>4 DEF LateAreRivals, RebateId
  <2>2. CASE RebateNotFound(r) /\ Decide(p, "RebateNotFound") /\ UNCHANGED history
    BY <1>1, <1>6, <2>2 DEF FindRebate, Decide, TypeOK, Matched, tables
  <2>3. CASE Release(p) /\ (UNCHANGED history \/ Throw(p))
    BY <1>4, <1>6, <2>3 DEF FindRebate, tables
  <2> QED
    BY <1>6, <2>1, <2>2, <2>3 DEF FindRebate, Throw
<1>7. ASSUME NEW p \in Processors, MarkAsProcessed(p) PROVE LateAreRivals'
  <2>1. current[p] \in Messages /\ pc[p] = "mark"
    BY <1>7 DEF MarkAsProcessed, HoldsWhileAtWork, TypeOK
  <2>2. CASE /\ rowStatus' = [rowStatus EXCEPT ![current[p]] = result[p]]
             /\ result[p] = "FulfilledTransSuccessful"
             /\ pc' = [pc EXCEPT ![p] = "update"]
             /\ UNCHANGED <<history, current, result>>
    <3>1. \A q \in Processors : Late(q)' => Late(q)
      BY <2>1, <2>2 DEF Matched, TypeOK
    <3>2. \A m \in Messages : m # current[p] => rowStatus'[m] = rowStatus[m]
      BY <2>1, <2>2 DEF TypeOK
    <3>3. ASSUME NEW q \in Processors, Late(q), current[q] # current[p]
          PROVE  current[p].userId # current[q].userId
      BY <2>1, <3>3, OthersAreOfOthers
    <3>4. ASSUME NEW q \in Processors, NEW m \in Messages \ cutOff, Late(q),
                 rowStatus'[m] = "FulfilledTransSuccessful",
                 RebateId(m) = RebateId(current[q]), m # current[q]
          PROVE  m.userId # current[q].userId
      BY <3>2, <3>3, <3>4 DEF LateAreRivals
    <3> QED
      BY <2>2, <3>1, <3>4 DEF LateAreRivals, RebateId
  <2>3. CASE /\ rowStatus' = [rowStatus EXCEPT ![current[p]] = result[p]]
             /\ result[p] # "FulfilledTransSuccessful"
             /\ Release(p)
             /\ UNCHANGED history
    BY <1>1, <2>1, <2>3 DEF Release, TypeOK, Matched
  <2>4. CASE Throw(p) /\ UNCHANGED rowStatus
    BY <1>4, <2>4 DEF Throw
  <2> QED
    BY <1>7, <2>2, <2>3, <2>4 DEF MarkAsProcessed
<1>8. ASSUME NEW p \in Processors, UpdateRebate(p) \/ FindReport(p) \/ UpdateReport(p)
      PROVE  LateAreRivals'
  BY <1>1, <1>4, <1>8 DEF UpdateRebate, FindReport, UpdateReport, Throw, TypeOK, Matched, tables
<1>9. ASSUME UNCHANGED <<rowStatus, cutOff, processorVars>> PROVE LateAreRivals'
  BY <1>1, <1>9 DEF Matched, processorVars
<1>10. ASSUME NEW p \in Processors, Crash(p) PROVE LateAreRivals'
  BY <1>4, <1>10 DEF Crash, Throw, tables
<1>11. ASSUME NEW r \in Rebates, WriteJournal(r) \/ MarkExported(r) PROVE LateAreRivals'
  BY <1>9, <1>11 DEF WriteJournal, MarkExported
<1> QED
  BY <1>2, <1>3, <1>5, <1>6, <1>7, <1>8, <1>9, <1>10, <1>11 DEF Next, Step, vars, tables

LEMMA JournalStep ==
  ASSUME IInv, JournalTells, ReportAtHand, [Next]_vars
  PROVE  JournalTells'
<1> USE DEF IInv
<1> DEFINE AtWork == {"update", "findReport", "updateReport"}
<1>1. ASSUME \A q \in Processors : pc[q] \in AtWork =>
               \/ pc'[q] \in AtWork /\ current'[q] = current[q]
               \/ current[q] \in cutOff',
             \A m \in Messages : rowStatus[m] = "FulfilledTransSuccessful" =>
               /\ rowStatus'[m] = "FulfilledTransSuccessful"
               /\ m \in cutOff => m \in cutOff',
             NEW r \in Rebates
      PROVE  BeingFulfilled(r) \/ CutOffAfterMarking(r) =>
               (BeingFulfilled(r) \/ CutOffAfterMarking(r))'
  <2>1. ASSUME BeingFulfilled(r) PROVE (BeingFulfilled(r) \/ CutOffAfterMarking(r))'
    <3>1. PICK q \in Processors : pc[q] \in AtWork /\ RebateId(current[q]) = r
      BY <2>1 DEF BeingFulfilled
    <3>2. current[q] \in Messages /\ rowStatus[current[q]] = "FulfilledTransSuccessful"
      BY <3>1 DEF HoldsWhileAtWork, ChecksStillHold, TypeOK
    <3> QED
      BY <1>1, <3>1, <3>2 DEF BeingFulfilled, CutOffAfterMarking, RebateId
  <2>2. ASSUME CutOffAfterMarking(r) PROVE CutOffAfterMarking(r)'
    BY <1>1, <2>2 DEF CutOffAfterMarking, RebateId, TypeOK
  <2> QED
    BY <2>1, <2>2
<1>2. ASSUME UNCHANGED <<rebateStatus, journal>>,
             \A q \in Processors : pc[q] \in AtWork =>
               \/ pc'[q] \in AtWork /\ current'[q] = current[q]
               \/ current[q] \in cutOff',
             \A m \in Messages : rowStatus[m] = "FulfilledTransSuccessful" =>
               /\ rowStatus'[m] = "FulfilledTransSuccessful"
               /\ m \in cutOff => m \in cutOff'
      PROVE  JournalTells'
  BY <1>1, <1>2 DEF JournalTells
<1>3. ASSUME NEW p \in Processors, Throw(p), UNCHANGED <<rowStatus, rebateStatus, journal>>
      PROVE  JournalTells'
  BY <1>2, <1>3 DEF Throw, Release, TypeOK
<1>4. ASSUME NEW m \in Messages, Arrive(m) PROVE JournalTells'
  BY <1>2, <1>4 DEF Arrive, TypeOK, processorVars
<1>5. ASSUME NEW r \in Rebates, WriteJournal(r) PROVE JournalTells'
  <2>1. PICK k \in 1 .. 2 : /\ journal[r][k] = "none"
                            /\ journal' = [journal EXCEPT ![r][k] = "PendingFulfillment"]
    <3>1. PICK k \in 1 .. 2 :
            /\ \A l \in 1 .. 2 : journal[r][l] = "none" <=> l >= k
            /\ journal' = [journal EXCEPT ![r][k] = "PendingFulfillment"]
      BY <1>5 DEF WriteJournal
    <3>2. journal[r][k] = "none"
      BY <3>1
    <3> QED
      BY <3>1, <3>2
  <2>2. /\ rebateStatus[r] = "ExtractionStarted"
        /\ UNCHANGED <<rowStatus, rebateStatus, cutOff, pc, current>>
    BY <1>5 DEF WriteJournal, Fault, processorVars
  <2>3. /\ journal'[r][k] = "PendingFulfillment"
        /\ \A l \in 1 .. 2 : l # k => journal'[r][l] = journal[r][l]
        /\ \A s \in Rebates : s # r => journal'[s] = journal[s]
    BY <2>1 DEF TypeOK
  <2>4. ASSUME NEW s \in Rebates, s # r, rebateStatus[s] = "FulfilledTransSuccessful",
               ~\E l \in 1 .. 2 : journal[s][l] = "FulfilledTransSuccessful"
        PROVE  (BeingFulfilled(s) \/ CutOffAfterMarking(s))'
    BY <1>1, <2>2, <2>4 DEF JournalTells
  <2> QED
    BY <2>2, <2>3, <2>4 DEF JournalTells
<1>6. ASSUME NEW r \in Rebates, MarkExported(r) PROVE JournalTells'
  <2>1. /\ rebateStatus' = [rebateStatus EXCEPT ![r] = "PendingFulfillment"]
        /\ rebateStatus[r] = "ExtractionStarted" /\ journal[r][1] # "none"
        /\ UNCHANGED <<rowStatus, journal, cutOff, pc, current>>
    BY <1>6 DEF MarkExported, processorVars
  <2>2. /\ rebateStatus'[r] = "PendingFulfillment"
        /\ \A s \in Rebates : s # r => rebateStatus'[s] = rebateStatus[s]
    BY <2>1 DEF TypeOK
  <2>3. ASSUME NEW s \in Rebates
        PROVE  BeingFulfilled(s) \/ CutOffAfterMarking(s) =>
                 (BeingFulfilled(s) \/ CutOffAfterMarking(s))'
    BY <1>1, <2>1
  <2> QED
    BY <2>1, <2>2, <2>3 DEF JournalTells
<1>7. ASSUME NEW p \in Processors, NEW m \in Messages, Take(p, m) PROVE JournalTells'
  BY <1>2, <1>7 DEF Take, TypeOK, tables
<1>8. ASSUME NEW p \in Processors, CheckUsed(p) \/ FindRebate(p) PROVE JournalTells'
  BY <1>2, <1>3, <1>8 DEF CheckUsed, FindRebate, Decide, Release, TypeOK, tables
<1>9. ASSUME NEW p \in Processors, MarkAsProcessed(p) PROVE JournalTells'
  <2>1. current[p] \in Messages /\ pc[p] = "mark" /\ rowStatus[current[p]] = "Pending"
    BY <1>9 DEF MarkAsProcessed, HoldsWhileAtWork, TypeOK
  <2>2. CASE Throw(p) /\ UNCHANGED rowStatus
    BY <1>3, <1>9, <2>2 DEF MarkAsProcessed
  <2>3. CASE /\ rowStatus' = [rowStatus EXCEPT ![current[p]] = result[p]]
             /\ UNCHANGED history
             /\ \/ Release(p)
                \/ pc' = [pc EXCEPT ![p] = "update"] /\ UNCHANGED current
    <3>1. \A m \in Messages : m # current[p] => rowStatus'[m] = rowStatus[m]
      BY <2>1, <2>3 DEF TypeOK
    <3>2. \A q \in Processors : q # p => pc'[q] = pc[q] /\ current'[q] = current[q]
      BY <2>3 DEF Release, TypeOK
    <3>3. UNCHANGED <<rebateStatus, journal>>
      BY <1>9 DEF MarkAsProcessed
    <3> QED
      BY <1>2, <2>1, <2>3, <3>1, <3>2, <3>3
  <2> QED
    BY <1>9, <2>2, <2>3 DEF MarkAsProcessed
<1>10. ASSUME NEW p \in Processors, UpdateRebate(p) PROVE JournalTells'
  <2> DEFINE r == RebateId(current[p])
  <2>1. CASE Throw(p) /\ UNCHANGED <<rebateStatus, fulfilledBy>>
    BY <1>3, <1>10, <2>1 DEF UpdateRebate
  <2>2. CASE /\ rebateStatus' = [rebateStatus EXCEPT ![r] = "FulfilledTransSuccessful"]
             /\ pc' = [pc EXCEPT ![p] = "findReport"]
             /\ UNCHANGED <<history, current>>
    <3>1. pc[p] = "update" /\ UNCHANGED <<rowStatus, journal>>
      BY <1>10 DEF UpdateRebate
    <3>2. r \in Rebates /\ rebateStatus[r] # "ExtractionStarted"
      BY <3>1 DEF ChecksStillHold, Matched, Available
    <3>3. /\ rebateStatus'[r] = "FulfilledTransSuccessful"
          /\ \A s \in Rebates : s # r => rebateStatus'[s] = rebateStatus[s]
          /\ pc'[p] = "findReport"
      BY <2>2, <3>2 DEF TypeOK
    <3>4. ASSUME NEW s \in Rebates, s = r PROVE BeingFulfilled(s)'
      BY <2>2, <3>3, <3>4 DEF BeingFulfilled, RebateId
    <3>5. ASSUME NEW s \in Rebates
          PROVE  BeingFulfilled(s) \/ CutOffAfterMarking(s) =>
                   (BeingFulfilled(s) \/ CutOffAfterMarking(s))'
      BY <1>1, <2>2, <3>1 DEF TypeOK
    <3>6. ASSUME NEW s \in Rebates, rebateStatus'[s] = "FulfilledTransSuccessful"
          PROVE  \/ \E k \in 1 .. 2 : journal[s][k] = "FulfilledTransSuccessful"
                 \/ (BeingFulfilled(s) \/ CutOffAfterMarking(s))'
      <4>1. CASE s = r
        BY <3>4, <4>1
      <4>2. CASE s # r
        <5>1. \/ \E k \in 1 .. 2 : journal[s][k] = "FulfilledTransSuccessful"
              \/ BeingFulfilled(s) \/ CutOffAfterMarking(s)
          BY <3>3, <3>6, <4>2 DEF JournalTells
        <5> QED
          BY <3>5, <5>1
      <4> QED
        BY <4>1, <4>2
    <3>7. ASSUME NEW s \in Rebates
          PROVE  /\ \/ \E k \in 1 .. 2 : journal[s][k] # "none"
                    \/ rebateStatus'[s] = "ExtractionStarted"
                 /\ (\E k \in 1 .. 2 : journal[s][k] = "FulfilledTransSuccessful") =>
                      rebateStatus'[s] = "FulfilledTransSuccessful"
      BY <3>2, <3>3 DEF JournalTells
    <3> QED
      BY <3>1, <3>6, <3>7 DEF JournalTells
  <2> QED
    BY <1>10, <2>1, <2>2 DEF UpdateRebate
<1>11. ASSUME NEW p \in Processors, FindReport(p) PROVE JournalTells'
  <2> DEFINE r == RebateId(current[p])
  <2>1. CASE Throw(p)
    BY <1>3, <1>11, <2>1 DEF FindReport, tables
  <2>2. CASE pc' = [pc EXCEPT ![p] = "updateReport"] /\ UNCHANGED <<history, current>>
    BY <1>2, <1>11, <2>2 DEF FindReport, TypeOK, tables
  <2>3. CASE ReportsOf(r) = {} /\ Release(p) /\ UNCHANGED history
    <3>1. pc[p] = "findReport" /\ UNCHANGED <<rowStatus, rebateStatus, journal>>
      BY <1>11 DEF FindReport, tables
    <3>2. r \in Rebates /\ rebateStatus[r] = "FulfilledTransSuccessful"
      BY <3>1 DEF ChecksStillHold, Matched, ReportAtHand
    <3>3. \E k \in 1 .. 2 : journal[r][k] = "FulfilledTransSuccessful"
      <4>1. PICK k \in 1 .. 2 : journal[r][k] # "none"
        BY <3>2 DEF JournalTells
      <4>2. journal[r][k] # "PendingFulfillment"
        BY <2>3 DEF ReportsOf
      <4> QED
        BY <3>2, <4>1, <4>2 DEF TypeOK, JournalStatuses
    <3>4. ASSUME NEW s \in Rebates, s # r
          PROVE  BeingFulfilled(s) \/ CutOffAfterMarking(s) =>
                   (BeingFulfilled(s) \/ CutOffAfterMarking(s))'
      BY <2>3, <3>1, <3>4 DEF Release, BeingFulfilled, CutOffAfterMarking, RebateId, TypeOK
    <3> QED
      BY <3>1, <3>3, <3>4 DEF JournalTells
  <2> QED
    BY <1>11, <2>1, <2>2, <2>3 DEF FindReport
<1>12. ASSUME NEW p \in Processors, UpdateReport(p) PROVE JournalTells'
  <2> DEFINE r == RebateId(current[p])
             k == existingReport[p]
  <2>1. CASE Throw(p) /\ UNCHANGED journal
    BY <1>3, <1>12, <2>1 DEF UpdateReport
  <2>2. CASE /\ journal' = [journal EXCEPT ![r][k] = "FulfilledTransSuccessful"]
             /\ Release(p)
             /\ UNCHANGED history
    <3>1. pc[p] = "updateReport" /\ UNCHANGED <<rowStatus, rebateStatus>>
      BY <1>12 DEF UpdateReport
    <3>2. /\ r \in Rebates /\ k \in 1 .. 2
          /\ rebateStatus[r] = "FulfilledTransSuccessful"
      BY <3>1 DEF ChecksStillHold, Matched, ReportAtHand
    <3>3. /\ journal'[r][k] = "FulfilledTransSuccessful"
          /\ \A s \in Rebates : s # r => journal'[s] = journal[s]
      BY <2>2, <3>2 DEF TypeOK
    <3>4. ASSUME NEW s \in Rebates, s # r
          PROVE  BeingFulfilled(s) \/ CutOffAfterMarking(s) =>
                   (BeingFulfilled(s) \/ CutOffAfterMarking(s))'
      BY <2>2, <3>1, <3>4 DEF Release, BeingFulfilled, CutOffAfterMarking, RebateId, TypeOK
    <3> QED
      BY <3>1, <3>2, <3>3, <3>4 DEF JournalTells
  <2> QED
    BY <1>12, <2>1, <2>2 DEF UpdateReport
<1>13. ASSUME NEW p \in Processors, Crash(p) PROVE JournalTells'
  BY <1>3, <1>13 DEF Crash, tables
<1>14. CASE UNCHANGED vars
  BY <1>2, <1>14 DEF vars, tables, processorVars
<1> QED
  BY <1>4, <1>5, <1>6, <1>7, <1>8, <1>9, <1>10, <1>11, <1>12, <1>13, <1>14 DEF Next, Step

LEMMA ReportStep ==
  ASSUME IInv, ReportAtHand, [Next]_vars
  PROVE  ReportAtHand'
<1> USE DEF IInv
<1>1. ASSUME \A r \in Rebates : rebateStatus[r] = "FulfilledTransSuccessful" =>
                                  rebateStatus'[r] = "FulfilledTransSuccessful",
             \A q \in Processors :
               pc'[q] \in {"findReport", "updateReport"} =>
                 pc'[q] = pc[q] /\ UNCHANGED <<current[q], existingReport[q]>>
      PROVE  ReportAtHand'
  BY <1>1 DEF ReportAtHand, ChecksStillHold, Matched, RebateId
<1>2. ASSUME NEW r \in Rebates, MarkExported(r) PROVE ReportAtHand'
  BY <1>1, <1>2 DEF MarkExported, TypeOK, processorVars
<1>3. ASSUME NEW p \in Processors, NEW m \in Messages, Take(p, m) PROVE ReportAtHand'
  BY <1>1, <1>3 DEF Take, TypeOK, tables
<1>4. ASSUME NEW p \in Processors, Release(p), UNCHANGED rebateStatus PROVE ReportAtHand'
  BY <1>1, <1>4 DEF Release, TypeOK
<1>5. ASSUME NEW p \in Processors, CheckUsed(p) \/ FindRebate(p) \/ MarkAsProcessed(p)
      PROVE  ReportAtHand'
  BY <1>1, <1>4, <1>5 DEF CheckUsed, FindRebate, MarkAsProcessed, Decide, Throw, TypeOK, tables
<1>6. ASSUME NEW p \in Processors, UpdateRebate(p) PROVE ReportAtHand'
  <2> DEFINE r == RebateId(current[p])
  <2>1. CASE Throw(p) /\ UNCHANGED <<rebateStatus, fulfilledBy>>
    BY <1>4, <2>1 DEF Throw
  <2>2. CASE /\ rebateStatus' = [rebateStatus EXCEPT ![r] = "FulfilledTransSuccessful"]
             /\ pc' = [pc EXCEPT ![p] = "findReport"]
             /\ UNCHANGED <<current, existingReport>>
    <3>1. r \in Rebates
      BY <1>6 DEF UpdateRebate, ChecksStillHold, Matched
    <3> QED
      BY <2>2, <3>1 DEF TypeOK, ReportAtHand, ChecksStillHold, Matched, RebateId
  <2> QED
    BY <1>6, <2>1, <2>2 DEF UpdateRebate
<1>7. ASSUME NEW p \in Processors, FindReport(p) PROVE ReportAtHand'
  <2> DEFINE r == RebateId(current[p])
  <2>1. CASE Release(p)
    BY <1>4, <1>7, <2>1 DEF FindReport, tables
  <2>2. ASSUME NEW k \in ReportsOf(r),
               existingReport' = [existingReport EXCEPT ![p] = k],
               pc' = [pc EXCEPT ![p] = "updateReport"],
               UNCHANGED current
        PROVE  ReportAtHand'
    <3>1. pc[p] = "findReport" /\ UNCHANGED rebateStatus
      BY <1>7 DEF FindReport, tables
    <3>2. k \in 1 .. 2
      BY DEF ReportsOf
    <3> QED
      BY <2>2, <3>1, <3>2 DEF TypeOK, ReportAtHand, RebateId
  <2> QED
    BY <1>7, <2>1, <2>2 DEF FindReport, Throw
<1>8. ASSUME NEW p \in Processors, UpdateReport(p) PROVE ReportAtHand'
  BY <1>4, <1>8 DEF UpdateReport, Throw
<1>9. ASSUME NEW p \in Processors, Crash(p) PROVE ReportAtHand'
  BY <1>4, <1>9 DEF Crash, Throw, tables
<1>10. ASSUME UNCHANGED <<rebateStatus, processorVars>> PROVE ReportAtHand'
  BY <1>1, <1>10 DEF processorVars
<1> QED
  BY <1>2, <1>3, <1>5, <1>6, <1>7, <1>8, <1>9, <1>10
     DEF Next, Step, Arrive, WriteJournal, vars, tables

LEMMA AccountedAlways == Spec => [](IInv /\ Accounted)
<1>1. Init => Accounted
  BY DEF Init, Accounted, RowsTell, LateAreRivals, JournalTells, ReportAtHand, Matched
<1>2. IInv /\ Accounted /\ [Next]_vars => Accounted'
  BY RowsStep, LateStep, JournalStep, ReportStep DEF Accounted
<1>3. Spec => []IInv
  BY Inductive
<1> QED
  BY <1>1, <1>2, <1>3, PTL DEF Spec

(* A row marked successful has its rebate, or a rival has, or it is about  *)
(* to, unless a fault cut it off.                                          *)
THEOREM SuccessIsReal == Spec => []SuccessMeansFulfilled
<1>1. Accounted => SuccessMeansFulfilled
  BY DEF Accounted, RowsTell, SuccessMeansFulfilled
<1> QED
  BY <1>1, AccountedAlways, PTL

(* The journal says of a rebate what the table says, but while it is being *)
(* fulfilled and after a fault that cut that off.                          *)
THEOREM Follows == Spec => []JournalFollows
<1>1. Accounted => JournalFollows
  BY DEF Accounted, JournalTells, JournalFollows
<1> QED
  BY <1>1, AccountedAlways, PTL
=============================================================================
