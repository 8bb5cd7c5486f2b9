---------------------------- MODULE MopSync_proofs ---------------------------
(***************************************************************************)
(* For any rebates, offers and syncs, side by side or not, and any number  *)
(* of faults: the types, that only a rebate fulfilled during a sync can be *)
(* marked without being in the totals, and that it takes a fault to count  *)
(* a rebate once more.                                                     *)
(***************************************************************************)
EXTENDS MopSync, FiniteSetTheorems, TLAPS

LEMMA InitInv == Init => IInv
BY ConstantsAssumption
   DEF Init, IInv, TypeOK, Stages, OnlyTheRunningWork, ReadOrAdded, OnlyLateOnesAreMissing

LEMMA AddedTypes ==
  ASSUME NEW total \in [Rebates -> Nat], NEW rebates
  PROVE  /\ Added(total, rebates) \in [Rebates -> Nat]
         /\ \A r \in Rebates : Added(total, rebates)[r] >= total[r]
         /\ \A r \in Rebates \cap rebates : Added(total, rebates)[r] >= 1
BY DEF Added

LEMMA TypeStep == TypeOK /\ [Next]_vars => TypeOK'
<1> SUFFICES ASSUME TypeOK, [Next]_vars PROVE TypeOK'
  OBVIOUS
<1> USE DEF Stages
<1>1. ASSUME NEW r \in Rebates, Fulfill(r) PROVE TypeOK'
  BY <1>1 DEF Fulfill, TypeOK, totals, syncVars, Of
<1>2. ASSUME NEW s \in Syncs, Start(s) PROVE TypeOK'
  BY <1>2, ConstantsAssumption DEF Start, Fault, TypeOK, totals, Of
<1>3. ASSUME NEW s \in Syncs, End(s), faults' \in 0 .. MaxFaults PROVE TypeOK'
  BY <1>3 DEF End, TypeOK, totals, Of
<1>4. ASSUME NEW s \in Syncs, NEW o \in Offers, Count(s, o) PROVE TypeOK'
  BY <1>4 DEF Count, Advance, RedeemedForUpdate, TypeOK, totals, Of
<1>5. ASSUME NEW s \in Syncs, NEW o \in Offers, Sum(s, o) PROVE TypeOK'
  BY <1>5 DEF Sum, Advance, RedeemedForUpdate, TypeOK, totals, Of
<1>6. ASSUME NEW s \in Syncs, NEW o \in Offers, Update(s, o) PROVE TypeOK'
  <2>1. counted' \in [Rebates -> Nat] /\ summed' \in [Rebates -> Nat]
    BY <1>6, AddedTypes DEF Update, TypeOK
  <2> QED
    BY <1>6, <2>1 DEF Update, Advance, TypeOK, Of
<1>7. ASSUME NEW s \in Syncs, NEW o \in Offers, SetRebatesAsSynced(s, o) PROVE TypeOK'
  BY <1>7 DEF SetRebatesAsSynced, Advance, Redeemed, TypeOK, totals, Of
<1>8. ASSUME NEW s \in Syncs, NEW o \in Offers, Throw(s, o) PROVE TypeOK'
  <2>1. faults' \in 0 .. MaxFaults
    BY <1>8, ConstantsAssumption DEF Throw, Fault, TypeOK
  <2>2. CASE End(s)
    BY <1>3, <2>1, <2>2
  <2>3. CASE /\ Advance(s, o, "done")
             /\ UNCHANGED <<fulfilled, synced, totals, running, countRead, sumRead, late>>
    BY <2>1, <2>3 DEF Advance, TypeOK, totals, Of
  <2> QED
    BY <1>8, <2>2, <2>3 DEF Throw
<1>9. ASSUME NEW s \in Syncs, Exit(s) PROVE TypeOK'
  BY <1>3, <1>9, ConstantsAssumption DEF Exit, Fault, TypeOK
<1>10. ASSUME NEW s \in Syncs, Finish(s) PROVE TypeOK'
  BY <1>3, <1>10 DEF Finish, TypeOK
<1>11. CASE UNCHANGED vars
  BY <1>11 DEF vars, totals, syncVars, TypeOK, Of
<1> QED
  BY <1>1, <1>2, <1>4, <1>5, <1>6, <1>7, <1>8, <1>9, <1>10, <1>11 DEF Next, Step

(* Every variable keeps its type.                                          *)
THEOREM TypeCorrect == Spec => []TypeOK
<1>1. Init => TypeOK
  BY InitInv DEF IInv
<1> QED
  BY <1>1, TypeStep, PTL DEF Spec

(* When a sync stops, the invariant asks nothing of it any more.           *)
LEMMA EndKeeps == ASSUME IInv, NEW s \in Syncs, End(s), TypeOK' PROVE IInv'
BY DEF IInv, End, TypeOK, OnlyTheRunningWork, ReadOrAdded, InCount, InSum, Redeemed, Of,
       OnlyLateOnesAreMissing, totals

LEMMA InvStep == IInv /\ [Next]_vars => IInv'
<1> SUFFICES ASSUME IInv, [Next]_vars PROVE IInv'
  OBVIOUS
<1>0. TypeOK' /\ TypeOK
  BY TypeStep DEF IInv
<1> USE DEF IInv, InCount, InSum
<1>1. ASSUME NEW r \in Rebates, Fulfill(r) PROVE IInv'
  <2>1. OnlyTheRunningWork' /\ OnlyLateOnesAreMissing'
    BY <1>1 DEF Fulfill, OnlyTheRunningWork, OnlyLateOnesAreMissing, totals, syncVars
  <2>2. CASE running = {}
    BY <1>0, <1>1, <2>1, <2>2 DEF Fulfill, ReadOrAdded, syncVars
  <2>3. CASE running # {}
    BY <1>0, <1>1, <2>1, <2>3 DEF Fulfill, ReadOrAdded, Redeemed, Of, totals, syncVars
  <2> QED
    BY <2>2, <2>3
<1>2. ASSUME NEW s \in Syncs, Start(s) PROVE IInv'
  <2>1. OnlyTheRunningWork'
    BY <1>0, <1>2 DEF Start, TypeOK, OnlyTheRunningWork
  <2>2. synced' \ late' \subseteq synced \ late
    BY <1>2 DEF Start
  <2>3. OnlyLateOnesAreMissing'
    BY <1>2, <2>2 DEF Start, OnlyLateOnesAreMissing, totals
  <2>4. CASE running = {}
    BY <1>0, <1>2, <2>1, <2>3, <2>4 DEF Start, TypeOK, ReadOrAdded
  <2>5. CASE running # {}
    BY <1>0, <1>2, <2>1, <2>3, <2>5 DEF Start, TypeOK, ReadOrAdded, Redeemed, Of, totals
  <2> QED
    BY <2>4, <2>5
<1>3. ASSUME NEW s \in Syncs, NEW o \in Offers, Count(s, o) PROVE IInv'
  <2>1. s \in running
    BY <1>3 DEF Count, OnlyTheRunningWork
  <2>2. OnlyTheRunningWork' /\ OnlyLateOnesAreMissing'
    BY <1>0, <1>3, <2>1 DEF Count, Advance, TypeOK, OnlyTheRunningWork, OnlyLateOnesAreMissing, totals
  <2>3. o \in MopOffers =>
          \A r \in Redeemed(o) \ late : r \in RedeemedForUpdate(o) \/ counted[r] >= 1
    BY DEF Redeemed, RedeemedForUpdate, Of, OnlyLateOnesAreMissing
  <2>4. ReadOrAdded'
    BY <1>0, <1>3, <2>3 DEF Count, Advance, TypeOK, ReadOrAdded, Redeemed, Of, totals
  <2> QED
    BY <1>0, <2>2, <2>4
<1>4. ASSUME NEW s \in Syncs, NEW o \in Offers, Sum(s, o) PROVE IInv'
  <2>1. s \in running
    BY <1>4 DEF Sum, OnlyTheRunningWork
  <2>2. OnlyTheRunningWork' /\ OnlyLateOnesAreMissing'
    BY <1>0, <1>4, <2>1 DEF Sum, Advance, TypeOK, OnlyTheRunningWork, OnlyLateOnesAreMissing, totals
  <2>3. o \in MopOffers =>
          \A r \in Redeemed(o) \ late : r \in RedeemedForUpdate(o) \/ summed[r] >= 1
    BY DEF Redeemed, RedeemedForUpdate, Of, OnlyLateOnesAreMissing
  <2>4. ReadOrAdded'
    BY <1>0, <1>4, <2>3 DEF Sum, Advance, TypeOK, ReadOrAdded, Redeemed, Of, totals
  <2> QED
    BY <1>0, <2>2, <2>4
<1>5. ASSUME NEW s \in Syncs, NEW o \in Offers, Update(s, o) PROVE IInv'
  <2>1. s \in running
    BY <1>5 DEF Update, OnlyTheRunningWork
  <2>2. OnlyTheRunningWork'
    BY <1>0, <1>5, <2>1 DEF Update, Advance, TypeOK, OnlyTheRunningWork
  <2>3. o \in MopOffers => /\ counted' = Added(counted, countRead[s][o])
                           /\ summed' = Added(summed, sumRead[s][o])
    BY <1>5 DEF Update
  <2>4. \A r \in Rebates : /\ counted[r] >= 1 => counted'[r] >= 1
                           /\ summed[r] >= 1 => summed'[r] >= 1
    BY <1>0, <1>5 DEF Update, Added, TypeOK
  <2>5. OnlyLateOnesAreMissing'
    BY <1>0, <1>5, <2>4 DEF Update, TypeOK, OnlyLateOnesAreMissing
  <2>6. o \in MopOffers => \A r \in Redeemed(o) \ late : counted'[r] >= 1 /\ summed'[r] >= 1
    <3> SUFFICES ASSUME o \in MopOffers, NEW r \in Redeemed(o) \ late
                 PROVE  counted'[r] >= 1 /\ summed'[r] >= 1
      OBVIOUS
    <3>1. r \in Rebates /\ (r \in countRead[s][o] \/ counted[r] >= 1)
                        /\ (r \in sumRead[s][o] \/ summed[r] >= 1)
      BY <1>5, <2>1 DEF Update, ReadOrAdded, Redeemed, Of
    <3> QED
      BY <1>0, <2>3, <2>4, <3>1, AddedTypes DEF TypeOK
  <2>7. ReadOrAdded'
    <3>1. UNCHANGED <<fulfilled, late, running, countRead, sumRead>>
      BY <1>5 DEF Update
    <3>2. task' = [task EXCEPT ![s][o] = "mark"]
      BY <1>5 DEF Update, Advance
    <3>3. \A q \in Offers : Redeemed(q)' = Redeemed(q) /\ Redeemed(q) \subseteq Rebates
      BY <3>1 DEF Redeemed, Of
    <3> QED
      BY <1>0, <2>4, <2>6, <3>1, <3>2, <3>3 DEF TypeOK, ReadOrAdded
  <2> QED
    BY <1>0, <2>2, <2>5, <2>7
<1>6. ASSUME NEW s \in Syncs, NEW o \in Offers, SetRebatesAsSynced(s, o) PROVE IInv'
  <2>1. s \in running
    BY <1>6 DEF SetRebatesAsSynced, OnlyTheRunningWork
  <2>2. OnlyTheRunningWork'
    BY <1>0, <1>6, <2>1 DEF SetRebatesAsSynced, Advance, TypeOK, OnlyTheRunningWork
  <2>3. o \in MopOffers => \A r \in Redeemed(o) \ late : counted[r] >= 1 /\ summed[r] >= 1
    BY <1>6, <2>1 DEF SetRebatesAsSynced, ReadOrAdded
  <2>4. OnlyLateOnesAreMissing'
    BY <1>6, <2>3 DEF SetRebatesAsSynced, OnlyLateOnesAreMissing, Redeemed, Of, totals
  <2>5. ReadOrAdded'
    BY <1>0, <1>6 DEF SetRebatesAsSynced, Advance, TypeOK, ReadOrAdded, Redeemed, Of, totals
  <2> QED
    BY <1>0, <2>2, <2>4, <2>5
<1>7. ASSUME NEW s \in Syncs, NEW o \in Offers, Throw(s, o) PROVE IInv'
  <2>1. CASE End(s)
    BY <1>0, <2>1, EndKeeps
  <2>2. CASE /\ task[s][o] \in {"update", "mark"}
             /\ Advance(s, o, "done")
             /\ UNCHANGED <<fulfilled, synced, totals, running, countRead, sumRead, late>>
    <3>1. s \in running
      BY <2>2 DEF OnlyTheRunningWork
    <3> QED
      BY <1>0, <2>2, <3>1 DEF Advance, TypeOK, OnlyTheRunningWork, OnlyLateOnesAreMissing,
                              ReadOrAdded, Redeemed, Of, totals
  <2> QED
    BY <1>7, <2>1, <2>2 DEF Throw
<1>8. ASSUME NEW s \in Syncs, End(s) PROVE IInv'
  BY <1>0, <1>8, EndKeeps
<1>9. CASE UNCHANGED vars
  BY <1>0, <1>9 DEF vars, totals, syncVars, OnlyTheRunningWork, OnlyLateOnesAreMissing,
                    ReadOrAdded, Redeemed, Of
<1> QED
  BY <1>1, <1>2, <1>3, <1>4, <1>5, <1>6, <1>7, <1>8, <1>9 DEF Next, Step, Exit, Finish

(* The inductive invariant.                                                *)
THEOREM Inductive == Spec => []IInv
<1>1. IInv /\ [Next]_vars => IInv'
  BY InvStep
<1> QED
  BY InitInv, <1>1, PTL DEF Spec

(* A rebate of an offer that MOP knows, fulfilled before the sync that     *)
(* marks it, is in both totals, whatever throws, exits or runs beside.     *)
THEOREM OnlyLate == Spec => []OnlyLateOnesAreMissing
<1>1. IInv => OnlyLateOnesAreMissing
  BY DEF IInv
<1> QED
  BY <1>1, Inductive, PTL

----------------------------------------------------------------------------
(* How often a rebate is counted.                                          *)

LEMMA Finite ==
  ASSUME NEW r
  PROVE  /\ IsFiniteSet(MayCount(r)) /\ Cardinality(MayCount(r)) \in Nat
         /\ IsFiniteSet(MaySum(r)) /\ Cardinality(MaySum(r)) \in Nat
<1>1. MayCount(r) \subseteq Syncs /\ MaySum(r) \subseteq Syncs
  BY DEF MayCount, MaySum
<1> QED
  BY <1>1, ConstantsAssumption, FS_Subset, FS_CardinalityType

(* The same for the state that follows.                                    *)
LEMMA FiniteNext ==
  ASSUME NEW r
  PROVE  /\ IsFiniteSet(MayCount(r)') /\ Cardinality(MayCount(r)') \in Nat
         /\ IsFiniteSet(MaySum(r)') /\ Cardinality(MaySum(r)') \in Nat
<1>1. MayCount(r)' \subseteq Syncs /\ MaySum(r)' \subseteq Syncs
  BY DEF MayCount, MaySum
<1> QED
  BY <1>1, ConstantsAssumption, FS_Subset, FS_CardinalityType

(* A sync that adds the rebate is one less that may.                       *)
LEMMA OneLess ==
  ASSUME NEW A, IsFiniteSet(A), NEW s \in A, NEW B, B \subseteq A \ {s}
  PROVE  Cardinality(B) + 1 <= Cardinality(A)
<1>1. IsFiniteSet(A \ {s}) /\ Cardinality(A \ {s}) = Cardinality(A) - 1
  BY FS_RemoveElement
<1>2. IsFiniteSet(B) /\ Cardinality(B) <= Cardinality(A \ {s})
  BY <1>1, FS_Subset
<1> QED
  BY <1>1, <1>2, FS_CardinalityType

LEMMA OneMore ==
  ASSUME NEW A, IsFiniteSet(A), NEW s, NEW B, B \subseteq A \cup {s}
  PROVE  Cardinality(B) <= Cardinality(A) + 1
<1>1. Cardinality(A) \in Nat
  BY FS_CardinalityType
<1>2. CASE s \in A
  <2>1. B \subseteq A
    BY <1>2
  <2>2. IsFiniteSet(B) /\ Cardinality(B) <= Cardinality(A)
    BY <2>1, FS_Subset
  <2>3. Cardinality(B) \in Nat
    BY <2>2, FS_CardinalityType
  <2> QED
    BY <1>1, <2>2, <2>3
<1>3. CASE s \notin A
  <2>1. IsFiniteSet(A \cup {s}) /\ Cardinality(A \cup {s}) = Cardinality(A) + 1
    BY <1>3, FS_AddElement
  <2>2. Cardinality(B) <= Cardinality(A \cup {s})
    BY <2>1, FS_Subset
  <2> QED
    BY <2>1, <2>2
<1> QED
  BY <1>2, <1>3

LEMMA AllowedType == ASSUME TypeOK, NEW r PROVE Allowed(r) \in Nat
BY ConstantsAssumption DEF TypeOK, Allowed

LEMMA UnfulfilledStep ==
  ASSUME TypeOK, UnfulfilledAreNotAdded, [Next]_vars
  PROVE  UnfulfilledAreNotAdded'
<1>1. ASSUME NEW r \in Rebates, Fulfill(r) PROVE UnfulfilledAreNotAdded'
  BY <1>1 DEF Fulfill, TypeOK, UnfulfilledAreNotAdded, totals, syncVars
<1>2. ASSUME NEW s \in Syncs, Start(s) PROVE UnfulfilledAreNotAdded'
  BY <1>2 DEF Start, UnfulfilledAreNotAdded, totals
<1>3. ASSUME NEW s \in Syncs, End(s) PROVE UnfulfilledAreNotAdded'
  BY <1>3 DEF End, TypeOK, UnfulfilledAreNotAdded, totals
<1>4. ASSUME NEW s \in Syncs, NEW o \in Offers, Count(s, o) PROVE UnfulfilledAreNotAdded'
  BY <1>4 DEF Count, RedeemedForUpdate, TypeOK, UnfulfilledAreNotAdded, totals
<1>5. ASSUME NEW s \in Syncs, NEW o \in Offers, Sum(s, o) PROVE UnfulfilledAreNotAdded'
  BY <1>5 DEF Sum, RedeemedForUpdate, TypeOK, UnfulfilledAreNotAdded, totals
<1>6. ASSUME NEW s \in Syncs, NEW o \in Offers, Update(s, o) PROVE UnfulfilledAreNotAdded'
  BY <1>6 DEF Update, Added, TypeOK, UnfulfilledAreNotAdded
<1>7. ASSUME NEW s \in Syncs, NEW o \in Offers, SetRebatesAsSynced(s, o)
      PROVE  UnfulfilledAreNotAdded'
  BY <1>7 DEF SetRebatesAsSynced, UnfulfilledAreNotAdded, totals
<1>8. ASSUME UNCHANGED <<fulfilled, totals, countRead, sumRead>> PROVE UnfulfilledAreNotAdded'
  BY <1>8 DEF UnfulfilledAreNotAdded, totals
<1> QED
  BY <1>1, <1>2, <1>3, <1>4, <1>5, <1>6, <1>7, <1>8
     DEF Next, Step, Exit, Finish, Throw, vars, totals, syncVars

(* Nothing is added, nobody comes to add it, and no less is allowed.       *)
LEMMA NoMoreToCount ==
  ASSUME TypeOK, WithinFaults, NEW r \in Rebates, UNCHANGED totals,
         MayCount(r)' \subseteq MayCount(r), MaySum(r)' \subseteq MaySum(r),
         Allowed(r)' \in Nat, Allowed(r) <= Allowed(r)'
  PROVE  Within(r)'
<1>1. /\ Cardinality(MayCount(r)') <= Cardinality(MayCount(r))
      /\ Cardinality(MaySum(r)') <= Cardinality(MaySum(r))
  BY Finite, FS_Subset
<1>2. /\ counted[r] + Cardinality(MayCount(r)) <= Allowed(r)
      /\ summed[r] + Cardinality(MaySum(r)) <= Allowed(r)
      /\ counted[r] \in Nat /\ summed[r] \in Nat
  BY DEF WithinFaults, Within, TypeOK
<1>3. counted' = counted /\ summed' = summed
  BY DEF totals
<1> QED
  BY <1>1, <1>2, <1>3, Finite, FiniteNext, AllowedType DEF Within

LEMMA WithinStep ==
  ASSUME IInv, CountInv, [Next]_vars
  PROVE  WithinFaults'
<1> SUFFICES ASSUME NEW r \in Rebates PROVE Within(r)'
  BY DEF WithinFaults
<1> DEFINE mine == OfferOf[r]
<1>0. TypeOK /\ TypeOK' /\ mine \in Offers /\ faults \in Nat /\ faults' \in Nat
  BY TypeStep, ConstantsAssumption DEF IInv, TypeOK
<1>a. Within(r) /\ counted[r] \in Nat /\ summed[r] \in Nat
  BY <1>0 DEF CountInv, WithinFaults, TypeOK
<1>b. Allowed(r) \in Nat /\ Allowed(r)' \in Nat
  <2>1. Allowed(r)' \in {faults', faults' + 1}
    BY DEF Allowed
  <2> QED
    BY <1>0, <2>1, AllowedType
<1>1. ASSUME UNCHANGED totals, MayCount(r)' \subseteq MayCount(r), MaySum(r)' \subseteq MaySum(r),
             Allowed(r) <= Allowed(r)'
      PROVE  Within(r)'
  BY <1>0, <1>b, <1>1, NoMoreToCount DEF CountInv
<1>2. ASSUME NEW q \in Rebates, Fulfill(q) PROVE Within(r)'
  <2>1. UNCHANGED <<MayCount(r), MaySum(r), Allowed(r)>>
    BY <1>2 DEF Fulfill, MayCount, MaySum, Allowed, AtWork, syncVars
  <2> QED
    BY <1>1, <1>2, <1>b, <2>1 DEF Fulfill
<1>3. ASSUME NEW s \in Syncs, Start(s) PROVE Within(r)'
  <2>1. /\ task' = [task EXCEPT ![s] = [o \in Offers |-> "count"]]
        /\ UNCHANGED <<synced, countRead, sumRead>> /\ counted' = counted /\ summed' = summed
    BY <1>3 DEF Start, totals
  <2>2. MayCount(r)' \subseteq MayCount(r) \cup {s} /\ MaySum(r)' \subseteq MaySum(r) \cup {s}
    BY <1>0, <2>1 DEF TypeOK, MayCount, MaySum
  <2>3. s \in AtWork(r)'
    BY <1>0, <2>1 DEF TypeOK, AtWork
  <2>4. Allowed(r)' = faults' + 1
    BY <2>3 DEF Allowed
  <2>5. /\ Cardinality(MayCount(r)') <= Cardinality(MayCount(r)) + 1
        /\ Cardinality(MaySum(r)') <= Cardinality(MaySum(r)) + 1
    BY <2>2, Finite, OneMore
  <2>6. CASE running = {} /\ UNCHANGED faults
    <3>1. AtWork(r) = {}
      BY <1>0, <2>6 DEF IInv, OnlyTheRunningWork, AtWork
    <3>2. CASE r \in synced
      <4>1. MayCount(r)' \subseteq MayCount(r) /\ MaySum(r)' \subseteq MaySum(r)
        BY <1>0, <2>1, <3>2 DEF TypeOK, MayCount, MaySum
      <4>2. Allowed(r) = faults + 1
        BY <3>2 DEF Allowed
      <4> QED
        BY <1>0, <1>1, <2>1, <2>4, <2>6, <4>1, <4>2 DEF totals
    <3>3. CASE r \notin synced
      <4>1. Allowed(r) = faults
        BY <3>1, <3>3 DEF Allowed
      <4> QED
        BY <1>0, <1>a, <2>1, <2>4, <2>5, <2>6, <4>1, Finite, FiniteNext DEF Within
    <3> QED
      BY <3>2, <3>3
  <2>7. CASE Fault
    <3>1. faults' = faults + 1
      BY <2>7 DEF Fault
    <3>2. Allowed(r) <= faults + 1
      BY <1>0 DEF Allowed
    <3> QED
      BY <1>0, <1>a, <1>b, <2>1, <2>4, <2>5, <3>1, <3>2, Finite, FiniteNext DEF Within
  <2> QED
    BY <1>3, <2>6, <2>7 DEF Start
<1>4. ASSUME NEW s \in Syncs, End(s) PROVE /\ UNCHANGED totals
                                          /\ MayCount(r)' \subseteq MayCount(r)
                                          /\ MaySum(r)' \subseteq MaySum(r)
                                          /\ AtWork(r)' \subseteq AtWork(r)
                                          /\ AtWork(r) \subseteq AtWork(r)' \cup {s}
                                          /\ UNCHANGED synced
  BY <1>0, <1>4 DEF End, TypeOK, MayCount, MaySum, AtWork
<1>5. ASSUME NEW s \in Syncs, Exit(s) PROVE Within(r)'
  <2>1. faults' = faults + 1 /\ UNCHANGED synced
    BY <1>4, <1>5 DEF Exit, Fault
  <2>2. Allowed(r) <= Allowed(r)'
    BY <1>0, <2>1 DEF Allowed
  <2> QED
    BY <1>1, <1>4, <1>5, <2>2 DEF Exit
<1>6. ASSUME NEW s \in Syncs, Finish(s) PROVE Within(r)'
  <2>1. s \notin AtWork(r)
    BY <1>0, <1>6 DEF Finish, AtWork
  <2>2. Allowed(r)' = Allowed(r)
    BY <1>4, <1>6, <2>1 DEF Finish, Allowed
  <2> QED
    BY <1>1, <1>4, <1>6, <1>b, <2>2 DEF Finish
<1>7. ASSUME NEW s \in Syncs, NEW o \in Offers, Count(s, o) \/ Sum(s, o) PROVE Within(r)'
  <2>1. MayCount(r)' \subseteq MayCount(r) /\ MaySum(r)' \subseteq MaySum(r)
    <3>1. CASE Count(s, o)
      <4>1. task[s][o] = "count" /\ task' = [task EXCEPT ![s][o] = "sum"]
        BY <3>1 DEF Count, Advance
      <4>2. /\ countRead' = [countRead EXCEPT ![s][o] = RedeemedForUpdate(o)]
            /\ r \in RedeemedForUpdate(o) => r \notin synced
            /\ UNCHANGED <<synced, sumRead>>
        BY <3>1 DEF Count, RedeemedForUpdate
      <4>3. MayCount(r)' \subseteq MayCount(r)
        BY <1>0, <4>1, <4>2 DEF TypeOK, MayCount
      <4>4. MaySum(r)' \subseteq MaySum(r)
        BY <1>0, <4>1, <4>2 DEF TypeOK, MaySum
      <4> QED
        BY <4>3, <4>4
    <3>2. CASE Sum(s, o)
      <4>1. task[s][o] = "sum" /\ task' = [task EXCEPT ![s][o] = "update"]
        BY <3>2 DEF Sum, Advance
      <4>2. /\ sumRead' = [sumRead EXCEPT ![s][o] = RedeemedForUpdate(o)]
            /\ r \in RedeemedForUpdate(o) => r \notin synced
            /\ UNCHANGED <<synced, countRead>>
        BY <3>2 DEF Sum, RedeemedForUpdate
      <4>3. MayCount(r)' \subseteq MayCount(r)
        BY <1>0, <4>1, <4>2 DEF TypeOK, MayCount
      <4>4. MaySum(r)' \subseteq MaySum(r)
        BY <1>0, <4>1, <4>2 DEF TypeOK, MaySum
      <4> QED
        BY <4>3, <4>4
    <3> QED
      BY <1>7, <3>1, <3>2
  <2>2. AtWork(r)' = AtWork(r)
    <3>1. \E to \in {"sum", "update"} : task' = [task EXCEPT ![s][o] = to]
      BY <1>7 DEF Count, Sum, Advance
    <3>2. task[s][o] \in {"count", "sum"}
      BY <1>7 DEF Count, Sum
    <3> QED
      BY <1>0, <3>1, <3>2 DEF TypeOK, AtWork
  <2>3. UNCHANGED <<totals, synced, faults>>
    BY <1>7 DEF Count, Sum
  <2> QED
    BY <1>1, <1>b, <2>1, <2>2, <2>3 DEF Allowed
<1>8. ASSUME NEW s \in Syncs, NEW o \in Offers, Update(s, o) PROVE Within(r)'
  <2>1. /\ task[s][o] = "update" /\ task' = [task EXCEPT ![s][o] = "mark"]
        /\ UNCHANGED <<synced, countRead, sumRead, faults>>
    BY <1>8 DEF Update, Advance
  <2>2. AtWork(r)' = AtWork(r)
    BY <1>0, <2>1 DEF TypeOK, AtWork
  <2>3. Allowed(r)' = Allowed(r)
    BY <2>1, <2>2 DEF Allowed
  <2>4. counted'[r] + Cardinality(MayCount(r)') <= counted[r] + Cardinality(MayCount(r))
    <3>1. MayCount(r)' \subseteq MayCount(r)
      BY <1>0, <2>1 DEF TypeOK, MayCount
    <3>2. CASE r \in countRead[s][o]
      <4>1. o = mine
        BY <1>0, <3>2 DEF TypeOK, Of
      <4>2. s \in MayCount(r) /\ s \notin MayCount(r)'
        BY <1>0, <2>1, <3>2, <4>1 DEF TypeOK, MayCount
      <4>3. counted'[r] \in {counted[r], counted[r] + 1}
        BY <1>0, <1>8 DEF Update, Added, TypeOK
      <4>4. Cardinality(MayCount(r)') + 1 <= Cardinality(MayCount(r))
        BY <3>1, <4>2, Finite, OneLess
      <4> QED
        BY <1>a, <4>3, <4>4, Finite, FiniteNext
    <3>3. CASE r \notin countRead[s][o]
      <4>1. counted'[r] = counted[r]
        BY <1>0, <1>8, <3>3 DEF Update, Added, TypeOK
      <4>2. Cardinality(MayCount(r)') <= Cardinality(MayCount(r))
        BY <3>1, Finite, FS_Subset
      <4> QED
        BY <1>a, <4>1, <4>2, Finite, FiniteNext
    <3> QED
      BY <3>2, <3>3
  <2>5. summed'[r] + Cardinality(MaySum(r)') <= summed[r] + Cardinality(MaySum(r))
    <3>1. MaySum(r)' \subseteq MaySum(r)
      BY <1>0, <2>1 DEF TypeOK, MaySum
    <3>2. CASE r \in sumRead[s][o]
      <4>1. o = mine
        BY <1>0, <3>2 DEF TypeOK, Of
      <4>2. s \in MaySum(r) /\ s \notin MaySum(r)'
        BY <1>0, <2>1, <3>2, <4>1 DEF TypeOK, MaySum
      <4>3. summed'[r] \in {summed[r], summed[r] + 1}
        BY <1>0, <1>8 DEF Update, Added, TypeOK
      <4>4. Cardinality(MaySum(r)') + 1 <= Cardinality(MaySum(r))
        BY <3>1, <4>2, Finite, OneLess
      <4> QED
        BY <1>a, <4>3, <4>4, Finite, FiniteNext
    <3>3. CASE r \notin sumRead[s][o]
      <4>1. summed'[r] = summed[r]
        BY <1>0, <1>8, <3>3 DEF Update, Added, TypeOK
      <4>2. Cardinality(MaySum(r)') <= Cardinality(MaySum(r))
        BY <3>1, Finite, FS_Subset
      <4> QED
        BY <1>a, <4>1, <4>2, Finite, FiniteNext
    <3> QED
      BY <3>2, <3>3
  <2>6. counted'[r] \in Nat /\ summed'[r] \in Nat
    BY <1>0 DEF TypeOK
  <2> QED
    BY <1>a, <1>b, <2>3, <2>4, <2>5, <2>6, Finite, FiniteNext DEF Within
<1>9. ASSUME NEW s \in Syncs, NEW o \in Offers, SetRebatesAsSynced(s, o) PROVE Within(r)'
  <2>1. /\ task[s][o] = "mark" /\ task' = [task EXCEPT ![s][o] = "done"]
        /\ synced' = synced \cup Redeemed(o)
        /\ UNCHANGED <<totals, countRead, sumRead, faults>>
    BY <1>9 DEF SetRebatesAsSynced, Advance
  <2>2. MayCount(r)' \subseteq MayCount(r) /\ MaySum(r)' \subseteq MaySum(r)
    BY <1>0, <2>1 DEF TypeOK, MayCount, MaySum
  <2>3. CASE r \in synced' \/ AtWork(r)' # {}
    <3>1. Allowed(r)' = faults + 1 /\ Allowed(r) <= faults + 1
      BY <1>0, <2>1, <2>3 DEF Allowed
    <3> QED
      BY <1>1, <2>1, <2>2, <3>1
  <2>4. CASE r \notin synced' /\ AtWork(r)' = {}
    <3>1. CASE o # mine
      <4>1. AtWork(r)' = AtWork(r)
        BY <1>0, <2>1, <3>1 DEF TypeOK, AtWork
      <4> QED
        BY <1>1, <1>b, <2>1, <2>2, <2>4, <4>1 DEF Allowed
    <3>2. CASE o = mine
      <4>1. r \notin fulfilled
        BY <2>1, <2>4, <3>2 DEF Redeemed, Of
      <4>2. counted[r] = 0 /\ summed[r] = 0
        BY <4>1 DEF CountInv, UnfulfilledAreNotAdded
      <4>3. MayCount(r)' = {} /\ MaySum(r)' = {}
        BY <2>4 DEF AtWork, MayCount, MaySum
      <4>4. Cardinality(MayCount(r)') = 0 /\ Cardinality(MaySum(r)') = 0
        BY <4>3, FS_EmptySet
      <4> QED
        BY <1>b, <2>1, <4>2, <4>4 DEF Within, totals
    <3> QED
      BY <3>1, <3>2
  <2> QED
    BY <2>3, <2>4
<1>10. ASSUME NEW s \in Syncs, NEW o \in Offers, Throw(s, o) PROVE Within(r)'
  <2>1. faults' = faults + 1
    BY <1>10 DEF Throw, Fault
  <2>2. CASE End(s)
    <3>1. Allowed(r) <= Allowed(r)'
      BY <1>0, <1>4, <2>1, <2>2 DEF Allowed
    <3> QED
      BY <1>1, <1>4, <2>2, <3>1
  <2>3. CASE /\ Advance(s, o, "done")
             /\ UNCHANGED <<fulfilled, synced, totals, running, countRead, sumRead, late>>
    <3>1. MayCount(r)' \subseteq MayCount(r) /\ MaySum(r)' \subseteq MaySum(r)
      BY <1>0, <2>3 DEF Advance, TypeOK, MayCount, MaySum
    <3>2. Allowed(r) <= Allowed(r)'
      BY <1>0, <2>1, <2>3 DEF Allowed
    <3> QED
      BY <1>1, <2>3, <3>1, <3>2
  <2> QED
    BY <1>10, <2>2, <2>3 DEF Throw
<1>11. CASE UNCHANGED vars
  <2>1. UNCHANGED <<MayCount(r), MaySum(r), Allowed(r), totals>>
    BY <1>11 DEF vars, totals, syncVars, MayCount, MaySum, Allowed, AtWork
  <2> QED
    BY <1>1, <1>b, <2>1
<1> QED
  BY <1>2, <1>3, <1>5, <1>6, <1>7, <1>8, <1>9, <1>10, <1>11 DEF Next, Step

(* However many syncs run side by side: it takes an exception, an exit or  *)
(* a sync beside another to count a rebate once more, one each time.       *)
THEOREM CountedOnce == Spec => []CountedOnceAndPerFault
<1>1. Init => CountInv
  <2> SUFFICES ASSUME Init PROVE WithinFaults
    BY DEF Init, CountInv, UnfulfilledAreNotAdded
  <2> SUFFICES ASSUME NEW r \in Rebates
               PROVE  /\ counted[r] + Cardinality(MayCount(r)) <= Allowed(r)
                      /\ summed[r] + Cardinality(MaySum(r)) <= Allowed(r)
    BY DEF WithinFaults, Within
  <2>1. MayCount(r) = {} /\ MaySum(r) = {}
    BY ConstantsAssumption DEF Init, MayCount, MaySum
  <2>2. Cardinality(MayCount(r)) = 0 /\ Cardinality(MaySum(r)) = 0
    BY <2>1, FS_EmptySet
  <2>3. Allowed(r) \in Nat /\ counted[r] = 0 /\ summed[r] = 0
    BY DEF Init, Allowed
  <2> QED
    BY <2>2, <2>3
<1>2. IInv /\ CountInv /\ [Next]_vars => CountInv'
  BY UnfulfilledStep, WithinStep DEF CountInv, IInv
<1>3. IInv /\ CountInv => CountedOnceAndPerFault
  <2> SUFFICES ASSUME IInv, CountInv, NEW r \in Rebates
               PROVE  counted[r] <= 1 + faults /\ summed[r] <= 1 + faults
    BY DEF CountedOnceAndPerFault
  <2>1. /\ counted[r] + Cardinality(MayCount(r)) <= Allowed(r)
        /\ summed[r] + Cardinality(MaySum(r)) <= Allowed(r)
    BY DEF CountInv, WithinFaults, Within
  <2>2. faults \in Nat /\ counted[r] \in Nat /\ summed[r] \in Nat
    BY ConstantsAssumption DEF IInv, TypeOK
  <2>3. Allowed(r) \in {faults, faults + 1}
    BY DEF Allowed
  <2> QED
    BY <2>1, <2>2, <2>3, Finite
<1> QED
  BY <1>1, <1>2, <1>3, Inductive, PTL DEF Spec
=============================================================================
