---------------------------- MODULE Refunds_proofs ----------------------------
(***************************************************************************)
(* For any rows, offers, processors and number of faults: the types, that  *)
(* only repeated refunds are reported, that it takes a fault to report a   *)
(* row twice, and that nothing is left out without one.                    *)
(*                                                                         *)
(* Two facts carry the proof.  What is tracked, earned or qualifying stays *)
(* so (Grow), hence what a processor has read stays true.  And what it has *)
(* left to report is of its own client (LeftToReport), so that no other    *)
(* processor, of another client, reports or flags it, or adds to it.       *)
(***************************************************************************)
EXTENDS Refunds, FiniteSetTheorems, TLAPS

USE DEF RefundReport

LEMMA InitInv == Init => IInv
BY ConstantsAssumption
   DEF Init, IInv, TypeOK, OneUserAtATime, HoldsWhileAtWork, Reporting, LeftToReport,
       TrackedHaveARebate, RepeatsNeedFaults, OnlyRepeatedRefundsAreReported

----------------------------------------------------------------------------
(* Types.                                                                  *)

LEMMA FaultType == TypeOK /\ Fault => faults' \in 0 .. MaxFaults
BY ConstantsAssumption DEF TypeOK, Fault

LEMMA ReleaseType ==
  ASSUME TypeOK, NEW p \in Processors, Release(p)
  PROVE  /\ pc' \in [Processors -> {"idle", "findRebates", "mark", "findRefunds",
                                    "findQualifying", "insert", "flag"}]
         /\ current' \in [Processors -> Rows \cup {NoRow}]
         /\ result' \in [Processors -> Results \cup {"none"}]
         /\ refunds' \in [Processors -> SUBSET Rows]
         /\ qualifying' \in [Processors -> SUBSET Rows]
         /\ reporting' \in [Processors -> Rows \cup {NoRow}]
BY DEF TypeOK, Release

(* A processor that is not idle has a row.                                 *)
LEMMA AtWork ==
  ASSUME TypeOK, HoldsWhileAtWork, NEW p \in Processors, pc[p] # "idle"
  PROVE  current[p] \in Rows
BY DEF TypeOK, HoldsWhileAtWork

LEMMA TypeStep == TypeOK /\ HoldsWhileAtWork /\ [Next]_vars => TypeOK'
<1> SUFFICES ASSUME TypeOK, HoldsWhileAtWork, [Next]_vars PROVE TypeOK'
  OBVIOUS
<1> USE DEF GoTo, tables, processorVars
<1>1. ASSUME NEW m \in Rows, Qualify(m) PROVE TypeOK'
  BY <1>1, FaultType DEF Qualify, TypeOK
<1>2. ASSUME NEW m \in Rows, Arrive(m) PROVE TypeOK'
  BY <1>2 DEF Arrive, TypeOK
<1>3. ASSUME NEW p \in Processors, NEW m \in Rows, Take(p, m) PROVE TypeOK'
  BY <1>3 DEF Take, TypeOK, Results
<1>4. ASSUME NEW p \in Processors, Throw(p), UNCHANGED tables PROVE TypeOK'
  BY <1>4, FaultType, ReleaseType DEF Throw, TypeOK
<1>5. ASSUME NEW p \in Processors, Validate(p) PROVE TypeOK'
  <2>1. Verdict(current[p]) \in Results
    BY DEF Verdict, Results
  <2> QED
    BY <1>4, <1>5, <2>1 DEF Validate, TypeOK
<1>6. ASSUME NEW p \in Processors, MarkAsProcessed(p) PROVE TypeOK'
  <2>1. result[p] \in Results
    BY <1>6 DEF MarkAsProcessed, HoldsWhileAtWork
  <2>2. CASE rowStatus' = [rowStatus EXCEPT ![current[p]] = result[p]] /\ UNCHANGED faults
    <3>1. rowStatus' \in [Rows -> Results \cup {"none", "Pending", "RebateCreated"}]
      BY <2>1, <2>2 DEF TypeOK
    <3>2. CASE Release(p)
      BY <1>6, <2>2, <3>1, <3>2, ReleaseType DEF MarkAsProcessed, TypeOK
    <3>3. CASE /\ GoTo(p, "findRefunds")
               /\ UNCHANGED <<current, result, refunds, qualifying, reporting>>
      BY <1>6, <2>2, <3>1, <3>3 DEF MarkAsProcessed, TypeOK
    <3> QED
      BY <1>6, <2>2, <3>2, <3>3, <1>4 DEF MarkAsProcessed
  <2> QED
    BY <1>4, <1>6, <2>2 DEF MarkAsProcessed
<1>7. ASSUME NEW p \in Processors, FindRefunds(p) PROVE TypeOK'
  <2>1. CASE Release(p) /\ UNCHANGED faults
    BY <1>7, <2>1, ReleaseType DEF FindRefunds, TypeOK
  <2>2. CASE /\ refunds' = [refunds EXCEPT ![p] = Unflagged(TrackedRefundsOf(current[p]))]
             /\ GoTo(p, "findQualifying")
             /\ UNCHANGED <<faults, current, result, qualifying, reporting>>
    BY <1>7, <2>2 DEF FindRefunds, TypeOK, Unflagged, TrackedRefundsOf
  <2> QED
    BY <1>4, <1>7, <2>1, <2>2 DEF FindRefunds
<1>8. ASSUME NEW p \in Processors, FindQualifying(p) PROVE TypeOK'
  <2>1. CASE /\ qualifying' = [qualifying EXCEPT ![p] = Unflagged(QualifyingOf(current[p]))]
             /\ GoTo(p, "insert")
             /\ UNCHANGED <<faults, current, result, refunds, reporting>>
    BY <1>8, <2>1 DEF FindQualifying, TypeOK, Unflagged, QualifyingOf
  <2> QED
    BY <1>4, <1>8, <2>1 DEF FindQualifying
<1>9. ASSUME NEW p \in Processors, InsertReport(p) PROVE TypeOK'
  <2>1. CASE Release(p) /\ UNCHANGED <<faults, reports>>
    BY <1>9, <2>1, ReleaseType DEF InsertReport, TypeOK
  <2>2. ASSUME NEW m \in Todo(p), reports' = [reports EXCEPT ![m] = @ + 1],
               GoTo(p, "flag"), reporting' = [reporting EXCEPT ![p] = m],
               UNCHANGED <<faults, current, result, refunds, qualifying>>
        PROVE  TypeOK'
    <3>1. m \in Rows
      BY DEF Todo, TypeOK
    <3> QED
      BY <1>9, <2>2, <3>1 DEF InsertReport, TypeOK
  <2> QED
    BY <1>4, <1>9, <2>1, <2>2 DEF InsertReport
<1>10. ASSUME NEW p \in Processors, FlagReported(p) PROVE TypeOK'
  <2>1. CASE /\ refundReportCreated' = [refundReportCreated EXCEPT ![reporting[p]] = TRUE]
             /\ refunds' = [refunds EXCEPT ![p] = @ \ {reporting[p]}]
             /\ qualifying' = [qualifying EXCEPT ![p] = @ \ {reporting[p]}]
             /\ reporting' = [reporting EXCEPT ![p] = NoRow]
             /\ GoTo(p, "insert")
             /\ UNCHANGED <<faults, current, result>>
    BY <1>10, <2>1 DEF FlagReported, TypeOK
  <2> QED
    BY <1>4, <1>10, <2>1 DEF FlagReported
<1>11. CASE UNCHANGED vars
  BY <1>11 DEF vars, TypeOK
<1> QED
  BY <1>1, <1>2, <1>3, <1>4, <1>5, <1>6, <1>7, <1>8, <1>9, <1>10, <1>11 DEF Next, Step, Crash

----------------------------------------------------------------------------
(* What is tracked, earned or qualifying stays so.                         *)

Grow ==
  /\ rebates \subseteq rebates'
  /\ \A m \in Rows : rowStatus[m] \in {"RefundTrackedForReporting", "RebateCreated"} =>
                       rowStatus'[m] = rowStatus[m]

LEMMA Grows ==
  ASSUME TypeOK, TypeOK', Grow, NEW m
  PROVE  /\ TrackedRefundsOf(m) \subseteq TrackedRefundsOf(m)'
         /\ QualifyingOf(m) \subseteq QualifyingOf(m)'
         /\ RebatesOf(m) \subseteq RebatesOf(m)'
         /\ Cardinality(TrackedRefundsOf(m)) >= 2 => Cardinality(TrackedRefundsOf(m))' >= 2
<1>1. /\ TrackedRefundsOf(m) \subseteq TrackedRefundsOf(m)'
      /\ QualifyingOf(m) \subseteq QualifyingOf(m)'
      /\ RebatesOf(m) \subseteq RebatesOf(m)'
  BY DEF Grow, TrackedRefundsOf, QualifyingOf, RebatesOf
<1>2. IsFiniteSet(TrackedRefundsOf(m)) /\ IsFiniteSet(TrackedRefundsOf(m)')
  BY ConstantsAssumption, FS_Subset DEF TrackedRefundsOf
<1>3. /\ Cardinality(TrackedRefundsOf(m)) <= Cardinality(TrackedRefundsOf(m)')
      /\ Cardinality(TrackedRefundsOf(m)) \in Nat
      /\ Cardinality(TrackedRefundsOf(m)') \in Nat
  BY <1>1, <1>2, FS_Subset, FS_CardinalityType
<1> QED
  BY <1>1, <1>3

LEMMA StepGrows == TypeOK /\ HoldsWhileAtWork /\ [Next]_vars => Grow
<1> SUFFICES ASSUME TypeOK, HoldsWhileAtWork, [Next]_vars PROVE Grow
  OBVIOUS
<1>1. ASSUME NEW m \in Rows, Qualify(m) \/ Arrive(m) PROVE Grow
  BY <1>1 DEF Qualify, Arrive, Grow, TypeOK
<1>2. ASSUME NEW p \in Processors, MarkAsProcessed(p) PROVE Grow
  BY <1>2 DEF MarkAsProcessed, HoldsWhileAtWork, Grow, TypeOK
<1>3. CASE UNCHANGED <<rowStatus, rebates>>
  BY <1>3 DEF Grow
<1> QED
  BY <1>1, <1>2, <1>3
     DEF Next, Step, Crash, Take, Validate, FindRefunds, FindQualifying, InsertReport,
         FlagReported, tables, vars

(* Grow carries every statement about tables over to the next state, for a *)
(* processor that keeps what it holds.                                     *)
LEMMA StillReported ==
  ASSUME IInv, TypeOK', Grow, UNCHANGED reports
  PROVE  OnlyRepeatedRefundsAreReported'
<1> SUFFICES ASSUME NEW m \in Rows, reports[m] > 0
             PROVE  /\ Cardinality(TrackedRefundsOf(m))' >= 2
                    /\ RebatesOf(m)' # {}
                    /\ m \in TrackedRefundsOf(m)' \cup QualifyingOf(m)'
  BY DEF OnlyRepeatedRefundsAreReported
<1>1. /\ Cardinality(TrackedRefundsOf(m)) >= 2
      /\ RebatesOf(m) # {}
      /\ m \in TrackedRefundsOf(m) \cup QualifyingOf(m)
  BY DEF IInv, OnlyRepeatedRefundsAreReported
<1> QED
  BY <1>1, Grows DEF IInv

LEMMA StillHasARebate ==
  ASSUME IInv, TypeOK', Grow, NEW m \in Rows,
         rowStatus[m] = "RefundTrackedForReporting" \/ RebatesOf(m) # {}
  PROVE  RebatesOf(m)' # {}
<1>1. RebatesOf(m) # {}
  BY DEF IInv, TrackedHaveARebate
<1> QED
  BY <1>1, Grows DEF IInv

(* What one processor has in hand, in the terms of the invariant.          *)
Holds(p) ==
  /\ pc[p] = "idle" <=> current[p] = NoRow
  /\ pc[p] \in {"findRebates", "mark"} => rowStatus[current[p]] = "Pending"
  /\ pc[p] = "mark" => result[p] \in Results
  /\ pc[p] = "mark" /\ result[p] # "OfferNotFound" =>
       (result[p] = "RebateNotFound" \/ RebatesOf(current[p]) # {})
  /\ Reporting(p) => Cardinality(TrackedRefundsOf(current[p])) >= 2
  /\ pc[p] # "flag" => reporting[p] = NoRow
  /\ pc[p] = "flag" => reporting[p] \in refunds[p] \cup qualifying[p]

Left(p) ==
  \A n \in refunds[p] \cup qualifying[p] :
    /\ Reporting(p)
    /\ ~refundReportCreated[n]
    /\ SameClientOffer(n, current[p])
    /\ n \in TrackedRefundsOf(n) \cup QualifyingOf(n)

Unchanged(p) ==
  /\ pc'[p] = pc[p] /\ current'[p] = current[p] /\ result'[p] = result[p]
  /\ refunds'[p] = refunds[p] /\ qualifying'[p] = qualifying[p] /\ reporting'[p] = reporting[p]

(* A processor that does nothing while another marks a row, or flags one,  *)
(* of another client.                                                      *)
LEMMA OthersHold ==
  ASSUME IInv, TypeOK', Grow, NEW q \in Processors, Unchanged(q),
         pc[q] \in {"findRebates", "mark"} => rowStatus'[current[q]] = rowStatus[current[q]],
         \A n \in refunds[q] \cup qualifying[q] :
           refundReportCreated'[n] = refundReportCreated[n]
  PROVE  Holds(q)' /\ Left(q)'
<1>1. Holds(q) /\ Left(q) /\ TypeOK
  BY DEF IInv, HoldsWhileAtWork, LeftToReport, Holds, Left
<1>2. \A n : /\ RebatesOf(n) \subseteq RebatesOf(n)'
             /\ TrackedRefundsOf(n) \subseteq TrackedRefundsOf(n)'
             /\ QualifyingOf(n) \subseteq QualifyingOf(n)'
             /\ Cardinality(TrackedRefundsOf(n)) >= 2 => Cardinality(TrackedRefundsOf(n))' >= 2
  BY <1>1, Grows
<1>3. PICK m : m = current[q]
  OBVIOUS
<1>4. /\ pc'[q] = pc[q] /\ current'[q] = m /\ result'[q] = result[q]
      /\ refunds'[q] = refunds[q] /\ qualifying'[q] = qualifying[q]
      /\ reporting'[q] = reporting[q]
  BY <1>3 DEF Unchanged
<1>5. (RebatesOf(m) # {} => RebatesOf(m)' # {})
      /\ (Cardinality(TrackedRefundsOf(m)) >= 2 => Cardinality(TrackedRefundsOf(m))' >= 2)
  BY <1>2
<1>6. RebatesOf(current[q])' = RebatesOf(m)' /\ TrackedRefundsOf(current[q])' = TrackedRefundsOf(m)'
  BY <1>4 DEF RebatesOf, TrackedRefundsOf
<1>7. Reporting(q)' <=> Reporting(q)
  BY <1>4 DEF Reporting
<1>8. Holds(q)'
  BY <1>1, <1>3, <1>4, <1>5, <1>6, <1>7 DEF Holds
<1>9. Left(q)'
  BY <1>1, <1>2, <1>3, <1>4, <1>7 DEF Left
<1> QED
  BY <1>8, <1>9

LEMMA Assemble ==
  ASSUME TypeOK', OneUserAtATime', TrackedHaveARebate', RepeatsNeedFaults',
         OnlyRepeatedRefundsAreReported',
         \A p \in Processors : Holds(p)' /\ Left(p)'
  PROVE  IInv'
BY DEF IInv, HoldsWhileAtWork, LeftToReport, Holds, Left

LEMMA Parts ==
  ASSUME IInv
  PROVE  /\ TypeOK /\ OneUserAtATime /\ TrackedHaveARebate /\ RepeatsNeedFaults
         /\ HoldsWhileAtWork
         /\ OnlyRepeatedRefundsAreReported
         /\ \A p \in Processors : Holds(p) /\ Left(p)
BY DEF IInv, HoldsWhileAtWork, LeftToReport, Holds, Left

LEMMA RebatesStay ==
  ASSUME IInv, TypeOK', Grow,
         \A m \in Rows : rowStatus'[m] = "RefundTrackedForReporting" =>
                           rowStatus[m] = "RefundTrackedForReporting" \/ RebatesOf(m) # {}
  PROVE  TrackedHaveARebate'
<1> SUFFICES ASSUME NEW m \in Rows, rowStatus'[m] = "RefundTrackedForReporting"
             PROVE  RebatesOf(m)' # {}
  BY DEF TrackedHaveARebate
<1> QED
  BY StillHasARebate

LEMMA RepeatsStay ==
  ASSUME RepeatsNeedFaults, TypeOK, TypeOK', faults' >= faults,
         UNCHANGED <<reports, refundReportCreated>>,
         UNCHANGED reporting \/ (faults' = faults + 1 /\ \A p \in Processors :
                                   reporting'[p] \in {reporting[p], NoRow})
  PROVE  RepeatsNeedFaults'
<1>1. CASE UNCHANGED reporting
  BY <1>1 DEF RepeatsNeedFaults, TypeOK
<1>2. CASE faults' = faults + 1 /\ \A p \in Processors : reporting'[p] \in {reporting[p], NoRow}
  BY <1>2, ConstantsAssumption DEF RepeatsNeedFaults, TypeOK
<1> QED
  BY <1>1, <1>2

(* A processor that drops its row, or is done with it, leaves everything   *)
(* as it was, but for a row that it has inserted and not flagged: that     *)
(* takes a fault.                                                          *)
LEMMA ReleaseKeeps ==
  ASSUME IInv, TypeOK', Grow, NEW p \in Processors, Release(p),
         UNCHANGED <<refundReportCreated, reports>>,
         faults' = faults + 1 \/ (faults' = faults /\ pc[p] # "flag"),
         \A q \in Processors \ {p} :
           pc[q] \in {"findRebates", "mark"} => rowStatus'[current[q]] = rowStatus[current[q]],
         \A m \in Rows : rowStatus'[m] = "RefundTrackedForReporting" =>
                           rowStatus[m] = "RefundTrackedForReporting" \/ RebatesOf(m) # {}
  PROVE  IInv'
<1>1. TypeOK /\ RepeatsNeedFaults /\ OneUserAtATime /\ Holds(p)
  BY Parts
<1>2. OneUserAtATime'
  BY <1>1 DEF OneUserAtATime, Release, TypeOK
<1>3. TrackedHaveARebate'
  BY RebatesStay
<1>4. OnlyRepeatedRefundsAreReported'
  BY StillReported
<1>5. RepeatsNeedFaults'
  <2>1. reporting' = [reporting EXCEPT ![p] = NoRow]
    BY DEF Release
  <2>2. pc[p] # "flag" => UNCHANGED reporting
    BY <1>1, <2>1 DEF Holds, TypeOK
  <2>3. faults' >= faults
    BY <1>1 DEF TypeOK
  <2> QED
    BY <1>1, <2>1, <2>2, <2>3, RepeatsStay DEF TypeOK
<1>6. Holds(p)' /\ Left(p)'
  BY <1>1 DEF Holds, Left, Release, TypeOK, Reporting
<1>7. ASSUME NEW q \in Processors, q # p PROVE Holds(q)' /\ Left(q)'
  <2>1. Unchanged(q)
    BY <1>1, <1>7 DEF Release, Unchanged, TypeOK
  <2> QED
    BY <1>7, <2>1, OthersHold
<1> QED
  BY <1>2, <1>3, <1>4, <1>5, <1>6, <1>7, Assemble

LEMMA ThrowKeeps ==
  ASSUME IInv, TypeOK', NEW p \in Processors, Throw(p), UNCHANGED tables
  PROVE  IInv'
<1>1. Grow
  BY DEF Grow, tables
<1> QED
  BY <1>1, ReleaseKeeps DEF Throw, Fault, tables

(* A processor that is at work alone on its client goes on.                *)
LEMMA OnlyOneMoves ==
  ASSUME IInv, TypeOK', UNCHANGED tables, faults' = faults, NEW p \in Processors,
         current' = current, reporting' = reporting,
         \A q \in Processors \ {p} : Unchanged(q),
         Holds(p)', Left(p)'
  PROVE  IInv'
<1>0. Grow
  BY DEF Grow, tables
<1>1. TypeOK /\ RepeatsNeedFaults /\ OneUserAtATime
  BY Parts
<1>2. OneUserAtATime'
  BY <1>1 DEF OneUserAtATime
<1>3. TrackedHaveARebate' /\ OnlyRepeatedRefundsAreReported'
  BY <1>0, RebatesStay, StillReported DEF tables
<1>4. RepeatsNeedFaults'
  BY <1>1, RepeatsStay DEF tables, TypeOK
<1>5. ASSUME NEW q \in Processors, q # p PROVE Holds(q)' /\ Left(q)'
  BY <1>0, <1>5, OthersHold DEF tables
<1> QED
  BY <1>2, <1>3, <1>4, <1>5, Assemble

LEMMA QualifyKeeps ==
  ASSUME IInv, TypeOK', Grow, NEW m \in Rows, Qualify(m) \/ Arrive(m)
  PROVE  IInv'
<1>1. TypeOK /\ RepeatsNeedFaults /\ OneUserAtATime
  BY Parts
<1>2. OneUserAtATime'
  BY <1>1 DEF OneUserAtATime, Qualify, Arrive, processorVars
<1>3. TrackedHaveARebate'
  BY <1>1, RebatesStay DEF Qualify, Arrive, TypeOK
<1>4. OnlyRepeatedRefundsAreReported'
  BY StillReported DEF Qualify, Arrive
<1>5. RepeatsNeedFaults'
  BY <1>1, RepeatsStay DEF Qualify, Arrive, Fault, processorVars, TypeOK
<1>6. ASSUME NEW q \in Processors PROVE Holds(q)' /\ Left(q)'
  <2>1. Unchanged(q)
    BY DEF Unchanged, Qualify, Arrive, processorVars
  <2>2. pc[q] \in {"findRebates", "mark"} => rowStatus'[current[q]] = rowStatus[current[q]]
    BY <1>1, Parts DEF Qualify, Arrive, Holds, TypeOK
  <2> QED
    BY <2>1, <2>2, OthersHold DEF Qualify, Arrive
<1> QED
  BY <1>2, <1>3, <1>4, <1>5, <1>6, Assemble

LEMMA TakeKeeps ==
  ASSUME IInv, TypeOK', NEW p \in Processors, NEW m \in Rows, Take(p, m)
  PROVE  IInv'
<1>0. Grow
  BY DEF Grow, Take, tables
<1>1. TypeOK /\ RepeatsNeedFaults /\ OneUserAtATime /\ Holds(p) /\ Left(p)
  BY Parts
<1>2. OneUserAtATime'
  BY <1>1 DEF OneUserAtATime, Take, FreeUser, TypeOK
<1>3. TrackedHaveARebate' /\ OnlyRepeatedRefundsAreReported'
  BY <1>0, RebatesStay, StillReported DEF Take, tables
<1>4. RepeatsNeedFaults'
  BY <1>1, RepeatsStay DEF Take, tables, TypeOK
<1>5. Holds(p)' /\ Left(p)'
  BY <1>1, ConstantsAssumption
     DEF Holds, Left, Take, TypeOK, Reporting, GoTo, Results, tables
<1>6. ASSUME NEW q \in Processors, q # p PROVE Holds(q)' /\ Left(q)'
  <2>1. Unchanged(q)
    BY <1>1, <1>6 DEF Unchanged, Take, GoTo, TypeOK
  <2> QED
    BY <1>0, <2>1, OthersHold DEF Take, tables
<1> QED
  BY <1>2, <1>3, <1>4, <1>5, <1>6, Assemble

LEMMA ValidateKeeps ==
  ASSUME IInv, TypeOK', NEW p \in Processors, Validate(p)
  PROVE  IInv'
<1>1. TypeOK /\ Holds(p) /\ Left(p)
  BY Parts
<1>2. CASE Throw(p)
  BY <1>2, ThrowKeeps DEF Validate
<1>3. CASE /\ result' = [result EXCEPT ![p] = Verdict(current[p])]
           /\ GoTo(p, "mark")
           /\ UNCHANGED <<faults, current, refunds, qualifying, reporting>>
  <2>1. /\ Verdict(current[p]) \in Results
        /\ Verdict(current[p]) = "RebateNotFound" \/ RebatesOf(current[p]) # {}
    BY DEF Verdict, Results, RebateNotFound
  <2>2. UNCHANGED <<rebates, rowStatus, refundReportCreated>> /\ current' = current
    BY <1>3 DEF Validate, tables
  <2>3. pc[p] = "findRebates"
    BY DEF Validate
  <2>4. Holds(p)' /\ Left(p)'
    BY <1>1, <1>3, <2>1, <2>2, <2>3
       DEF Holds, Left, GoTo, TypeOK, Reporting, RebatesOf
  <2>5. \A q \in Processors \ {p} : Unchanged(q)
    BY <1>1, <1>3 DEF Unchanged, GoTo, TypeOK
  <2> QED
    BY <1>3, <2>4, <2>5, OnlyOneMoves DEF Validate
<1> QED
  BY <1>2, <1>3 DEF Validate

(* Two processors at work have rows of two clients.                        *)
LEMMA OtherClient ==
  ASSUME IInv, NEW p \in Processors, NEW q \in Processors, p # q,
         pc[p] # "idle", pc[q] # "idle"
  PROVE  current[p].userId # current[q].userId
BY Parts DEF Holds, OneUserAtATime

LEMMA MarkKeeps ==
  ASSUME IInv, TypeOK', Grow, NEW p \in Processors, MarkAsProcessed(p)
  PROVE  IInv'
<1>1. TypeOK /\ RepeatsNeedFaults /\ OneUserAtATime /\ Holds(p) /\ Left(p)
  BY Parts
<1>2. CASE Throw(p) /\ UNCHANGED rowStatus
  BY <1>2, ThrowKeeps DEF MarkAsProcessed, tables
<1>3. CASE rowStatus' = [rowStatus EXCEPT ![current[p]] = result[p]] /\ faults' = faults
  <2>1. pc[p] = "mark" /\ current[p] \in Rows
    BY <1>1 DEF MarkAsProcessed, Holds, TypeOK
  <2>2. ASSUME NEW q \in Processors, q # p, pc[q] \in {"findRebates", "mark"}
        PROVE  rowStatus'[current[q]] = rowStatus[current[q]]
    <3>1. current[q] # current[p]
      BY <2>1, <2>2, OtherClient
    <3>2. current[q] \in Rows
      BY <1>1, <2>2, Parts DEF Holds, TypeOK
    <3> QED
      BY <1>1, <1>3, <3>1, <3>2 DEF TypeOK
  <2>3. \A m \in Rows : rowStatus'[m] = "RefundTrackedForReporting" =>
                          rowStatus[m] = "RefundTrackedForReporting" \/ RebatesOf(m) # {}
    BY <1>1, <1>3, <2>1 DEF Holds, TypeOK
  <2>4. CASE Release(p)
    BY <1>3, <2>1, <2>2, <2>3, <2>4, ReleaseKeeps DEF MarkAsProcessed
  <2>5. CASE /\ GoTo(p, "findRefunds")
             /\ UNCHANGED <<current, result, refunds, qualifying, reporting>>
    <3>1. OneUserAtATime' /\ OnlyRepeatedRefundsAreReported' /\ TrackedHaveARebate'
      BY <1>1, <2>3, <2>5, RebatesStay, StillReported DEF OneUserAtATime, MarkAsProcessed
    <3>2. RepeatsNeedFaults'
      BY <1>1, <1>3, <2>5, RepeatsStay DEF MarkAsProcessed, TypeOK
    <3>3. Holds(p)' /\ Left(p)'
      BY <1>1, <2>1, <2>5 DEF Holds, Left, GoTo, TypeOK, Reporting
    <3>4. ASSUME NEW q \in Processors, q # p PROVE Holds(q)' /\ Left(q)'
      <4>1. Unchanged(q)
        BY <1>1, <2>5, <3>4 DEF Unchanged, GoTo, TypeOK
      <4> QED
        BY <2>2, <3>4, <4>1, OthersHold DEF MarkAsProcessed
    <3> QED
      BY <3>1, <3>2, <3>3, <3>4, Assemble
  <2> QED
    BY <1>3, <2>4, <2>5, <1>2 DEF MarkAsProcessed
<1> QED
  BY <1>2, <1>3 DEF MarkAsProcessed

LEMMA FindRefundsKeeps ==
  ASSUME IInv, TypeOK', NEW p \in Processors, FindRefunds(p)
  PROVE  IInv'
<1>1. TypeOK /\ Holds(p) /\ Left(p)
  BY Parts
<1>2. CASE Throw(p)
  BY <1>2, ThrowKeeps DEF FindRefunds
<1>3. CASE Release(p) /\ UNCHANGED faults
  BY <1>3, ReleaseKeeps DEF FindRefunds, Grow, tables
<1>4. CASE /\ Cardinality(TrackedRefundsOf(current[p])) >= 2
           /\ refunds' = [refunds EXCEPT ![p] = Unflagged(TrackedRefundsOf(current[p]))]
           /\ GoTo(p, "findQualifying")
           /\ UNCHANGED <<faults, current, result, qualifying, reporting>>
  <2>1. pc[p] = "findRefunds"
    BY DEF FindRefunds
  <2>2. UNCHANGED <<rebates, rowStatus, refundReportCreated>>
    BY DEF FindRefunds, tables
  <2>3. \A n \in Unflagged(TrackedRefundsOf(current[p])) :
          /\ ~refundReportCreated[n]
          /\ SameClientOffer(n, current[p])
          /\ n \in TrackedRefundsOf(n)
    BY DEF Unflagged, TrackedRefundsOf, SameClientOffer
  <2>4. Holds(p)'
    BY <1>1, <1>4, <2>1, <2>2
       DEF Holds, GoTo, TypeOK, Reporting, RebatesOf, TrackedRefundsOf
  <2>5. Left(p)'
    BY <1>1, <1>4, <2>1, <2>2, <2>3
       DEF Left, GoTo, TypeOK, Reporting, TrackedRefundsOf, QualifyingOf
  <2>6. \A q \in Processors \ {p} : Unchanged(q)
    BY <1>1, <1>4 DEF Unchanged, GoTo, TypeOK
  <2> QED
    BY <1>4, <2>4, <2>5, <2>6, OnlyOneMoves DEF FindRefunds
<1> QED
  BY <1>2, <1>3, <1>4 DEF FindRefunds

LEMMA FindQualifyingKeeps ==
  ASSUME IInv, TypeOK', NEW p \in Processors, FindQualifying(p)
  PROVE  IInv'
<1>1. TypeOK /\ Holds(p) /\ Left(p)
  BY Parts
<1>2. CASE Throw(p)
  BY <1>2, ThrowKeeps DEF FindQualifying
<1>3. CASE /\ qualifying' = [qualifying EXCEPT ![p] = Unflagged(QualifyingOf(current[p]))]
           /\ GoTo(p, "insert")
           /\ UNCHANGED <<faults, current, result, refunds, reporting>>
  <2>1. pc[p] = "findQualifying"
    BY DEF FindQualifying
  <2>2. UNCHANGED <<rebates, rowStatus, refundReportCreated>>
    BY DEF FindQualifying, tables
  <2>3. \A n \in Unflagged(QualifyingOf(current[p])) :
          /\ ~refundReportCreated[n]
          /\ SameClientOffer(n, current[p])
          /\ n \in QualifyingOf(n)
    BY DEF Unflagged, QualifyingOf, SameClientOffer
  <2>4. Holds(p)'
    BY <1>1, <1>3, <2>1, <2>2
       DEF Holds, GoTo, TypeOK, Reporting, RebatesOf, TrackedRefundsOf
  <2>5. Left(p)'
    BY <1>1, <1>3, <2>1, <2>2, <2>3
       DEF Left, GoTo, TypeOK, Reporting, TrackedRefundsOf, QualifyingOf
  <2>6. \A q \in Processors \ {p} : Unchanged(q)
    BY <1>1, <1>3 DEF Unchanged, GoTo, TypeOK
  <2> QED
    BY <1>3, <2>4, <2>5, <2>6, OnlyOneMoves DEF FindQualifying
<1> QED
  BY <1>2, <1>3 DEF FindQualifying

(* What two processors have left to report is of two clients.              *)
LEMMA LeftApart ==
  ASSUME IInv, NEW p \in Processors, NEW q \in Processors, p # q,
         NEW n \in refunds[p] \cup qualifying[p]
  PROVE  n \notin refunds[q] \cup qualifying[q]
<1>1. Left(p) /\ Left(q)
  BY Parts
<1> SUFFICES ASSUME n \in refunds[q] \cup qualifying[q] PROVE FALSE
  OBVIOUS
<1>2. /\ SameClientOffer(n, current[p]) /\ SameClientOffer(n, current[q])
      /\ pc[p] # "idle" /\ pc[q] # "idle"
  BY <1>1 DEF Left, Reporting
<1> QED
  BY <1>2, OtherClient DEF SameClientOffer

LEMMA InsertKeeps ==
  ASSUME IInv, TypeOK', NEW p \in Processors, InsertReport(p)
  PROVE  IInv'
<1>1. TypeOK /\ RepeatsNeedFaults /\ OneUserAtATime /\ Holds(p) /\ Left(p)
  BY Parts
<1>2. CASE Throw(p) /\ UNCHANGED reports
  BY <1>2, ThrowKeeps DEF InsertReport, tables
<1>3. CASE Release(p) /\ UNCHANGED <<faults, reports>>
  BY <1>3, ReleaseKeeps DEF InsertReport, Grow
<1>4. ASSUME NEW m \in Todo(p), reports' = [reports EXCEPT ![m] = @ + 1], GoTo(p, "flag"),
             reporting' = [reporting EXCEPT ![p] = m],
             UNCHANGED <<faults, current, result, refunds, qualifying>>
      PROVE  IInv'
  <2>1. pc[p] = "insert" /\ UNCHANGED <<rowStatus, refundReportCreated, rebates>>
    BY DEF InsertReport
  <2>2. m \in refunds[p] \cup qualifying[p] /\ m \in Rows
    BY <1>1 DEF Todo, TypeOK
  <2>3. /\ ~refundReportCreated[m] /\ SameClientOffer(m, current[p])
        /\ m \in TrackedRefundsOf(m) \cup QualifyingOf(m)
        /\ Cardinality(TrackedRefundsOf(current[p])) >= 2
    BY <1>1, <2>1, <2>2 DEF Left, Holds, Reporting
  <2>4. Grow
    BY <2>1 DEF Grow
  <2>5. OneUserAtATime' /\ TrackedHaveARebate'
    BY <1>1, <1>4, <2>1, <2>4, RebatesStay DEF OneUserAtATime
  <2>6. \A q \in Processors : reporting[q] # m
    <3> SUFFICES ASSUME NEW q \in Processors, reporting[q] = m PROVE FALSE
      OBVIOUS
    <3>1. m \in refunds[q] \cup qualifying[q] /\ q # p
      BY <1>1, <2>1, <2>2, ConstantsAssumption, Parts DEF Holds
    <3> QED
      BY <2>2, <3>1, LeftApart
  <2>7. RepeatsNeedFaults'
    <3>1. reports[m] <= faults
      BY <1>1, <2>2, <2>3, <2>6 DEF RepeatsNeedFaults
    <3>2. /\ \A n \in Rows \ {m} : reports'[n] = reports[n]
          /\ reports'[m] = reports[m] + 1
          /\ reporting'[p] = m
          /\ \A q \in Processors \ {p} : reporting'[q] = reporting[q]
          /\ reporting[p] = NoRow
      BY <1>1, <1>4, <2>1, <2>2 DEF TypeOK, Holds
    <3> QED
      BY <1>1, <1>4, <2>1, <2>2, <3>1, <3>2, ConstantsAssumption DEF RepeatsNeedFaults, TypeOK
  <2>8. OnlyRepeatedRefundsAreReported'
    <3> SUFFICES ASSUME NEW n \in Rows, reports'[n] > 0
                 PROVE  /\ Cardinality(TrackedRefundsOf(n)) >= 2
                        /\ RebatesOf(n) # {}
                        /\ n \in TrackedRefundsOf(n) \cup QualifyingOf(n)
      BY <2>1 DEF OnlyRepeatedRefundsAreReported, TrackedRefundsOf, RebatesOf, QualifyingOf
    <3>1. CASE n # m
      BY <1>1, <1>4, <2>2, <3>1, Parts DEF OnlyRepeatedRefundsAreReported, TypeOK
    <3>2. CASE n = m
      <4>1. TrackedRefundsOf(m) = TrackedRefundsOf(current[p])
        BY <2>3 DEF TrackedRefundsOf, SameClientOffer
      <4>2. TrackedRefundsOf(m) # {}
        BY <2>3, <4>1, FS_EmptySet
      <4>3. PICK k \in TrackedRefundsOf(m) : TRUE
        BY <4>2
      <4>4. RebatesOf(k) = RebatesOf(m) /\ RebatesOf(k) # {}
        BY <4>3, Parts DEF TrackedRefundsOf, RebatesOf, SameClientOffer, TrackedHaveARebate
      <4> QED
        BY <2>3, <3>2, <4>1, <4>4
    <3> QED
      BY <3>1, <3>2
  <2>9. Holds(p)' /\ Left(p)'
    BY <1>1, <1>4, <2>1, <2>2
       DEF Holds, Left, GoTo, TypeOK, Reporting, TrackedRefundsOf, QualifyingOf
  <2>10. ASSUME NEW q \in Processors, q # p PROVE Holds(q)' /\ Left(q)'
    <3>1. Unchanged(q)
      BY <1>1, <1>4, <2>10 DEF Unchanged, GoTo, TypeOK
    <3> QED
      BY <2>1, <2>4, <2>10, <3>1, OthersHold
  <2> QED
    BY <2>5, <2>7, <2>8, <2>9, <2>10, Assemble
<1> QED
  BY <1>2, <1>3, <1>4 DEF InsertReport

LEMMA FlagKeeps ==
  ASSUME IInv, TypeOK', NEW p \in Processors, FlagReported(p)
  PROVE  IInv'
<1>1. TypeOK /\ RepeatsNeedFaults /\ OneUserAtATime /\ Holds(p) /\ Left(p)
  BY Parts
<1>2. CASE Throw(p) /\ UNCHANGED refundReportCreated
  BY <1>2, ThrowKeeps DEF FlagReported, tables
<1>3. CASE /\ refundReportCreated' = [refundReportCreated EXCEPT ![reporting[p]] = TRUE]
           /\ refunds' = [refunds EXCEPT ![p] = @ \ {reporting[p]}]
           /\ qualifying' = [qualifying EXCEPT ![p] = @ \ {reporting[p]}]
           /\ reporting' = [reporting EXCEPT ![p] = NoRow]
           /\ GoTo(p, "insert")
           /\ UNCHANGED <<faults, current, result>>
  <2>1. pc[p] = "flag" /\ UNCHANGED <<rowStatus, rebates, reports>>
    BY DEF FlagReported
  <2>2. reporting[p] \in refunds[p] \cup qualifying[p] /\ reporting[p] \in Rows
    BY <1>1, <2>1 DEF Holds, TypeOK
  <2>3. Grow
    BY <2>1 DEF Grow
  <2>4. OneUserAtATime' /\ TrackedHaveARebate' /\ OnlyRepeatedRefundsAreReported'
    BY <1>1, <1>3, <2>1, <2>3, RebatesStay, StillReported DEF OneUserAtATime
  <2>5. RepeatsNeedFaults'
    BY <1>1, <1>3, <2>1, <2>2, ConstantsAssumption DEF RepeatsNeedFaults, TypeOK
  <2>6. Holds(p)' /\ Left(p)'
    BY <1>1, <1>3, <2>1, <2>2
       DEF Holds, Left, GoTo, TypeOK, Reporting, TrackedRefundsOf, QualifyingOf
  <2>7. ASSUME NEW q \in Processors, q # p PROVE Holds(q)' /\ Left(q)'
    <3>1. Unchanged(q)
      BY <1>1, <1>3, <2>7 DEF Unchanged, GoTo, TypeOK
    <3>2. ASSUME NEW n \in refunds[q] \cup qualifying[q]
          PROVE  refundReportCreated'[n] = refundReportCreated[n]
      <4>1. n # reporting[p]
        BY <2>2, <2>7, <3>2, LeftApart
      <4> QED
        BY <1>1, <1>3, <4>1 DEF TypeOK
    <3> QED
      BY <2>1, <2>3, <2>7, <3>1, <3>2, OthersHold
  <2> QED
    BY <2>4, <2>5, <2>6, <2>7, Assemble
<1> QED
  BY <1>2, <1>3 DEF FlagReported

LEMMA InvStep == IInv /\ [Next]_vars => IInv'
<1> SUFFICES ASSUME IInv, [Next]_vars PROVE IInv'
  OBVIOUS
<1>1. TypeOK /\ HoldsWhileAtWork
  BY Parts
<1>2. TypeOK' /\ Grow
  BY <1>1, TypeStep, StepGrows
<1>3. ASSUME NEW m \in Rows, Qualify(m) \/ Arrive(m) PROVE IInv'
  BY <1>2, <1>3, QualifyKeeps
<1>4. ASSUME NEW p \in Processors, NEW m \in Rows, Take(p, m) PROVE IInv'
  BY <1>2, <1>4, TakeKeeps
<1>5. ASSUME NEW p \in Processors, Step(p) PROVE IInv'
  BY <1>2, <1>5, ValidateKeeps, MarkKeeps, FindRefundsKeeps, FindQualifyingKeeps,
     InsertKeeps, FlagKeeps
     DEF Step
<1>6. ASSUME NEW p \in Processors, Crash(p) PROVE IInv'
  BY <1>2, <1>6, ThrowKeeps DEF Crash
<1>7. CASE UNCHANGED vars
  <2>1. OneUserAtATime'
    BY <1>7, Parts DEF OneUserAtATime, vars, processorVars
  <2>2. TrackedHaveARebate' /\ OnlyRepeatedRefundsAreReported'
    BY <1>2, <1>7, RebatesStay, StillReported DEF vars, tables
  <2>3. RepeatsNeedFaults'
    BY <1>1, <1>2, <1>7, Parts, RepeatsStay DEF vars, tables, processorVars, TypeOK
  <2>4. \A p \in Processors : Holds(p)' /\ Left(p)'
    BY <1>2, <1>7, OthersHold DEF Unchanged, vars, tables, processorVars
  <2> QED
    BY <1>2, <2>1, <2>2, <2>3, <2>4, Assemble
<1> QED
  BY <1>3, <1>4, <1>5, <1>6, <1>7 DEF Next

----------------------------------------------------------------------------
(* The inductive invariant.                                                *)
THEOREM Inductive == Spec => []IInv
BY InitInv, InvStep, PTL DEF Spec

(* Every variable keeps its type.                                          *)
THEOREM TypeCorrect == Spec => []TypeOK
<1>1. IInv => TypeOK
  BY DEF IInv
<1> QED
  BY <1>1, Inductive, PTL

(* A row in the refund report is a tracked refund of a client and offer    *)
(* with two of them, or earned a rebate of these.                          *)
THEOREM OnlyRepeated == Spec => []OnlyRepeatedRefundsAreReported
<1>1. IInv => OnlyRepeatedRefundsAreReported
  BY DEF IInv
<1> QED
  BY <1>1, Inductive, PTL

(* A row is reported once, and at most once more for every fault.          *)
THEOREM Once == Spec => []ReportedOnceAndPerFault
<1>1. IInv => ReportedOnceAndPerFault
  BY DEF IInv, RepeatsNeedFaults, ReportedOnceAndPerFault
<1> QED
  BY <1>1, Inductive, PTL

----------------------------------------------------------------------------
(* What is reported leaves nothing out.                                    *)

Complete(p) ==
  /\ Reporting(p) =>
       \A n \in TrackedRefundsOf(current[p]) : refundReportCreated[n] \/ n \in refunds[p]
  /\ pc[p] \in {"insert", "flag"} =>
       \A n \in QualifyingOf(current[p]) : refundReportCreated[n] \/ n \in qualifying[p]

FlagsStay == \A n \in Rows : refundReportCreated[n] => refundReportCreated'[n]

(* No row of m's client and offer is tracked or qualifies from now on.     *)
NoneIsAdded(m) ==
  \A n \in Rows : SameClientOffer(n, m) => \/ rowStatus'[n] = rowStatus[n]
                                           \/ rowStatus'[n] \in {"Pending"}

LEMMA OthersComplete ==
  ASSUME TypeOK, NEW p \in Processors, Complete(p), Unchanged(p), FlagsStay,
         NoneIsAdded(current[p])
  PROVE  Complete(p)'
BY DEF Complete, Unchanged, FlagsStay, NoneIsAdded, Reporting, TrackedRefundsOf, QualifyingOf, TypeOK

LEMMA FlagsAndRows ==
  ASSUME IInv, [Next]_vars
  PROVE  FlagsStay
<1>1. TypeOK
  BY Parts
<1>2. ASSUME NEW p \in Processors, FlagReported(p) PROVE FlagsStay
  BY <1>1, <1>2 DEF FlagReported, FlagsStay, TypeOK
<1>3. CASE UNCHANGED refundReportCreated
  BY <1>3 DEF FlagsStay
<1> QED
  BY <1>2, <1>3
     DEF Next, Step, Crash, Qualify, Arrive, Take, Validate, MarkAsProcessed, FindRefunds,
         FindQualifying, InsertReport, tables, vars

(* Nobody else adds to the rows of a client that a processor works for.    *)
LEMMA NoneIsAddedByOthers ==
  ASSUME IInv, [Next]_vars, NEW p \in Processors, Reporting(p)
  PROVE  NoneIsAdded(current[p])
<1>1. TypeOK /\ HoldsWhileAtWork /\ current[p] # NoRow /\ pc[p] # "idle"
  BY Parts DEF Reporting, HoldsWhileAtWork
<1>2. ASSUME NEW m \in Rows, Qualify(m) PROVE NoneIsAdded(current[p])
  BY <1>1, <1>2 DEF Qualify, FreeUser, SameClientOffer, NoneIsAdded, TypeOK
<1>3. ASSUME NEW m \in Rows, Arrive(m) PROVE NoneIsAdded(current[p])
  BY <1>1, <1>3 DEF Arrive, NoneIsAdded, TypeOK
<1>4. ASSUME NEW q \in Processors, MarkAsProcessed(q) PROVE NoneIsAdded(current[p])
  <2>1. q # p /\ pc[q] # "idle"
    BY <1>4 DEF MarkAsProcessed, Reporting
  <2>2. current[q].userId # current[p].userId
    BY <1>1, <2>1, OtherClient
  <2> QED
    BY <1>1, <1>4, <2>2 DEF MarkAsProcessed, SameClientOffer, NoneIsAdded, TypeOK
<1>5. CASE UNCHANGED rowStatus
  BY <1>5 DEF NoneIsAdded
<1> QED
  BY <1>2, <1>3, <1>4, <1>5
     DEF Next, Step, Crash, Take, Validate, FindRefunds, FindQualifying, InsertReport,
         FlagReported, tables, vars

LEMMA OneMoves ==
  ASSUME TypeOK, NEW p \in Processors, NEW q \in Processors, p # q,
         \/ \E m \in Rows : Take(q, m)
         \/ Step(q) \/ Crash(q)
  PROVE  Unchanged(p)
BY DEF Step, Crash, Take, Validate, MarkAsProcessed, FindRefunds, FindQualifying, InsertReport,
       FlagReported, Throw, Release, GoTo, Unchanged, TypeOK

LEMMA CompleteStep == IInv /\ NothingLeftOut /\ [Next]_vars => NothingLeftOut'
<1> SUFFICES ASSUME IInv, NothingLeftOut, [Next]_vars, NEW p \in Processors
             PROVE  Complete(p)'
  BY DEF NothingLeftOut, Complete
<1>1. TypeOK /\ Complete(p) /\ FlagsStay
  BY Parts, FlagsAndRows DEF NothingLeftOut, Complete
<1>2. CASE Unchanged(p)
  <2>1. CASE Reporting(p)
    BY <1>1, <1>2, <2>1, NoneIsAddedByOthers, OthersComplete
  <2>2. CASE ~Reporting(p)
    BY <1>2, <2>2 DEF Unchanged, Complete, Reporting
  <2> QED
    BY <2>1, <2>2
<1>3. CASE ~Reporting(p)'
  BY <1>3 DEF Complete, Reporting
<1>4. CASE FindRefunds(p) /\ Reporting(p)'
  BY <1>1, <1>4
     DEF FindRefunds, Throw, Release, GoTo, Complete, Reporting, Unflagged, TrackedRefundsOf,
         TypeOK, tables
<1>5. CASE FindQualifying(p) /\ Reporting(p)'
  BY <1>1, <1>5
     DEF FindQualifying, Throw, Release, GoTo, Complete, Reporting, Unflagged,
         TrackedRefundsOf, QualifyingOf, TypeOK, tables
<1>6. CASE InsertReport(p) /\ Reporting(p)'
  BY <1>1, <1>6
     DEF InsertReport, Throw, Release, GoTo, Complete, Reporting, TrackedRefundsOf,
         QualifyingOf, TypeOK
<1>7. CASE FlagReported(p) /\ Reporting(p)'
  BY <1>1, <1>7
     DEF FlagReported, Throw, Release, GoTo, Complete, Reporting, TrackedRefundsOf,
         QualifyingOf, TypeOK
<1>8. CASE Validate(p) \/ MarkAsProcessed(p) \/ Crash(p) \/ \E m \in Rows : Take(p, m)
  BY <1>1, <1>3, <1>8
     DEF Validate, MarkAsProcessed, Crash, Take, Throw, Release, GoTo, Reporting, TypeOK
<1>9. ASSUME NEW q \in Processors, q # p,
             (\E m \in Rows : Take(q, m)) \/ Step(q) \/ Crash(q)
      PROVE  Complete(p)'
  BY <1>1, <1>2, <1>9, OneMoves
<1>10. CASE (\E m \in Rows : Qualify(m) \/ Arrive(m)) \/ UNCHANGED vars
  BY <1>2, <1>10 DEF Qualify, Arrive, Unchanged, vars, processorVars
<1> QED
  BY <1>3, <1>4, <1>5, <1>6, <1>7, <1>8, <1>9, <1>10 DEF Next, Step

(* A row that nobody sees to.                                              *)
Waits(n) ==
  /\ rowStatus[n] = "RefundTrackedForReporting"
  /\ ~refundReportCreated[n]
  /\ Cardinality(TrackedRefundsOf(n)) >= 2

SeesTo(p, n) ==
  /\ pc[p] = "findRefunds" \/ Reporting(p)
  /\ SameClientOffer(n, current[p])

LEMMA SeenToStep == IInv /\ NothingLeftOut /\ SeenTo /\ [Next]_vars => SeenTo'
<1> SUFFICES ASSUME IInv, NothingLeftOut, SeenTo, [Next]_vars, faults' = 0,
                    NEW n \in Rows, Waits(n)'
             PROVE  \E p \in Processors : SeesTo(p, n)'
  BY DEF SeenTo, Waits, SeesTo
<1>1. TypeOK /\ HoldsWhileAtWork /\ FlagsStay /\ ~refundReportCreated[n]
  BY Parts, FlagsAndRows DEF FlagsStay, Waits
<1>2. faults = 0 /\ ~Fault
  BY <1>1 DEF Fault, Next, Qualify, Arrive, Take, Step, Crash, Validate, MarkAsProcessed,
              FindRefunds, FindQualifying, InsertReport, FlagReported, Throw, TypeOK, vars
<1>3. ASSUME NEW p \in Processors, MarkAsProcessed(p)
      PROVE  \E q \in Processors : SeesTo(q, n)'
  <2>1. /\ pc[p] = "mark" /\ current[p] \in Rows
        /\ rowStatus' = [rowStatus EXCEPT ![current[p]] = result[p]]
        /\ rowStatus[current[p]] = "Pending"
    BY <1>1, <1>2, <1>3 DEF MarkAsProcessed, Throw, HoldsWhileAtWork, TypeOK
  <2>2. CASE result[p] = "RefundTrackedForReporting" /\ SameClientOffer(n, current[p])
    BY <1>1, <1>2, <1>3, <2>2
       DEF MarkAsProcessed, Throw, GoTo, SeesTo, SameClientOffer, TypeOK
  <2>3. CASE ~(result[p] = "RefundTrackedForReporting" /\ SameClientOffer(n, current[p]))
    <3>1. TrackedRefundsOf(n)' = TrackedRefundsOf(n)
      BY <1>1, <2>1, <2>3 DEF TrackedRefundsOf, SameClientOffer, TypeOK
    <3>2. rowStatus[n] = "RefundTrackedForReporting"
      BY <1>1, <2>1, <2>3 DEF Waits, SameClientOffer, TypeOK
    <3>3. PICK q \in Processors : SeesTo(q, n)
      BY <1>1, <1>2, <3>1, <3>2 DEF SeenTo, SeesTo, Waits
    <3>4. q # p
      BY <2>1, <3>3 DEF SeesTo, Reporting
    <3>5. Unchanged(q)
      BY <1>1, <1>3, <3>4, OneMoves DEF Step
    <3> QED
      BY <3>3, <3>5 DEF SeesTo, Unchanged, Reporting
  <2> QED
    BY <2>2, <2>3
<1>4. ASSUME rowStatus' = rowStatus \/ \E m \in Rows : Qualify(m) \/ Arrive(m)
      PROVE  Waits(n) /\ \E p \in Processors : SeesTo(p, n)
  <2>1. /\ TrackedRefundsOf(n)' = TrackedRefundsOf(n)
        /\ rowStatus[n] = "RefundTrackedForReporting"
    BY <1>1, <1>4 DEF TrackedRefundsOf, Qualify, Arrive, Waits, TypeOK
  <2> QED
    BY <1>1, <1>2, <2>1 DEF Waits, SeenTo, SeesTo
<1>5. ASSUME NEW p \in Processors, FindRefunds(p)
      PROVE  \E q \in Processors : SeesTo(q, n)'
  <2>1. PICK q \in Processors : SeesTo(q, n)
    BY <1>4, <1>5 DEF FindRefunds, tables
  <2>2. CASE q # p
    BY <1>1, <1>5, <2>1, <2>2, OneMoves DEF Step, SeesTo, Unchanged, Reporting
  <2>3. CASE q = p
    <3>1. TrackedRefundsOf(n) = TrackedRefundsOf(current[p])
      BY <2>1, <2>3 DEF SeesTo, SameClientOffer, TrackedRefundsOf
    <3>2. Cardinality(TrackedRefundsOf(current[p])) >= 2
      BY <1>4, <1>5, <3>1 DEF FindRefunds, tables, Waits
    <3>3. ~(Cardinality(TrackedRefundsOf(current[p])) < 2)
      <4>1. Cardinality(TrackedRefundsOf(current[p])) \in Nat
        BY ConstantsAssumption, FS_Subset, FS_CardinalityType DEF TrackedRefundsOf
      <4> QED
        BY <3>2, <4>1
    <3>4. pc' = [pc EXCEPT ![p] = "findQualifying"] /\ current' = current
      BY <1>2, <1>5, <3>3 DEF FindRefunds, Throw, GoTo
    <3> QED
      BY <1>1, <2>1, <2>3, <3>4 DEF SeesTo, Reporting, TypeOK
  <2> QED
    BY <2>2, <2>3
<1>6. ASSUME NEW p \in Processors, InsertReport(p)
      PROVE  \E q \in Processors : SeesTo(q, n)'
  <2>1. PICK q \in Processors : SeesTo(q, n)
    BY <1>4, <1>6 DEF InsertReport
  <2>2. CASE q # p
    BY <1>1, <1>6, <2>1, <2>2, OneMoves DEF Step, SeesTo, Unchanged, Reporting
  <2>3. CASE q = p
    <3>1. n \in TrackedRefundsOf(current[p]) /\ Reporting(p)
      BY <1>4, <1>6, <2>1, <2>3 DEF InsertReport, SeesTo, Waits, TrackedRefundsOf, Reporting
    <3>2. n \in refunds[p]
      BY <1>1, <3>1 DEF NothingLeftOut
    <3>3. Todo(p) # {}
      BY <3>2 DEF Todo
    <3>4. pc' = [pc EXCEPT ![p] = "flag"] /\ current' = current
      BY <1>2, <1>6, <3>3 DEF InsertReport, Throw, GoTo
    <3> QED
      BY <1>1, <2>1, <2>3, <3>4 DEF SeesTo, Reporting, TypeOK
  <2> QED
    BY <2>2, <2>3
<1>7. ASSUME NEW p \in Processors, FindQualifying(p) \/ FlagReported(p)
      PROVE  \E q \in Processors : SeesTo(q, n)'
  <2>1. PICK q \in Processors : SeesTo(q, n)
    BY <1>4, <1>7 DEF FindQualifying, FlagReported, tables
  <2> QED
    BY <1>1, <1>2, <1>7, <2>1
       DEF FindQualifying, FlagReported, Throw, GoTo, SeesTo, Reporting, TypeOK
<1>8. ASSUME NEW p \in Processors, Validate(p) \/ \E m \in Rows : Take(p, m)
      PROVE  \E q \in Processors : SeesTo(q, n)'
  <2>1. PICK q \in Processors : SeesTo(q, n)
    BY <1>4, <1>8 DEF Validate, Take, tables
  <2>2. q # p
    BY <1>8, <2>1 DEF Validate, Take, SeesTo, Reporting
  <2> QED
    BY <1>1, <1>8, <2>1, <2>2, OneMoves DEF Step, SeesTo, Unchanged, Reporting
<1>9. CASE (\E m \in Rows : Qualify(m) \/ Arrive(m)) \/ UNCHANGED vars
  <2>1. PICK q \in Processors : SeesTo(q, n)
    BY <1>4, <1>9 DEF vars, tables
  <2> QED
    BY <1>9, <2>1 DEF Qualify, Arrive, SeesTo, Reporting, vars, processorVars
<1>10. \A p \in Processors : ~Crash(p)
  BY <1>2 DEF Crash, Throw
<1> QED
  BY <1>3, <1>5, <1>6, <1>7, <1>8, <1>9, <1>10 DEF Next, Step

(* A processor has in hand whatever of its client is unreported, and where *)
(* nothing failed, two tracked refunds have somebody who reports them.     *)
THEOREM LeavesNothingOut == Spec => [](IInv /\ NothingLeftOut /\ SeenTo)
<1>1. Init => NothingLeftOut /\ SeenTo
  BY DEF Init, NothingLeftOut, SeenTo, Reporting
<1>2. IInv /\ NothingLeftOut /\ SeenTo /\ [Next]_vars => (IInv /\ NothingLeftOut /\ SeenTo)'
  BY InvStep, CompleteStep, SeenToStep
<1> QED
  BY InitInv, <1>1, <1>2, PTL DEF Spec

(* Where nothing failed and nobody is at work, the tracked refunds of a    *)
(* client and offer with two of them are all in the report, once.          *)
THEOREM RepeatedAreReported == Spec => []RepeatedRefundsAreReported
<1>1. ASSUME IInv, SeenTo PROVE RepeatedRefundsAreReported
  <2> SUFFICES ASSUME Idle, faults = 0, NEW m \in Rows,
                      Cardinality(TrackedRefundsOf(m)) >= 2, NEW n \in TrackedRefundsOf(m)
               PROVE  reports[n] = 1
    BY DEF RepeatedRefundsAreReported
  <2>1. n \in Rows /\ rowStatus[n] = "RefundTrackedForReporting"
    BY DEF TrackedRefundsOf
  <2>2. TrackedRefundsOf(n) = TrackedRefundsOf(m)
    BY DEF TrackedRefundsOf, SameClientOffer
  <2>3. refundReportCreated[n]
    BY <1>1, <2>1, <2>2 DEF SeenTo, Idle, Reporting
  <2> QED
    BY <1>1, <2>1, <2>3 DEF IInv, TypeOK, RepeatsNeedFaults
<1> QED
  BY <1>1, LeavesNothingOut, PTL

(* A report that comes to its end without a fault has flagged every refund *)
(* and every qualifying transaction of its client and offer.               *)
THEOREM ReportsComplete == Spec => ReportsAreComplete
<1>1. ASSUME IInv, NothingLeftOut, [Next]_vars, NEW p \in Processors, pc[p] = "insert",
             pc'[p] = "idle", faults' = faults,
             NEW n \in TrackedRefundsOf(current[p]) \cup QualifyingOf(current[p])
      PROVE  refundReportCreated[n]
  <2>1. TypeOK
    BY <1>1, Parts
  <2>2. ~Fault
    BY <1>1, <2>1 DEF Fault, TypeOK
  <2>3. InsertReport(p)
    <3>1. ~Unchanged(p)
      BY <1>1 DEF Unchanged
    <3>2. ASSUME NEW q \in Processors, (\E m \in Rows : Take(q, m)) \/ Step(q) \/ Crash(q)
          PROVE  q = p
      BY <2>1, <3>1, <3>2, OneMoves
    <3>3. ~((\E m \in Rows : Qualify(m) \/ Arrive(m)) \/ UNCHANGED vars)
      BY <3>1 DEF Qualify, Arrive, Unchanged, vars, processorVars
    <3>4. (\E m \in Rows : Take(p, m)) \/ Step(p) \/ Crash(p)
      BY <1>1, <3>2, <3>3 DEF Next
    <3> QED
      BY <1>1, <2>2, <3>4
         DEF Take, Step, Crash, Throw, Validate, MarkAsProcessed, FindRefunds, FindQualifying,
             FlagReported
  <2>4. Todo(p) = {}
    BY <1>1, <2>1, <2>2, <2>3 DEF InsertReport, Throw, GoTo, TypeOK
  <2> QED
    BY <1>1, <2>4 DEF NothingLeftOut, Todo, Reporting
<1>2. IInv /\ NothingLeftOut /\ [Next]_vars =>
        [\A p \in Processors :
           pc[p] = "insert" /\ pc'[p] = "idle" /\ faults' = faults =>
             \A n \in TrackedRefundsOf(current[p]) \cup QualifyingOf(current[p]) :
               refundReportCreated[n]]_vars
  BY <1>1
<1> QED
  BY <1>2, LeavesNothingOut, PTL DEF Spec, ReportsAreComplete
=============================================================================
