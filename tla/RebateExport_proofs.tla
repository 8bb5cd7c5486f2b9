------------------------ MODULE RebateExport_proofs ------------------------
(***************************************************************************)
(* For any rebates, any processes and any number of faults: the types, and,*)
(* where exports do not overlap, that the export keeps the promise of      *)
(* RebateDelivery and reports what it marks.                               *)
(***************************************************************************)
EXTENDS RebateExport, TLAPS

USE DEF RebatesPendingExportStart, RebatesToExport, RebatesToReport, RebatesPendingExportEnd,
        ResetRebates, UnfulfilledReport, RebateJournal

(* The move of all rebates of one status to another.                       *)
LEMMA MoveStatus ==
  ASSUME TypeOK, NEW from, NEW to, status' = Move(from, to)
  PROVE  \A r \in Rebates : status'[r] = IF status[r] = from THEN to ELSE status[r]
BY DEF Move

LEMMA InitInv == Init => IInv
BY ConstantsAssumption
   DEF Init, IInv, TypeOK, ExportDetails, Alone, CachedAreStarted, UploadedThenReported, MarkedWereUploaded,
       UnissuedAreNotUploaded, MarkedAreReported, CompleteMeansMarked, With

(* An exporter that throws goes on to record the failure.                  *)
LEMMA ThrowGoes ==
  ASSUME TypeOK, NEW e \in Exporters, Throw(e)
  PROVE  /\ pc' = [pc EXCEPT ![e] = IF uploadedToSFTP[e] THEN "recordFailure" ELSE "reset"]
         /\ faults' \in 0 .. MaxFaults
BY ConstantsAssumption DEF Throw, Go, Fault, TypeOK

LEMMA TypeStep == TypeOK /\ [Next]_vars => TypeOK'
<1> SUFFICES ASSUME TypeOK, [Next]_vars PROVE TypeOK'
  OBVIOUS
<1> USE DEF TypeOK, rebateVars, fileVars
<1>1. Fault => faults' \in 0 .. MaxFaults
  BY ConstantsAssumption DEF Fault
<1>2. ASSUME NEW r \in Rebates, Issue(r) PROVE TypeOK'
  BY <1>2 DEF Issue, exporterVars
<1>3. CASE NextDay
  BY <1>1, <1>3 DEF NextDay
<1>4. ASSUME NEW e \in Exporters, Start(e) PROVE TypeOK'
  BY <1>1, <1>4 DEF Start, ExportDetails, Go, Move
<1>5. ASSUME NEW e \in Exporters, Select(e) PROVE TypeOK'
  BY <1>5, ThrowGoes DEF Select, Go, With
<1>6. ASSUME NEW e \in Exporters, RecordExportStart(e) PROVE TypeOK'
  BY <1>6, ThrowGoes DEF RecordExportStart, ExportDetails, Go
<1>7. ASSUME NEW e \in Exporters, GenerateFiles(e) PROVE TypeOK'
  BY <1>7, ThrowGoes DEF GenerateFiles, Go
<1>8. ASSUME NEW e \in Exporters, Upload(e) PROVE TypeOK'
  <2>1. ASSUME Put(e) PROVE /\ todaysFile' \subseteq Rebates /\ earlierFiles' \subseteq Rebates
                            /\ uploads' \in [Rebates -> Nat]
    BY <2>1 DEF Put
  <2>2. ASSUME PutInPart(e) PROVE /\ todaysFile' \subseteq Rebates /\ earlierFiles' \subseteq Rebates
                                  /\ uploads' \in [Rebates -> Nat]
    BY <2>2 DEF PutInPart
  <2> QED
    BY <1>8, <2>1, <2>2, ThrowGoes DEF Upload, Go
<1>9. ASSUME NEW e \in Exporters, FindForReports(e) PROVE TypeOK'
  BY <1>9, ThrowGoes DEF FindForReports, Go, With
<1>10. ASSUME NEW e \in Exporters, ReportUnfulfilled(e) PROVE TypeOK'
  BY <1>10, ThrowGoes DEF ReportUnfulfilled, Go
<1>11. ASSUME NEW e \in Exporters, WriteJournal(e) PROVE TypeOK'
  <2>1. journal' \in [Rebates -> Nat]
    BY <1>11 DEF WriteJournal
  <2>2. /\ faults' \in 0 .. MaxFaults
        /\ \E next \in {"report", "reset", "recordFailure"} : pc' = [pc EXCEPT ![e] = next]
        /\ todo' \in [Exporters -> SUBSET Rebates]
        /\ current' \in [Exporters -> SUBSET Rebates]
    BY <1>11, ThrowGoes DEF WriteJournal, Go
  <2> QED
    BY <1>11, <2>1, <2>2 DEF WriteJournal
<1>12. ASSUME NEW e \in Exporters, UpdateExportedRebates(e) PROVE TypeOK'
  BY <1>12, ThrowGoes DEF UpdateExportedRebates, Go, Move, With
<1>13. ASSUME NEW e \in Exporters, Publish(e) PROVE TypeOK'
  BY <1>1, <1>13, ThrowGoes DEF Publish, Go
<1>14. ASSUME NEW e \in Exporters, RecordComplete(e) PROVE TypeOK'
  BY <1>14, ThrowGoes DEF RecordComplete, ExportDetails, Go
<1>15. ASSUME NEW e \in Exporters, ResetRebatesOnError(e) PROVE TypeOK'
  BY <1>1, <1>15 DEF ResetRebatesOnError, Go, Move
<1>16. ASSUME NEW e \in Exporters, RecordFailure(e) PROVE TypeOK'
  BY <1>1, <1>16 DEF RecordFailure, ExportDetails, Go
<1>17. ASSUME NEW e \in Exporters, Crash(e) PROVE TypeOK'
  BY <1>1, <1>17 DEF Crash, Go
<1>18. CASE UNCHANGED vars
  BY <1>18 DEF vars, exporterVars
<1> QED
  BY <1>2, <1>3, <1>4, <1>5, <1>6, <1>7, <1>8, <1>9, <1>10, <1>11, <1>12, <1>13, <1>14,
     <1>15, <1>16, <1>17, <1>18 DEF Next, Step

----------------------------------------------------------------------------
(* While one exporter is at work, no other is.                             *)
LEMMA OnlyOneActs ==
  ASSUME ~Overlapping, TypeOK, Alone, NEW e \in Exporters, Start(e) \/ Step(e) \/ Crash(e)
  PROVE  /\ pc' = [pc EXCEPT ![e] = pc'[e]]
         /\ \A d \in Exporters \ {e} : pc[d] = "off" /\ pc'[d] = "off"
<1>1. pc' = [pc EXCEPT ![e] = pc'[e]]
  BY DEF TypeOK, Start, Step, Crash, Go, Throw, Select, RecordExportStart, GenerateFiles, Upload,
     FindForReports, ReportUnfulfilled, WriteJournal, UpdateExportedRebates, Publish,
     RecordComplete, ResetRebatesOnError, RecordFailure
<1>2. pc[e] # "off" \/ \A d \in Exporters : pc[d] = "off"
  BY DEF Start, Step, Crash, Select, RecordExportStart, GenerateFiles, Upload, FindForReports,
     ReportUnfulfilled, WriteJournal, UpdateExportedRebates, Publish, RecordComplete,
     ResetRebatesOnError, RecordFailure
<1>3. \A d \in Exporters \ {e} : pc[d] = "off"
  BY <1>2 DEF Alone
<1> QED
  BY <1>1, <1>3 DEF TypeOK

LEMMA AloneStep == ~Overlapping /\ TypeOK /\ Alone /\ [Next]_vars => Alone'
<1> SUFFICES ASSUME ~Overlapping, TypeOK, Alone, [Next]_vars PROVE Alone'
  OBVIOUS
<1>1. ASSUME NEW e \in Exporters, Start(e) \/ Step(e) \/ Crash(e) PROVE Alone'
  BY <1>1, OnlyOneActs DEF Alone
<1>2. ASSUME UNCHANGED pc PROVE Alone'
  BY <1>2 DEF Alone
<1> QED
  BY <1>1, <1>2 DEF Next, Issue, NextDay, vars, exporterVars

(* What IInv says of exporter e, and of the rebates.                       *)
Sound(e) ==
  /\ pc[e] = "select" => exportDetails[e] = "none"
  /\ pc[e] \in {"recordStart", "generate", "upload", "findForReports", "report", "journal"} =>
       cachedRebates[e] = With("ExtractionStarted")
  /\ pc[e] \in {"publish", "recordEnd"} => cachedRebates[e] \subseteq With("PendingFulfillment")
  /\ pc[e] \in {"findForReports", "report", "journal"} =>
       \A r \in cachedRebates[e] : uploads[r] > 0
  /\ pc[e] \in {"report", "journal"} =>
       \A r \in cachedRebates[e] \ todo[e] : unfulfilled[r] > 0 /\ journal[r] > 0
  /\ pc[e] = "journal" => \A r \in current[e] : unfulfilled[r] > 0
  /\ exportDetails[e] = "Complete" => cachedRebates[e] \subseteq With("PendingFulfillment")

Reported == MarkedWereUploaded /\ MarkedAreReported

LEMMA IInvIsSound ==
  IInv <=> /\ TypeOK /\ Alone /\ UnissuedAreNotUploaded /\ Reported
           /\ \A e \in Exporters : Sound(e)
BY DEF IInv, CachedAreStarted, UploadedThenReported, CompleteMeansMarked, Sound, Reported

(* Nothing is taken back: once PendingFulfillment, always so, and rows of  *)
(* reports and files that were uploaded stay.                              *)
LEMMA Grows ==
  ASSUME TypeOK, [Next]_vars
  PROVE  /\ With("PendingFulfillment") \subseteq With("PendingFulfillment")'
         /\ \A r \in Rebates : /\ uploads[r] > 0 => uploads'[r] > 0
                               /\ unfulfilled[r] > 0 => unfulfilled'[r] > 0
                               /\ journal[r] > 0 => journal'[r] > 0
<1> USE DEF TypeOK
<1>1. UNCHANGED status \/ (\E r \in Rebates : Issue(r))
        \/ (\E from \in {"PendingExtraction", "ExtractionStarted"}, to \in
              {"PendingExtraction", "ExtractionStarted", "PendingFulfillment"} :
              status' = Move(from, to))
  BY DEF Next, Step, NextDay, Start, Crash, Select, RecordExportStart, GenerateFiles, Upload,
     FindForReports, ReportUnfulfilled, WriteJournal, UpdateExportedRebates, Publish,
     RecordComplete, ResetRebatesOnError, RecordFailure, vars, rebateVars
<1>2. With("PendingFulfillment") \subseteq With("PendingFulfillment")'
  BY <1>1, MoveStatus DEF With, Issue
<1>3. \A r \in Rebates : uploads'[r] \in {uploads[r], uploads[r] + 1}
  BY DEF Next, Step, Issue, NextDay, Start, Crash, Select, RecordExportStart, GenerateFiles,
     Upload, Put, PutInPart, FindForReports, ReportUnfulfilled, WriteJournal, UpdateExportedRebates, Publish,
     RecordComplete, ResetRebatesOnError, RecordFailure, vars, rebateVars
<1>4. \A r \in Rebates : unfulfilled'[r] \in {unfulfilled[r], unfulfilled[r] + 1}
  BY DEF Next, Step, Issue, NextDay, Start, Crash, Select, RecordExportStart, GenerateFiles,
     Upload, FindForReports, ReportUnfulfilled, WriteJournal, UpdateExportedRebates, Publish,
     RecordComplete, ResetRebatesOnError, RecordFailure, vars, rebateVars
<1>5. \A r \in Rebates : journal'[r] \in {journal[r], journal[r] + 1}
  BY DEF Next, Step, Issue, NextDay, Start, Crash, Select, RecordExportStart, GenerateFiles,
     Upload, FindForReports, ReportUnfulfilled, WriteJournal, UpdateExportedRebates, Publish,
     RecordComplete, ResetRebatesOnError, RecordFailure, vars, rebateVars
<1> QED
  BY <1>2, <1>3, <1>4, <1>5

----------------------------------------------------------------------------
(* An exporter that is off stays sound while another one acts.             *)
LEMMA OthersStaySound ==
  ASSUME ~Overlapping, TypeOK, Alone, [Next]_vars,
         NEW e \in Exporters, Start(e) \/ Step(e) \/ Crash(e),
         NEW d \in Exporters \ {e}, Sound(d)
  PROVE  Sound(d)'
<1>1. pc'[d] = "off"
  BY OnlyOneActs
<1>2. cachedRebates'[d] = cachedRebates[d] /\ exportDetails'[d] = exportDetails[d]
  BY DEF TypeOK, Start, Step, Crash, Select, RecordExportStart, GenerateFiles, Upload,
     FindForReports, ReportUnfulfilled, WriteJournal, UpdateExportedRebates, Publish,
     RecordComplete, ResetRebatesOnError, RecordFailure
<1> QED
  BY <1>1, <1>2, Grows DEF Sound

LEMMA SoundStep ==
  ASSUME ~Overlapping, IInv, [Next]_vars, NEW e \in Exporters PROVE Sound(e)'
<1> DEFINE Goal == Sound(e)'
<1>1. TypeOK /\ Alone /\ Sound(e) /\ Reported
  BY IInvIsSound
<1> USE <1>1, Grows
\* An exporter that is off, resets or records a failure has nothing to keep but its
\* finished export.
<1>2. ASSUME pc'[e] \in {"off", "reset", "recordFailure"},
             exportDetails'[e] = "Complete" =>
               cachedRebates'[e] \subseteq With("PendingFulfillment")'
      PROVE  Goal
  BY <1>2 DEF Sound
<1>3. ASSUME exportDetails[e] = "Complete", cachedRebates'[e] = cachedRebates[e]
      PROVE  cachedRebates'[e] \subseteq With("PendingFulfillment")'
  BY <1>3 DEF Sound
<1>4. ASSUME NEW next, Go(e, next) PROVE pc'[e] = next
  BY <1>4 DEF Go, TypeOK
<1>5. ASSUME Throw(e), cachedRebates'[e] = cachedRebates[e], exportDetails'[e] = exportDetails[e]
      PROVE  Goal
  BY <1>2, <1>3, <1>5, ThrowGoes DEF TypeOK
<1>6. ASSUME Start(e) PROVE Goal
  BY <1>4, <1>6 DEF Start, Sound, TypeOK
<1>7. ASSUME Select(e) PROVE Goal
  <2>1. CASE Throw(e) /\ UNCHANGED cachedRebates
    BY <1>5, <1>7, <2>1 DEF Select
  <2>2. CASE /\ cachedRebates' = [cachedRebates EXCEPT ![e] = With("ExtractionStarted")]
             /\ Go(e, IF With("ExtractionStarted") = {} THEN "off" ELSE "recordStart")
    <3>1. pc'[e] \in {"off", "recordStart"} /\ exportDetails'[e] = "none"
      BY <1>4, <1>7, <2>2 DEF Select, Sound
    <3>2. cachedRebates'[e] = With("ExtractionStarted")'
      BY <1>7, <2>2 DEF Select, TypeOK, With, rebateVars
    <3> QED
      BY <3>1, <3>2 DEF Sound
  <2> QED
    BY <1>7, <2>1, <2>2 DEF Select
<1>8. ASSUME RecordExportStart(e) PROVE Goal
  <2>1. CASE Throw(e) /\ UNCHANGED exportDetails
    BY <1>5, <1>8, <2>1 DEF RecordExportStart
  <2>2. CASE exportDetails' = [exportDetails EXCEPT ![e] = "InProgress"] /\ Go(e, "generate")
    BY <1>4, <1>8, <2>2 DEF RecordExportStart, Sound, With, rebateVars, TypeOK
  <2> QED
    BY <1>8, <2>1, <2>2 DEF RecordExportStart
<1>9. ASSUME GenerateFiles(e) PROVE Goal
  <2>1. CASE Throw(e)
    BY <1>5, <1>9, <2>1 DEF GenerateFiles
  <2>2. CASE Go(e, "upload")
    BY <1>4, <1>9, <2>2 DEF GenerateFiles, Sound, With, rebateVars
  <2> QED
    BY <1>9, <2>1, <2>2 DEF GenerateFiles
<1>10. ASSUME Upload(e) PROVE Goal
  <2>1. CASE Throw(e) \/ Go(e, "reset")
    BY <1>2, <1>3, <1>4, <1>5, <1>10, <2>1 DEF Upload
  <2>2. CASE Put(e) /\ Go(e, "findForReports")
    <3>1. \A r \in cachedRebates[e] : uploads'[r] > 0
      BY <2>2 DEF Put, TypeOK
    <3> QED
      BY <1>4, <1>10, <2>2, <3>1 DEF Upload, Sound, With
  <2> QED
    BY <1>10, <2>1, <2>2 DEF Upload
<1>11. ASSUME FindForReports(e) PROVE Goal
  <2>1. CASE Throw(e)
    BY <1>5, <1>11, <2>1 DEF FindForReports
  <2>2. CASE todo' = [todo EXCEPT ![e] = With("ExtractionStarted")] /\ Go(e, "report")
    BY <1>4, <1>11, <2>2 DEF FindForReports, Sound, With, rebateVars, TypeOK
  <2> QED
    BY <1>11, <2>1, <2>2 DEF FindForReports
<1>12. ASSUME ReportUnfulfilled(e) PROVE Goal
  <2>1. CASE Throw(e)
    BY <1>5, <1>12, <2>1 DEF ReportUnfulfilled
  <2>2. ASSUME NEW r \in todo[e], unfulfilled' = [unfulfilled EXCEPT ![r] = @ + 1],
               current' = [current EXCEPT ![e] = {r}], Go(e, "journal"), UNCHANGED todo
        PROVE  Goal
    <3>1. unfulfilled'[r] > 0 /\ current'[e] = {r}
      BY <2>2 DEF TypeOK
    <3>2. cachedRebates'[e] = cachedRebates[e] /\ exportDetails'[e] = exportDetails[e]
            /\ With("ExtractionStarted")' = With("ExtractionStarted")
      BY <1>12 DEF ReportUnfulfilled, With
    <3>3. \A s \in cachedRebates[e] : s \in Rebates
      BY DEF TypeOK
    <3> QED
      BY <1>4, <1>12, <2>2, <3>1, <3>2, <3>3 DEF ReportUnfulfilled, Sound
  <2> QED
    BY <1>12, <2>1, <2>2 DEF ReportUnfulfilled
<1>13. ASSUME WriteJournal(e) PROVE Goal
  <2>1. CASE Throw(e)
    BY <1>5, <1>13, <2>1 DEF WriteJournal
  <2>2. CASE /\ journal' = [r \in Rebates |-> IF r \in current[e] THEN journal[r] + 1
                                                                  ELSE journal[r]]
             /\ todo' = [todo EXCEPT ![e] = @ \ current[e]]
             /\ Go(e, "report")
    <3>1. \A r \in current[e] : journal'[r] > 0 /\ unfulfilled'[r] > 0
      BY <1>13, <2>2 DEF WriteJournal, Sound, TypeOK
    <3>2. cachedRebates'[e] = cachedRebates[e] /\ exportDetails'[e] = exportDetails[e]
            /\ With("ExtractionStarted")' = With("ExtractionStarted")
      BY <1>13 DEF WriteJournal, With
    <3>3. todo'[e] = todo[e] \ current[e] /\ \A r \in cachedRebates[e] : r \in Rebates
      BY <2>2 DEF TypeOK
    <3> QED
      BY <1>4, <1>13, <2>2, <3>1, <3>2, <3>3 DEF WriteJournal, Sound
  <2> QED
    BY <1>13, <2>1, <2>2 DEF WriteJournal
<1>14. ASSUME UpdateExportedRebates(e) PROVE Goal
  <2>1. CASE Throw(e)
    BY <1>5, <1>14, <2>1 DEF UpdateExportedRebates
  <2>2. CASE status' = Move("ExtractionStarted", "PendingFulfillment") /\ Go(e, "publish")
    <3>1. cachedRebates'[e] \subseteq With("PendingFulfillment")'
      BY <1>14, <2>2, MoveStatus DEF UpdateExportedRebates, Sound, With
    <3> QED
      BY <1>4, <2>2, <3>1 DEF Sound
  <2> QED
    BY <1>14, <2>1, <2>2 DEF UpdateExportedRebates
<1>15. ASSUME Publish(e) PROVE Goal
  <2>1. CASE Throw(e)
    BY <1>5, <1>15, <2>1 DEF Publish
  <2>2. CASE UNCHANGED pc \/ Go(e, "recordEnd")
    BY <1>4, <1>15, <2>2 DEF Publish, Sound, With
  <2> QED
    BY <1>15, <2>1, <2>2 DEF Publish
<1>16. ASSUME RecordComplete(e) PROVE Goal
  <2>1. CASE Throw(e) /\ UNCHANGED exportDetails
    BY <1>5, <1>16, <2>1 DEF RecordComplete
  <2>2. CASE Go(e, "off")
    BY <1>2, <1>4, <1>16, <2>2 DEF RecordComplete, Sound
  <2> QED
    BY <1>16, <2>1, <2>2 DEF RecordComplete
<1>17. ASSUME ResetRebatesOnError(e) \/ RecordFailure(e) \/ Crash(e) PROVE Goal
  <2>1. pc'[e] \in {"off", "recordFailure"} /\ cachedRebates'[e] = cachedRebates[e]
    BY <1>4, <1>17 DEF ResetRebatesOnError, RecordFailure, Crash
  <2>2. exportDetails'[e] = exportDetails[e] \/ exportDetails'[e] = "Failed"
    BY <1>17 DEF ResetRebatesOnError, RecordFailure, Crash, TypeOK
  <2> QED
    BY <1>2, <1>3, <2>1, <2>2
<1>18. ASSUME NEW d \in Exporters, Start(d) \/ Step(d) \/ Crash(d) PROVE Goal
  <2>1. CASE d = e
    BY <1>6, <1>7, <1>8, <1>9, <1>10, <1>11, <1>12, <1>13, <1>14, <1>15, <1>16, <1>17, <1>18,
       <2>1 DEF Step
  <2>2. CASE d # e
    BY <1>18, <2>2, OthersStaySound
  <2> QED
    BY <2>1, <2>2
<1>19. ASSUME (\E r \in Rebates : Issue(r)) \/ NextDay \/ UNCHANGED vars PROVE Goal
  <2>1. UNCHANGED <<uploads, unfulfilled, journal, pc, cachedRebates, exportDetails, todo, current>>
    BY <1>19 DEF Issue, NextDay, vars, rebateVars, exporterVars
  <2>2. With("ExtractionStarted")' = With("ExtractionStarted")
    BY <1>19 DEF Issue, NextDay, vars, rebateVars, With, TypeOK
  <2> QED
    BY <2>1, <2>2 DEF Sound
<1> HIDE DEF Goal
<1>20. Goal
  BY <1>18, <1>19 DEF Next
<1> QED
  BY <1>20 DEF Goal

(* Only updateExportedRebates marks a rebate, one it has found uploaded    *)
(* and reported.                                                           *)
LEMMA MarkedBy ==
  ASSUME IInv, [Next]_vars,
         NEW r \in With("PendingFulfillment")', r \notin With("PendingFulfillment")
  PROVE  \E e \in Exporters : UpdateExportedRebates(e) /\ r \in cachedRebates[e] /\ todo[e] = {}
<1> USE DEF IInv, TypeOK, With
<1>1. ASSUME NEW e \in Exporters, UpdateExportedRebates(e)
      PROVE  r \in cachedRebates[e] /\ todo[e] = {}
  <2>1. pc[e] = "report" /\ todo[e] = {}
    BY <1>1 DEF UpdateExportedRebates
  <2>2. r \in With("ExtractionStarted")
    BY <1>1, MoveStatus DEF UpdateExportedRebates
  <2> QED
    BY <2>1, <2>2 DEF CachedAreStarted
<1>2. \E e \in Exporters : UpdateExportedRebates(e)
  BY DEF Next, Step, Issue, NextDay, Start, Move, Crash, Select, RecordExportStart, GenerateFiles,
     Upload, FindForReports, ReportUnfulfilled, WriteJournal, Publish, RecordComplete,
     ResetRebatesOnError, RecordFailure, vars, rebateVars
<1> QED
  BY <1>1, <1>2

LEMMA ReportedStep == IInv /\ [Next]_vars => Reported'
<1> SUFFICES ASSUME IInv, [Next]_vars, NEW r \in With("PendingFulfillment")'
             PROVE  uploads'[r] > 0 /\ unfulfilled'[r] > 0 /\ journal'[r] > 0
  BY DEF Reported, MarkedWereUploaded, MarkedAreReported
<1>1. r \in Rebates
  BY DEF With
<1>2. CASE r \in With("PendingFulfillment")
  BY <1>1, <1>2, Grows DEF IInv, MarkedWereUploaded, MarkedAreReported
<1>3. CASE r \notin With("PendingFulfillment")
  <2>1. PICK e \in Exporters : UpdateExportedRebates(e) /\ r \in cachedRebates[e] /\ todo[e] = {}
    BY <1>3, MarkedBy
  <2>2. uploads[r] > 0 /\ unfulfilled[r] > 0 /\ journal[r] > 0
    BY <2>1 DEF UpdateExportedRebates, IInv, UploadedThenReported
  <2> QED
    BY <1>1, <2>2, Grows DEF IInv
<1> QED
  BY <1>2, <1>3

(* What is uploaded is ExtractionStarted, hence issued.                    *)
LEMMA UnissuedStep == IInv /\ [Next]_vars => UnissuedAreNotUploaded'
<1> SUFFICES ASSUME IInv, [Next]_vars, NEW r \in With("none")'
             PROVE  uploads'[r] = 0
  BY DEF UnissuedAreNotUploaded
<1> USE DEF IInv, TypeOK, With
<1>1. r \in With("none") /\ uploads[r] = 0
  <2>1. r \in With("none")
    BY DEF Next, Step, Issue, NextDay, Start, Move, Crash, Select, RecordExportStart,
       GenerateFiles, Upload, FindForReports, ReportUnfulfilled, WriteJournal,
       UpdateExportedRebates, Publish, RecordComplete, ResetRebatesOnError, RecordFailure, vars,
       rebateVars
  <2> QED
    BY <2>1 DEF UnissuedAreNotUploaded
<1>2. ASSUME NEW e \in Exporters, Upload(e) PROVE uploads'[r] = uploads[r]
  <2>1. r \notin cachedRebates[e]
    BY <1>1, <1>2 DEF Upload, CachedAreStarted
  <2> QED
    BY <1>2, <2>1 DEF Upload, Put, PutInPart
<1>3. ASSUME \A e \in Exporters : ~Upload(e) PROVE UNCHANGED uploads
  BY <1>3 DEF Next, Step, Issue, NextDay, Start, Crash, Select, RecordExportStart, GenerateFiles,
     FindForReports, ReportUnfulfilled, WriteJournal, UpdateExportedRebates, Publish,
     RecordComplete, ResetRebatesOnError, RecordFailure, vars, rebateVars
<1> QED
  BY <1>1, <1>2, <1>3

LEMMA IInvStep == ~Overlapping /\ IInv /\ [Next]_vars => IInv'
<1> SUFFICES ASSUME ~Overlapping, IInv, [Next]_vars PROVE IInv'
  OBVIOUS
<1>1. TypeOK' /\ Alone'
  BY TypeStep, AloneStep DEF IInv
<1>2. Reported' /\ UnissuedAreNotUploaded'
  BY ReportedStep, UnissuedStep
<1>3. \A e \in Exporters : Sound(e)'
  BY SoundStep
<1> QED
  BY <1>1, <1>2, <1>3
     DEF IInv, CachedAreStarted, UploadedThenReported, CompleteMeansMarked, Sound, Reported

----------------------------------------------------------------------------
(* Each step is a step of RebateDelivery, or none of its concern.          *)

(* The stages of rebates by status and uploads.                            *)
LEMMA StageOf ==
  ASSUME NEW r \in Rebates, TypeOK
  PROVE  /\ stage[r] = "none" <=> status[r] = "none"
         /\ stage[r] = "settled" <=> status[r] = "PendingFulfillment"
         /\ stage[r] = "sent" <=> /\ status[r] \in {"PendingExtraction", "ExtractionStarted"}
                                  /\ uploads[r] > 0
         /\ stage[r] = "issued" <=> /\ status[r] \in {"PendingExtraction", "ExtractionStarted"}
                                    /\ uploads[r] = 0
BY DEF stage, TypeOK

LEMMA SameStage ==
  ASSUME UNCHANGED uploads, NEW from \in {"PendingExtraction", "ExtractionStarted"},
         NEW to \in {"PendingExtraction", "ExtractionStarted"},
         status' = Move(from, to) \/ UNCHANGED status
  PROVE  UNCHANGED stage
BY DEF stage, Move

LEMMA StageStep == IInv /\ [Next]_vars => [Delivery!Next]_stage
<1> SUFFICES ASSUME IInv, [Next]_vars PROVE Delivery!Next \/ UNCHANGED stage
  OBVIOUS
<1> USE DEF IInv
<1>1. ASSUME NEW r \in Rebates, Issue(r) PROVE Delivery!Next
  <2>1. stage[r] = "none"
    BY <1>1 DEF Issue, stage
  <2>2. /\ \A q \in Rebates : status'[q] = IF q = r THEN "PendingExtraction" ELSE status[q]
        /\ UNCHANGED uploads /\ uploads[r] = 0
    BY <1>1 DEF Issue, TypeOK, UnissuedAreNotUploaded, With
  <2>3. \A q \in Rebates : stage'[q] = IF q = r THEN "issued" ELSE stage[q]
    BY <2>2 DEF stage
  <2>4. stage' = [stage EXCEPT ![r] = "issued"]
    BY <2>3 DEF stage
  <2> QED
    BY <2>1, <2>4 DEF Delivery!Next, Delivery!Issue
<1>2. ASSUME NEW e \in Exporters, pc[e] = "upload", Put(e), UNCHANGED status PROVE Delivery!Next
  <2> DEFINE S == cachedRebates[e]
  <2>1. S = With("ExtractionStarted") /\ S \in SUBSET Rebates
    BY <1>2 DEF CachedAreStarted, TypeOK
  <2>2. \A r \in S : stage[r] \in {"issued", "sent"}
    BY <2>1, StageOf DEF With, TypeOK
  <2>3. \A r \in Rebates : r \in S => uploads'[r] > 0
    BY <1>2 DEF Put, TypeOK
  <2>4. \A r \in Rebates : r \notin S => uploads'[r] = uploads[r]
    BY <1>2 DEF Put
  <2>5. stage' = [r \in Rebates |-> IF r \in S THEN "sent" ELSE stage[r]]
    BY <1>2, <2>1, <2>3, <2>4 DEF stage, With
  <2> QED
    BY <2>1, <2>2, <2>5 DEF Delivery!Next, Delivery!Send
<1>3. ASSUME NEW e \in Exporters, pc[e] = "report", UNCHANGED uploads,
             status' = Move("ExtractionStarted", "PendingFulfillment")
      PROVE  Delivery!Next
  <2> DEFINE S == With("ExtractionStarted")
  <2>1. S \in SUBSET Rebates /\ \A r \in S : uploads[r] > 0
    BY <1>3 DEF CachedAreStarted, UploadedThenReported, With
  <2>2. \A r \in S : stage[r] = "sent"
    BY <2>1, StageOf DEF With
  <2>3. stage' = [r \in Rebates |-> IF r \in S THEN "settled" ELSE stage[r]]
    BY <1>3 DEF stage, With, Move
  <2> QED
    BY <2>1, <2>2, <2>3 DEF Delivery!Next, Delivery!Settle
<1>4. ASSUME NEW e \in Exporters, Start(e) \/ ResetRebatesOnError(e) PROVE UNCHANGED stage
  BY <1>4, SameStage DEF Start, ResetRebatesOnError
<1>5. ASSUME NEW e \in Exporters, Upload(e) PROVE Delivery!Next \/ UNCHANGED stage
  <2>1. UNCHANGED uploads => UNCHANGED stage
    BY <1>5 DEF Upload, PutInPart, stage
  <2> QED
    BY <1>2, <1>5, <2>1 DEF Upload, PutInPart
<1>6. ASSUME NEW e \in Exporters, UpdateExportedRebates(e)
      PROVE  Delivery!Next \/ UNCHANGED stage
  <2>1. UNCHANGED status => UNCHANGED stage
    BY <1>6 DEF UpdateExportedRebates, stage
  <2> QED
    BY <1>3, <1>6, <2>1 DEF UpdateExportedRebates
<1>7. ASSUME \/ NextDay \/ UNCHANGED vars
             \/ \E e \in Exporters :
                  \/ Select(e) \/ RecordExportStart(e) \/ GenerateFiles(e) \/ FindForReports(e)
                  \/ ReportUnfulfilled(e) \/ WriteJournal(e) \/ Publish(e) \/ RecordComplete(e)
                  \/ RecordFailure(e) \/ Crash(e)
      PROVE  UNCHANGED stage
  <2>1. UNCHANGED <<status, uploads>>
    BY <1>7 DEF NextDay, vars, rebateVars, Select, RecordExportStart, GenerateFiles,
       FindForReports, ReportUnfulfilled, WriteJournal, Publish, RecordComplete, RecordFailure, Crash
  <2> QED
    BY <2>1 DEF stage
<1> QED
  BY <1>1, <1>4, <1>5, <1>6, <1>7 DEF Next, Step

----------------------------------------------------------------------------
(* What FilesAreKept says of exporter e.                                   *)
KeptBy(e) ==
  pc[e] \in {"findForReports", "report", "journal"} =>
    cachedRebates[e] \subseteq todaysFile \cup earlierFiles

LEMMA KeptByStep ==
  ASSUME IInv, FilesAreKept, NEW e \in Exporters, Start(e) \/ Step(e) \/ Crash(e)
  PROVE  KeptBy(e)'
<1> USE DEF IInv, TypeOK
<1>1. ASSUME NEW next, Go(e, next) PROVE pc'[e] = next
  BY <1>1 DEF Go
<1>2. ASSUME Throw(e) PROVE pc'[e] \in {"reset", "recordFailure"}
  BY <1>2, ThrowGoes
\* Only an upload, whole, leads from before the reports into them.
<1>3. ASSUME pc'[e] \notin {"findForReports", "report", "journal"} PROVE KeptBy(e)'
  BY <1>3 DEF KeptBy
<1>4. CASE Start(e) \/ Select(e) \/ RecordExportStart(e) \/ GenerateFiles(e)
           \/ UpdateExportedRebates(e) \/ Publish(e) \/ RecordComplete(e)
           \/ ResetRebatesOnError(e) \/ RecordFailure(e) \/ Crash(e)
  <2>1. pc'[e] \notin {"findForReports", "report", "journal"}
    BY <1>1, <1>2, <1>4 DEF Start, Select, RecordExportStart, GenerateFiles,
       UpdateExportedRebates, Publish, RecordComplete, ResetRebatesOnError, RecordFailure, Crash
  <2> QED
    BY <1>3, <2>1
<1>5. CASE Upload(e)
  <2>1. \/ pc'[e] \in {"reset", "recordFailure"}
        \/ todaysFile' = cachedRebates[e] /\ cachedRebates' = cachedRebates
    BY <1>1, <1>2, <1>5 DEF Upload, Put
  <2> QED
    BY <1>3, <2>1 DEF KeptBy
<1>6. CASE FindForReports(e) \/ ReportUnfulfilled(e) \/ WriteJournal(e)
  <2>1. UNCHANGED <<fileVars, cachedRebates>> /\ pc[e] \in {"findForReports", "report", "journal"}
    BY <1>6 DEF FindForReports, ReportUnfulfilled, WriteJournal
  <2> QED
    BY <2>1 DEF KeptBy, FilesAreKept, fileVars
<1> QED
  BY <1>4, <1>5, <1>6 DEF Step

LEMMA KeptStep ==
  ASSUME ~Overlapping, IInv, FilesAreKept, [Next]_vars
  PROVE  FilesAreKept'
<1>1. ASSUME NEW e \in Exporters, Start(e) \/ Step(e) \/ Crash(e) PROVE FilesAreKept'
  <2>1. \A d \in Exporters \ {e} : pc'[d] = "off"
    BY <1>1, OnlyOneActs DEF IInv
  <2>2. KeptBy(e)'
    BY <1>1, KeptByStep
  <2> QED
    BY <2>1, <2>2 DEF FilesAreKept, KeptBy
<1>2. CASE (\E r \in Rebates : Issue(r)) \/ NextDay \/ UNCHANGED vars
  <2>1. UNCHANGED <<pc, cachedRebates>>
          /\ todaysFile' \cup earlierFiles' = todaysFile \cup earlierFiles
    BY <1>2 DEF Issue, NextDay, vars, fileVars, exporterVars
  <2> QED
    BY <2>1 DEF FilesAreKept
<1> QED
  BY <1>1, <1>2 DEF Next

----------------------------------------------------------------------------
(* What OnceInv says of exporter e, and of rebate r.                       *)
InOrder(e) ==
  /\ pc[e] \in {"report", "journal"} => todo[e] \subseteq cachedRebates[e]
  /\ pc[e] = "journal" => current[e] \subseteq todo[e]

Owed(r) ==
  /\ Credit(IsMarked(r) \/ \E e \in Exporters : UploadedBy(e, r), uploads[r])
  /\ Credit(IsMarked(r) \/ \E e \in Exporters : ReportedBy(e, r) \/ HalfReportedBy(e, r), unfulfilled[r])
  /\ Credit(IsMarked(r) \/ \E e \in Exporters : ReportedBy(e, r), journal[r])

(* A fault is counted.                                                     *)
LEMMA FaultsCount == TypeOK /\ [Next]_vars => faults' \in {faults, faults + 1}
BY DEF Next, Step, Issue, NextDay, Start, Crash, Select, RecordExportStart, GenerateFiles,
   Upload, FindForReports, ReportUnfulfilled, WriteJournal, UpdateExportedRebates, Publish,
   RecordComplete, ResetRebatesOnError, RecordFailure, Throw, Fault, vars

(* What is owed to rebate r where e alone is at work.                      *)
OwedBy(e, r) ==
  /\ Credit(IsMarked(r) \/ UploadedBy(e, r), uploads[r])
  /\ Credit(IsMarked(r) \/ ReportedBy(e, r) \/ HalfReportedBy(e, r), unfulfilled[r])
  /\ Credit(IsMarked(r) \/ ReportedBy(e, r), journal[r])

(* A counted fault pays for whatever has to be done again.                 *)
LEMMA FaultPays ==
  ASSUME TypeOK, faults' = faults + 1, NEW e \in Exporters, NEW r \in Rebates, OwedBy(e, r),
         UNCHANGED <<uploads, unfulfilled, journal>>
  PROVE  OwedBy(e, r)'
BY DEF TypeOK, OwedBy, Credit

(* A step that leaves the reports alone, and takes back nothing done.      *)
LEMMA NothingOwed ==
  ASSUME TypeOK, UNCHANGED faults, NEW e \in Exporters, NEW r \in Rebates, OwedBy(e, r),
         UNCHANGED <<uploads, unfulfilled, journal>>,
         IsMarked(r) => IsMarked(r)',
         UploadedBy(e, r) => IsMarked(r)' \/ UploadedBy(e, r)',
         ReportedBy(e, r) => IsMarked(r)' \/ ReportedBy(e, r)',
         ~HalfReportedBy(e, r)
  PROVE  OwedBy(e, r)'
BY DEF TypeOK, OwedBy, Credit

LEMMA OnceByStep ==
  ASSUME ~Overlapping, IInv, [Next]_vars, NEW e \in Exporters, Start(e) \/ Step(e) \/ Crash(e),
         InOrder(e), \A r \in Rebates : OwedBy(e, r)
  PROVE  InOrder(e)' /\ \A r \in Rebates : OwedBy(e, r)'
<1> DEFINE Goal == InOrder(e)' /\ \A r \in Rebates : OwedBy(e, r)'
<1> USE DEF IInv, TypeOK
<1>1. ASSUME NEW next, Go(e, next) PROVE pc'[e] = next
  BY <1>1 DEF Go
<1>2. ASSUME Throw(e) PROVE pc'[e] \in {"reset", "recordFailure"} /\ faults' = faults + 1
  BY <1>2, ThrowGoes DEF Throw, Fault
<1>3. ASSUME pc'[e] \notin {"report", "journal"} PROVE InOrder(e)'
  BY <1>3 DEF InOrder
<1>4. ASSUME faults' = faults + 1, UNCHANGED <<uploads, unfulfilled, journal>>,
             pc'[e] \notin {"report", "journal"}
      PROVE  Goal
  BY <1>3, <1>4, FaultPays
\* What is uploaded or reported by e is not marked yet.
<1>5. ASSUME pc[e] \in {"recordStart", "generate", "upload", "findForReports", "report", "journal"}
      PROVE  /\ cachedRebates[e] = With("ExtractionStarted")
             /\ \A r \in cachedRebates[e] : r \in Rebates /\ ~IsMarked(r)
  BY <1>5 DEF CachedAreStarted, With, IsMarked
\* The statements before the upload, and those after the marks.
<1>6. ASSUME UNCHANGED <<uploads, unfulfilled, journal, faults>>,
             pc[e] \notin {"findForReports", "report", "journal"},
             pc'[e] \notin {"findForReports", "report", "journal"}
      PROVE  Goal
  <2>1. \A r \in Rebates : IsMarked(r) => IsMarked(r)'
    BY Grows DEF IsMarked, With
  <2> QED
    BY <1>3, <1>6, <2>1, NothingOwed DEF UploadedBy, ReportedBy, HalfReportedBy
<1>7. CASE Start(e) \/ Select(e) \/ RecordExportStart(e) \/ GenerateFiles(e) \/ Publish(e)
           \/ RecordComplete(e) \/ ResetRebatesOnError(e) \/ RecordFailure(e)
  <2>1. /\ UNCHANGED <<uploads, unfulfilled, journal>>
        /\ pc[e] \notin {"findForReports", "report", "journal"}
        /\ pc'[e] \notin {"findForReports", "report", "journal"}
    BY <1>1, <1>2, <1>7 DEF Start, Select, RecordExportStart, GenerateFiles, Publish,
       RecordComplete, ResetRebatesOnError, RecordFailure, rebateVars
  <2> QED
    BY <1>4, <1>6, <2>1, FaultsCount
<1>8. CASE Crash(e)
  BY <1>1, <1>4, <1>8 DEF Crash, Fault, rebateVars
<1>9. CASE Upload(e)
  <2>1. pc[e] = "upload" /\ UNCHANGED <<status, unfulfilled, journal>>
    BY <1>9 DEF Upload
  <2>2. pc'[e] \in {"findForReports", "reset", "recordFailure"}
    BY <1>1, <1>2, <1>9 DEF Upload
  <2>3. \A r \in Rebates : r \in cachedRebates[e] => uploads[r] <= faults
    BY <1>5, <2>1 DEF OwedBy, Credit, UploadedBy
  <2>4. CASE UNCHANGED uploads /\ faults' = faults + 1
    BY <1>4, <2>1, <2>2, <2>4
  <2>5. CASE UNCHANGED <<uploads, faults>> /\ pc'[e] = "reset"
    BY <1>6, <2>1, <2>5
  <2>6. CASE Put(e) /\ \/ faults' = faults + 1
                       \/ UNCHANGED <<faults, cachedRebates>> /\ pc'[e] = "findForReports"
    <3>1. \A r \in Rebates : uploads'[r] = IF r \in cachedRebates[e] THEN uploads[r] + 1 ELSE uploads[r]
      BY <2>6 DEF Put
    <3>2. ASSUME NEW r \in Rebates PROVE OwedBy(e, r)'
      <4>1. OwedBy(e, r) /\ (IsMarked(r)' <=> IsMarked(r))
        BY <2>1 DEF IsMarked
      <4>2. ~UploadedBy(e, r) /\ ~ReportedBy(e, r) /\ ~HalfReportedBy(e, r)
        BY <2>1 DEF UploadedBy, ReportedBy, HalfReportedBy
      <4>3. Credit(IsMarked(r) \/ UploadedBy(e, r), uploads[r])'
        BY <2>3, <2>6, <3>1, <4>1, <4>2 DEF OwedBy, Credit, UploadedBy
      <4>4. /\ Credit(IsMarked(r) \/ ReportedBy(e, r) \/ HalfReportedBy(e, r), unfulfilled[r])'
            /\ Credit(IsMarked(r) \/ ReportedBy(e, r), journal[r])'
        BY <2>1, <2>6, <4>1, <4>2 DEF OwedBy, Credit
      <4> QED
        BY <4>3, <4>4 DEF OwedBy
    <3> QED
      BY <1>3, <2>2, <3>2
  <2> QED
    BY <1>1, <1>2, <1>9, <2>4, <2>5, <2>6 DEF Upload, PutInPart
<1>10. CASE FindForReports(e)
  <2>1. pc[e] = "findForReports" /\ UNCHANGED <<status, uploads, unfulfilled, journal, cachedRebates, current>>
    BY <1>10 DEF FindForReports, rebateVars
  <2>2. CASE UNCHANGED faults /\ pc'[e] = "report" /\ todo'[e] = With("ExtractionStarted")
    <3>1. InOrder(e)'
      BY <1>5, <2>1, <2>2 DEF InOrder
    <3>2. \A r \in Rebates : OwedBy(e, r)'
      BY <2>1, <2>2, NothingOwed DEF UploadedBy, ReportedBy, HalfReportedBy, IsMarked
    <3> QED
      BY <3>1, <3>2
  <2> QED
    BY <1>1, <1>2, <1>4, <1>10, <2>1, <2>2 DEF FindForReports
<1>11. CASE ReportUnfulfilled(e)
  <2>1. pc[e] = "report" /\ UNCHANGED <<status, uploads, journal, cachedRebates>>
    BY <1>11 DEF ReportUnfulfilled
  <2>2. ASSUME NEW q \in todo[e], unfulfilled' = [unfulfilled EXCEPT ![q] = @ + 1],
               current' = [current EXCEPT ![e] = {q}], pc'[e] = "journal",
               UNCHANGED <<faults, todo>>
        PROVE  Goal
    <3>1. current'[e] = {q} /\ q \in cachedRebates[e]
      BY <2>1, <2>2 DEF InOrder
    <3>2. InOrder(e)'
      BY <2>1, <2>2, <3>1 DEF InOrder
    <3>3. ASSUME NEW r \in Rebates PROVE OwedBy(e, r)'
      <4>1. /\ UploadedBy(e, r)' <=> UploadedBy(e, r)
            /\ ReportedBy(e, r)' <=> ReportedBy(e, r)
            /\ HalfReportedBy(e, r)' <=> r = q
            /\ ~HalfReportedBy(e, r)
            /\ IsMarked(r)' <=> IsMarked(r)
        BY <2>1, <2>2, <3>1 DEF UploadedBy, ReportedBy, HalfReportedBy, IsMarked
      <4>2. r = q => ~IsMarked(r) /\ ~ReportedBy(e, r)
        BY <1>5, <2>1, <2>2, <3>1 DEF ReportedBy
      <4>3. unfulfilled'[r] = IF r = q THEN unfulfilled[r] + 1 ELSE unfulfilled[r]
        BY <2>2
      <4>4. OwedBy(e, r)
        OBVIOUS
      <4> QED
        BY <2>1, <2>2, <4>1, <4>2, <4>3, <4>4 DEF OwedBy, Credit
    <3> QED
      BY <3>2, <3>3
  <2> QED
    <3>1. CASE Throw(e) /\ UNCHANGED unfulfilled
      BY <1>2, <1>4, <2>1, <3>1
    <3> QED
      BY <1>1, <1>11, <2>2, <3>1 DEF ReportUnfulfilled
<1>12. CASE WriteJournal(e)
  <2>1. pc[e] = "journal" /\ UNCHANGED <<status, uploads, unfulfilled, cachedRebates>>
    BY <1>12 DEF WriteJournal
  <2>2. CASE /\ journal' = [r \in Rebates |-> IF r \in current[e] THEN journal[r] + 1 ELSE journal[r]]
             /\ todo' = [todo EXCEPT ![e] = @ \ current[e]] /\ pc'[e] = "report"
             /\ UNCHANGED faults
    <3>1. todo'[e] = todo[e] \ current[e] /\ current[e] \subseteq todo[e]
            /\ todo[e] \subseteq cachedRebates[e]
      BY <2>1, <2>2 DEF InOrder
    <3>2. InOrder(e)'
      BY <2>1, <2>2, <3>1 DEF InOrder
    <3>3. ASSUME NEW r \in Rebates PROVE OwedBy(e, r)'
      <4>1. /\ UploadedBy(e, r)' <=> UploadedBy(e, r)
            /\ ReportedBy(e, r)' <=> ReportedBy(e, r) \/ r \in current[e]
            /\ HalfReportedBy(e, r) <=> r \in current[e]
            /\ IsMarked(r)' <=> IsMarked(r)
        BY <2>1, <2>2, <3>1 DEF UploadedBy, ReportedBy, HalfReportedBy, IsMarked
      <4>2. r \in current[e] => ~IsMarked(r) /\ ~ReportedBy(e, r)
        BY <1>5, <2>1, <3>1 DEF ReportedBy
      <4>3. journal'[r] = IF r \in current[e] THEN journal[r] + 1 ELSE journal[r]
        BY <2>2
      <4>4. OwedBy(e, r)
        OBVIOUS
      <4> QED
        BY <2>1, <2>2, <4>1, <4>2, <4>3, <4>4 DEF OwedBy, Credit
    <3> QED
      BY <3>2, <3>3
  <2> QED
    <3>1. CASE Throw(e) /\ UNCHANGED journal
      BY <1>2, <1>4, <2>1, <3>1
    <3> QED
      BY <1>1, <1>12, <2>2, <3>1 DEF WriteJournal
<1>13. CASE UpdateExportedRebates(e)
  <2>1. pc[e] = "report" /\ todo[e] = {} /\ UNCHANGED <<uploads, unfulfilled, journal, cachedRebates>>
    BY <1>13 DEF UpdateExportedRebates
  <2>2. CASE UNCHANGED faults /\ pc'[e] = "publish"
               /\ status' = Move("ExtractionStarted", "PendingFulfillment")
    <3>1. \A r \in Rebates : IsMarked(r)' <=> IsMarked(r) \/ r \in cachedRebates[e]
      BY <1>5, <2>1, <2>2, MoveStatus DEF IsMarked, With
    <3>2. \A r \in Rebates : OwedBy(e, r)'
      BY <2>1, <2>2, <3>1, NothingOwed DEF UploadedBy, ReportedBy, HalfReportedBy
    <3> QED
      BY <1>3, <2>2, <3>2
  <2> QED
    BY <1>1, <1>2, <1>4, <1>13, <2>1, <2>2 DEF UpdateExportedRebates
<1> QED
  BY <1>7, <1>8, <1>9, <1>10, <1>11, <1>12, <1>13 DEF Step

LEMMA OnceStep == ASSUME ~Overlapping, IInv, OnceInv, [Next]_vars PROVE OnceInv'
<1>1. /\ \A e \in Exporters : InOrder(e)
      /\ \A r \in Rebates : Owed(r)
  BY DEF OnceInv, InOrder, Owed
<1>2. ASSUME \A e \in Exporters : InOrder(e)', \A r \in Rebates : Owed(r)' PROVE OnceInv'
  BY <1>2 DEF OnceInv, InOrder, Owed
<1>3. ASSUME NEW e \in Exporters, Start(e) \/ Step(e) \/ Crash(e) PROVE OnceInv'
  <2>1. \A d \in Exporters \ {e} : pc[d] = "off" /\ pc'[d] = "off"
    BY <1>3, OnlyOneActs DEF IInv
  <2>2. \A r \in Rebates : OwedBy(e, r)
    BY <1>1, <2>1 DEF Owed, OwedBy, Credit, UploadedBy, ReportedBy, HalfReportedBy
  <2>3. InOrder(e)' /\ \A r \in Rebates : OwedBy(e, r)'
    BY <1>1, <1>3, <2>2, OnceByStep
  <2>4. \A d \in Exporters : InOrder(d)'
    BY <2>1, <2>3 DEF InOrder
  <2>5. \A r \in Rebates : Owed(r)'
    BY <2>1, <2>3 DEF Owed, OwedBy, Credit, UploadedBy, ReportedBy, HalfReportedBy
  <2> QED
    BY <1>2, <2>4, <2>5
<1>4. CASE (\E r \in Rebates : Issue(r)) \/ NextDay \/ UNCHANGED vars
  <2>1. UNCHANGED <<uploads, unfulfilled, journal, pc, cachedRebates, todo, current>>
    BY <1>4 DEF Issue, NextDay, vars, rebateVars, exporterVars
  <2>2. \A r \in Rebates : IsMarked(r)' <=> IsMarked(r)
    BY <1>4 DEF Issue, NextDay, vars, rebateVars, IsMarked, IInv, TypeOK
  <2>3. \A r \in Rebates : Owed(r)'
    BY <1>1, <2>1, <2>2, FaultsCount DEF IInv, TypeOK, Owed, Credit, UploadedBy, ReportedBy, HalfReportedBy
  <2>4. \A e \in Exporters : InOrder(e)'
    BY <1>1, <2>1 DEF InOrder
  <2> QED
    BY <1>2, <2>3, <2>4
<1> QED
  BY <1>3, <1>4 DEF Next

----------------------------------------------------------------------------
(* The theorems.                                                           *)

(* Whoever exports and whatever fails, the state keeps its types.          *)
THEOREM TypeCorrect == Spec => []TypeOK
<1>1. Init => TypeOK
  BY InitInv DEF IInv
<1>2. TypeOK /\ [Next]_vars => TypeOK'
  BY TypeStep
<1> QED
  BY <1>1, <1>2, PTL DEF Spec

(* The inductive invariant, where exports do not overlap.                  *)
THEOREM Invariant == ASSUME ~Overlapping PROVE Spec => []IInv
<1>1. Init => IInv
  BY InitInv
<1>2. IInv /\ [Next]_vars => IInv'
  BY IInvStep
<1> QED
  BY <1>1, <1>2, PTL DEF Spec

(* A rebate is PendingFulfillment only after an upload that contained it.  *)
THEOREM Uploaded == ASSUME ~Overlapping PROVE Spec => []MarkedWereUploaded
<1>1. IInv => MarkedWereUploaded
  BY DEF IInv
<1> QED
  BY <1>1, Invariant, PTL

(* ... and only with its report and its journal record written.            *)
THEOREM ReportedToo == ASSUME ~Overlapping PROVE Spec => []MarkedAreReported
<1>1. IInv => MarkedAreReported
  BY DEF IInv
<1> QED
  BY <1>1, Invariant, PTL

(* An export recorded as Complete has dealt with every rebate of its CSV.  *)
THEOREM Complete == ASSUME ~Overlapping PROVE Spec => []CompleteMeansMarked
<1>1. IInv => CompleteMeansMarked
  BY DEF IInv
<1> QED
  BY <1>1, Invariant, PTL

(* When a rebate is marked, some file on the server holds it, whatever     *)
(* uploads came before, whole or in part, under the same name.             *)
THEOREM Kept == ASSUME ~Overlapping PROVE Spec => MarkedFromAFile
<1>1. Init => FilesAreKept
  BY DEF Init, FilesAreKept
<1>2. IInv /\ FilesAreKept /\ [Next]_vars => FilesAreKept'
  BY KeptStep
<1>3. IInv /\ FilesAreKept /\ [Next]_vars =>
        [With("PendingFulfillment")' \ With("PendingFulfillment") \subseteq todaysFile \cup earlierFiles]_vars
  <2> SUFFICES ASSUME IInv, FilesAreKept, [Next]_vars,
                      NEW r \in With("PendingFulfillment")', r \notin With("PendingFulfillment")
               PROVE  r \in todaysFile \cup earlierFiles
    OBVIOUS
  <2>1. PICK e \in Exporters : UpdateExportedRebates(e) /\ r \in cachedRebates[e]
    BY MarkedBy
  <2> QED
    BY <2>1 DEF UpdateExportedRebates, FilesAreKept
<1> QED
  BY <1>1, <1>2, <1>3, Invariant, PTL DEF Spec, MarkedFromAFile

(* A rebate is uploaded, reported and entered in the journal once, and     *)
(* once more at most for each failure.                                     *)
THEOREM Once == ASSUME ~Overlapping PROVE Spec => []OncePerFault
<1>1. Init => OnceInv
  BY DEF Init, OnceInv, Credit
<1>2. IInv /\ OnceInv /\ [Next]_vars => OnceInv'
  BY OnceStep
<1>3. IInv /\ OnceInv => OncePerFault
  <2>1. ASSUME TypeOK, NEW n \in Nat, NEW done \in BOOLEAN, Credit(done, n) PROVE n <= 1 + faults
    BY <2>1, ConstantsAssumption DEF TypeOK, Credit
  <2> QED
    BY <2>1 DEF IInv, TypeOK, OnceInv, OncePerFault
<1> QED
  BY <1>1, <1>2, <1>3, Invariant, PTL DEF Spec

(* The export implements RebateDelivery: a rebate is recorded as sent only *)
(* when it has been, and is never sent again after that.                   *)
THEOREM Delivers == ASSUME ~Overlapping PROVE Spec => DeliverySpec
<1>1. Init => Delivery!Init
  BY DEF Init, Delivery!Init, stage
<1>2. IInv /\ [Next]_vars => [Delivery!Next]_stage
  BY StageStep
<1> QED
  BY <1>1, <1>2, Invariant, PTL DEF Spec, DeliverySpec, Delivery!Spec
=============================================================================
