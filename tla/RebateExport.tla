---------------------------- MODULE RebateExport ----------------------------
(***************************************************************************)
(* RebateExport: the rebates pending extraction are marked, written to a   *)
(* CSV, zipped, uploaded to the SFTP server under a name that holds the    *)
(* date, reported (an unfulfilled rebate and a journal record each),       *)
(* marked PendingFulfillment and published to Kafka.  The master runs it   *)
(* after the daily processing; MC_E and the web UI run it by hand.  Any    *)
(* step may throw and any process may die; rebates are issued meanwhile.   *)
(*                                                                         *)
(* One step is one database statement, one use of the SFTP server or the   *)
(* writing of the local files, each with the code up to the next one.      *)
(***************************************************************************)
EXTENDS Integers

CONSTANTS
  Rebates,      \* the rebates that may be issued
  Exporters,    \* the processes that may run the export
  Overlapping,  \* BOOLEAN: an export may start while another runs
  MaxFaults     \* bound: exceptions, crashes and exports caught by midnight

ASSUME ConstantsAssumption ==
  /\ Overlapping \in BOOLEAN
  /\ MaxFaults \in Nat

VARIABLES
  status,         \* of each row of rebates; "none" before it is issued
  todaysFile,     \* what the zip of today on the SFTP server holds
  earlierFiles,   \* what the zips of earlier days hold
  uploads,        \* how often each rebate was uploaded
  unfulfilled,    \* rows of the unfulfilled rebate report, per rebate
  journal,        \* rows of the rebate journal, per rebate
  published,      \* the rebates dispatched to Kafka
  faults,         \* how many faults there were
  pc,             \* where each exporter is in perform
  cachedRebates,  \* the rebates it found, and wrote to its CSV
  datedToday,     \* whether its local files are named for today
  uploadedToSFTP, \* its flag of that name
  exportDetails,  \* the status of the row of its last export, if it made one
  todo,           \* rebates it still has to report, or to publish
  current         \* the rebate it has half reported, as a set

rebateVars == <<status, uploads, unfulfilled, journal, published>>
fileVars == <<todaysFile, earlierFiles>>
exporterVars == <<pc, cachedRebates, datedToday, uploadedToSFTP, exportDetails, todo, current>>
vars == <<rebateVars, fileVars, faults, exporterVars>>

(* The two reports, as how many rows each has of a rebate.                 *)
UnfulfilledReport == [Rebates -> Nat]
RebateJournal == [Rebates -> Nat]

ExportDetails == {"none", "InProgress", "Complete", "Failed"}

With(st) == {r \in Rebates : status[r] = st}

Move(from, to) == [r \in Rebates |-> IF status[r] = from THEN to ELSE status[r]]

(* The queries and updates of RebateRepository.                            *)
RebatesPendingExportStart == Move("PendingExtraction", "ExtractionStarted")

NeverUploadedRebates == {r \in With("ExtractionStarted") : uploads[r] = 0}

RebatesToExport == With("ExtractionStarted")

PendingRebates == With("PendingExtraction")

RebatesToReport == With("ExtractionStarted")

MarkPendingOnes == Move("PendingExtraction", "PendingFulfillment")

RebatesPendingExportEnd == Move("ExtractionStarted", "PendingFulfillment")

ResetEveryRebate == [r \in Rebates |-> IF status[r] # "none" THEN "PendingExtraction" ELSE "none"]

ResetRebates == Move("ExtractionStarted", "PendingExtraction")

----------------------------------------------------------------------------
Init ==
  /\ status = [r \in Rebates |-> "none"]
  /\ todaysFile = {}
  /\ earlierFiles = {}
  /\ uploads = [r \in Rebates |-> 0]
  /\ unfulfilled = [r \in Rebates |-> 0]
  /\ journal = [r \in Rebates |-> 0]
  /\ published = {}
  /\ faults = 0
  /\ pc = [e \in Exporters |-> "off"]
  /\ cachedRebates = [e \in Exporters |-> {}]
  /\ datedToday = [e \in Exporters |-> FALSE]
  /\ uploadedToSFTP = [e \in Exporters |-> FALSE]
  /\ exportDetails = [e \in Exporters |-> "none"]
  /\ todo = [e \in Exporters |-> {}]
  /\ current = [e \in Exporters |-> {}]

Fault == faults < MaxFaults /\ faults' = faults + 1

(* A processor issues the rebate, at any time.                             *)
Issue(r) ==
  /\ status[r] = "none"
  /\ status' = [status EXCEPT ![r] = "PendingExtraction"]
  /\ UNCHANGED <<uploads, unfulfilled, journal, published, fileVars, faults,
                 exporterVars>>

(* Midnight.  An export caught by it between its files and its upload      *)
(* looks for files named for the new day: that counts as a fault.          *)
NextDay ==
  /\ earlierFiles' = earlierFiles \cup todaysFile
  /\ todaysFile' = {}
  /\ datedToday' = [e \in Exporters |-> FALSE]
  /\ IF \E e \in Exporters : datedToday[e] THEN Fault ELSE UNCHANGED faults
  /\ UNCHANGED <<rebateVars, pc, cachedRebates, uploadedToSFTP, exportDetails, todo, current>>

----------------------------------------------------------------------------
(* The exporter, statement by statement.                                   *)

Go(e, next) == pc' = [pc EXCEPT ![e] = next]

(* An exception: perform catches it and records the failure.               *)
Throw(e) ==
  /\ Fault
  /\ Go(e, IF uploadedToSFTP[e] THEN "recordFailure" ELSE "reset")

(* rebatesPendingExportStart, its update.                                  *)
Start(e) ==
  /\ pc[e] = "off"
  /\ Overlapping \/ \A d \in Exporters : pc[d] = "off"
  /\ cachedRebates' = [cachedRebates EXCEPT ![e] = {}]
  /\ uploadedToSFTP' = [uploadedToSFTP EXCEPT ![e] = FALSE]
  /\ exportDetails' = [exportDetails EXCEPT ![e] = "none"]
  /\ \/ /\ status' = RebatesPendingExportStart
        /\ Go(e, "select")
        /\ UNCHANGED faults
     \/ /\ Fault
        /\ Go(e, "reset")
        /\ UNCHANGED status
  /\ UNCHANGED <<uploads, unfulfilled, journal, published, fileVars, datedToday, todo, current>>

(* Its select: the rebates just marked, and any left by an earlier export. *)
Select(e) ==
  /\ pc[e] = "select"
  /\ \/ /\ cachedRebates' = [cachedRebates EXCEPT ![e] = RebatesToExport]
        /\ Go(e, IF RebatesToExport = {} THEN "off" ELSE "recordStart")
        /\ UNCHANGED faults
     \/ Throw(e) /\ UNCHANGED cachedRebates
  /\ UNCHANGED <<rebateVars, fileVars, datedToday, uploadedToSFTP,
                 exportDetails, todo, current>>

RecordExportStart(e) ==
  /\ pc[e] = "recordStart"
  /\ \/ /\ exportDetails' = [exportDetails EXCEPT ![e] = "InProgress"]
        /\ Go(e, "generate")
        /\ UNCHANGED faults
     \/ Throw(e) /\ UNCHANGED exportDetails
  /\ UNCHANGED <<rebateVars, fileVars, cachedRebates, datedToday,
                 uploadedToSFTP, todo, current>>

(* generateCSV and generateZip; the name of each file holds the date.      *)
GenerateFiles(e) ==
  /\ pc[e] = "generate"
  /\ \/ /\ datedToday' = [datedToday EXCEPT ![e] = TRUE]
        /\ Go(e, "upload")
        /\ UNCHANGED faults
     \/ Throw(e) /\ UNCHANGED datedToday
  /\ UNCHANGED <<rebateVars, fileVars, cachedRebates, uploadedToSFTP,
                 exportDetails, todo, current>>

(* What the server holds after a put: a file of the same name is replaced. *)
Put(e) ==
  /\ todaysFile' = cachedRebates[e]
  /\ uploads' = [r \in Rebates |-> IF r \in cachedRebates[e] THEN uploads[r] + 1 ELSE uploads[r]]
  /\ UNCHANGED earlierFiles

(* The connection breaks during the put: the old file is gone, and part of *)
(* the new one is there.                                                   *)
PutInPart(e) ==
  /\ \E part \in SUBSET cachedRebates[e] : todaysFile' = part
  /\ UNCHANGED <<uploads, earlierFiles>>

(* uploadToSFTP: an error while disconnecting counts as a failed upload,   *)
(* and so does a local file whose name has the date of yesterday.          *)
Upload(e) ==
  /\ pc[e] = "upload"
  /\ datedToday' = [datedToday EXCEPT ![e] = FALSE]
  /\ \/ /\ datedToday[e]
        /\ Put(e)
        /\ uploadedToSFTP' = [uploadedToSFTP EXCEPT ![e] = TRUE]
        /\ Go(e, "findForReports")
        /\ UNCHANGED faults
     \/ /\ datedToday[e]
        /\ Put(e) \/ PutInPart(e) \/ UNCHANGED <<uploads, fileVars>>
        /\ Throw(e)
        /\ UNCHANGED uploadedToSFTP
     \/ /\ ~datedToday[e]
        /\ Go(e, "reset")
        /\ UNCHANGED <<uploads, fileVars, uploadedToSFTP, faults>>
  /\ UNCHANGED <<status, unfulfilled, journal, published, cachedRebates,
                 exportDetails, todo, current>>

(* createJournalRecords, its select.                                       *)
FindForReports(e) ==
  /\ pc[e] = "findForReports"
  /\ \/ /\ todo' = [todo EXCEPT ![e] = RebatesToReport]
        /\ Go(e, "report")
        /\ UNCHANGED faults
     \/ Throw(e) /\ UNCHANGED todo
  /\ UNCHANGED <<rebateVars, fileVars, cachedRebates, datedToday,
                 uploadedToSFTP, exportDetails, current>>

(* UnfulfilledRebateReportCreate for the next rebate of the loop.          *)
ReportUnfulfilled(e) ==
  /\ pc[e] = "report"
  /\ \E r \in todo[e] :
       \/ /\ unfulfilled' = [unfulfilled EXCEPT ![r] = @ + 1]
          /\ current' = [current EXCEPT ![e] = {r}]
          /\ Go(e, "journal")
          /\ UNCHANGED <<faults, todo>>
       \/ /\ Throw(e)
          /\ todo' = [todo EXCEPT ![e] = {}]
          /\ UNCHANGED <<unfulfilled, current>>
  /\ UNCHANGED <<status, uploads, journal, published, fileVars, cachedRebates,
                 datedToday, uploadedToSFTP, exportDetails>>

(* RebateJournalReportCreate for the same rebate.                          *)
WriteJournal(e) ==
  /\ pc[e] = "journal"
  /\ \/ /\ journal' = [r \in Rebates |-> IF r \in current[e] THEN journal[r] + 1 ELSE journal[r]]
        /\ todo' = [todo EXCEPT ![e] = @ \ current[e]]
        /\ Go(e, "report")
        /\ UNCHANGED faults
     \/ /\ Throw(e)
        /\ todo' = [todo EXCEPT ![e] = {}]
        /\ UNCHANGED journal
  /\ current' = [current EXCEPT ![e] = {}]
  /\ UNCHANGED <<status, uploads, unfulfilled, published, fileVars, 
                 cachedRebates, datedToday, uploadedToSFTP, exportDetails>>

(* updateExportedRebates, when the loop is through: one update, returning  *)
(* the ids to publish.                                                     *)
UpdateExportedRebates(e) ==
  /\ pc[e] = "report"
  /\ todo[e] = {}
  /\ \/ /\ status' = RebatesPendingExportEnd
        /\ todo' = [todo EXCEPT ![e] = With("ExtractionStarted")]
        /\ Go(e, "publish")
        /\ UNCHANGED faults
     \/ Throw(e) /\ UNCHANGED <<status, todo>>
  /\ UNCHANGED <<uploads, unfulfilled, journal, published, fileVars, 
                 cachedRebates, datedToday, uploadedToSFTP, exportDetails, current>>

(* publishRebates: connecting to Kafka may throw; an error about one       *)
(* rebate is only logged.                                                  *)
Publish(e) ==
  /\ pc[e] = "publish"
  /\ \/ /\ \E r \in todo[e] :
             /\ todo' = [todo EXCEPT ![e] = @ \ {r}]
             /\ \/ published' = published \cup {r} /\ UNCHANGED faults
                \/ Fault /\ UNCHANGED published
        /\ UNCHANGED pc
     \/ todo[e] = {} /\ Go(e, "recordEnd") /\ UNCHANGED <<published, todo, faults>>
     \/ Throw(e) /\ todo' = [todo EXCEPT ![e] = {}] /\ UNCHANGED published
  /\ UNCHANGED <<status, uploads, unfulfilled, journal, fileVars, cachedRebates,
                 datedToday, uploadedToSFTP, exportDetails, current>>

(* recordExportEnd(Complete).                                              *)
RecordComplete(e) ==
  /\ pc[e] = "recordEnd"
  /\ \/ /\ exportDetails' = [exportDetails EXCEPT ![e] = "Complete"]
        /\ Go(e, "off")
        /\ UNCHANGED faults
     \/ Throw(e) /\ UNCHANGED exportDetails
  /\ UNCHANGED <<rebateVars, fileVars, cachedRebates, datedToday,
                 uploadedToSFTP, todo, current>>

(* recordExportEnd(Failed), before the upload: resetRebatesOnError.  If it *)
(* throws itself, the export ends.                                         *)
ResetRebatesOnError(e) ==
  /\ pc[e] = "reset"
  /\ \/ /\ status' = ResetRebates
        /\ Go(e, "recordFailure")
        /\ UNCHANGED faults
     \/ Fault /\ Go(e, "off") /\ UNCHANGED status
  /\ UNCHANGED <<uploads, unfulfilled, journal, published, fileVars, 
                 cachedRebates, datedToday, uploadedToSFTP, exportDetails, todo, current>>

(* recordExportEnd(Failed), its update: it throws where there is no row to *)
(* update, and may throw where there is.                                   *)
RecordFailure(e) ==
  /\ pc[e] = "recordFailure"
  /\ \/ /\ exportDetails[e] # "none"
        /\ exportDetails' = [exportDetails EXCEPT ![e] = "Failed"]
        /\ UNCHANGED faults
     \/ exportDetails[e] = "none" /\ UNCHANGED <<exportDetails, faults>>
     \/ exportDetails[e] # "none" /\ Fault /\ UNCHANGED exportDetails
  /\ Go(e, "off")
  /\ UNCHANGED <<rebateVars, fileVars, cachedRebates, datedToday,
                 uploadedToSFTP, todo, current>>

(* The process dies.                                                       *)
Crash(e) ==
  /\ pc[e] # "off"
  /\ Fault
  /\ Go(e, "off")
  /\ datedToday' = [datedToday EXCEPT ![e] = FALSE]
  /\ todo' = [todo EXCEPT ![e] = {}]
  /\ current' = [current EXCEPT ![e] = {}]
  /\ UNCHANGED <<rebateVars, fileVars, cachedRebates, uploadedToSFTP,
                 exportDetails>>

Step(e) ==
  \/ Select(e) \/ RecordExportStart(e) \/ GenerateFiles(e) \/ Upload(e) \/ FindForReports(e)
  \/ ReportUnfulfilled(e) \/ WriteJournal(e) \/ UpdateExportedRebates(e) \/ Publish(e)
  \/ RecordComplete(e) \/ ResetRebatesOnError(e) \/ RecordFailure(e)

Next ==
  \/ \E r \in Rebates : Issue(r)
  \/ NextDay
  \/ \E e \in Exporters : Start(e) \/ Step(e) \/ Crash(e)

Spec == Init /\ [][Next]_vars

(* Days pass, some process starts an export whenever it can, again and     *)
(* again, and an export that has started gets on.                          *)
Fairness ==
  /\ WF_vars(NextDay)
  /\ \A e \in Exporters : SF_vars(Start(e)) /\ WF_vars(Step(e))

FairSpec == Spec /\ Fairness

----------------------------------------------------------------------------
(* Every variable has the type its comment gives.                          *)
TypeOK ==
  /\ status \in [Rebates -> {"none", "PendingExtraction", "ExtractionStarted",
                             "PendingFulfillment"}]
  /\ todaysFile \subseteq Rebates
  /\ earlierFiles \subseteq Rebates
  /\ uploads \in [Rebates -> Nat]
  /\ unfulfilled \in UnfulfilledReport
  /\ journal \in RebateJournal
  /\ published \subseteq Rebates
  /\ faults \in 0 .. MaxFaults
  /\ pc \in [Exporters -> {"off", "select", "recordStart", "generate", "upload",
                           "findForReports", "report", "journal", "publish", "recordEnd",
                           "reset", "recordFailure"}]
  /\ cachedRebates \in [Exporters -> SUBSET Rebates]
  /\ datedToday \in [Exporters -> BOOLEAN]
  /\ uploadedToSFTP \in [Exporters -> BOOLEAN]
  /\ exportDetails \in [Exporters -> ExportDetails]
  /\ todo \in [Exporters -> SUBSET Rebates]
  /\ current \in [Exporters -> SUBSET Rebates]

(* "updates rebates once file exported" (rebate_export.spec): a rebate is  *)
(* PendingFulfillment only after an upload that contained it.              *)
MarkedWereUploaded == \A r \in With("PendingFulfillment") : uploads[r] > 0

(* A rebate is PendingFulfillment only with its report and its journal     *)
(* record written (createJournalRecords).                                  *)
MarkedAreReported ==
  \A r \in With("PendingFulfillment") : unfulfilled[r] > 0 /\ journal[r] > 0

(* A later export of the same day replaces the file, or breaks off while   *)
(* it does: when a rebate is marked PendingFulfillment, some file on the   *)
(* server holds it.                                                        *)
MarkedFromAFile ==
  [][With("PendingFulfillment")' \ With("PendingFulfillment") \subseteq todaysFile \cup earlierFiles]_vars

(* An export recorded as Complete has dealt with every rebate of its CSV.  *)
CompleteMeansMarked ==
  \A e \in Exporters :
    exportDetails[e] = "Complete" => cachedRebates[e] \subseteq With("PendingFulfillment")

(* A rebate is uploaded, reported and entered in the journal once, and     *)
(* once more at most for each failure.                                     *)
OncePerFault ==
  \A r \in Rebates : /\ uploads[r] <= 1 + faults
                     /\ unfulfilled[r] <= 1 + faults
                     /\ journal[r] <= 1 + faults

(* A rebate is PendingFulfillment in the end, whatever failed on the way.  *)
EveryIssuedIsMarked ==
  \A r \in Rebates : status[r] # "none" ~> status[r] = "PendingFulfillment"

----------------------------------------------------------------------------
(* The invariant behind the safety properties, where exports do not        *)
(* overlap.                                                                *)

Alone == \A d, e \in Exporters : pc[d] # "off" /\ pc[e] # "off" => d = e

(* From the select to the upload the CSV holds exactly the rebates that    *)
(* are ExtractionStarted; what is uploaded is reported, then marked.       *)
CachedAreStarted ==
  \A e \in Exporters :
    /\ pc[e] = "select" => exportDetails[e] = "none"
    /\ pc[e] \in {"recordStart", "generate", "upload", "findForReports", "report", "journal"} =>
         cachedRebates[e] = With("ExtractionStarted")
    /\ pc[e] \in {"publish", "recordEnd"} => cachedRebates[e] \subseteq With("PendingFulfillment")

UploadedThenReported ==
  \A e \in Exporters :
    /\ pc[e] \in {"findForReports", "report", "journal"} =>
         \A r \in cachedRebates[e] : uploads[r] > 0
    /\ pc[e] \in {"report", "journal"} =>
         \A r \in cachedRebates[e] \ todo[e] : unfulfilled[r] > 0 /\ journal[r] > 0
    /\ pc[e] = "journal" => \A r \in current[e] : unfulfilled[r] > 0

UnissuedAreNotUploaded == \A r \in With("none") : uploads[r] = 0

IInv ==
  /\ TypeOK
  /\ Alone
  /\ UnissuedAreNotUploaded
  /\ CachedAreStarted
  /\ UploadedThenReported
  /\ MarkedWereUploaded
  /\ MarkedAreReported
  /\ CompleteMeansMarked

(* Two more, for what IInv leaves open.  No other upload comes between that *)
(* of an export and its marks.                                             *)
FilesAreKept ==
  \A e \in Exporters :
    pc[e] \in {"findForReports", "report", "journal"} =>
      cachedRebates[e] \subseteq todaysFile \cup earlierFiles

(* What the export under way, or a finished one, has uploaded, reported or *)
(* journalled, once for all; the rest may be done again, for a fault each. *)
IsMarked(r) == status[r] = "PendingFulfillment"

UploadedBy(e, r) == pc[e] \in {"findForReports", "report", "journal"} /\ r \in cachedRebates[e]

ReportedBy(e, r) == pc[e] \in {"report", "journal"} /\ r \in cachedRebates[e] \ todo[e]

HalfReportedBy(e, r) == pc[e] = "journal" /\ r \in current[e]

Credit(done, n) == n <= IF done THEN faults + 1 ELSE faults

OnceInv ==
  /\ \A e \in Exporters :
       /\ pc[e] \in {"report", "journal"} => todo[e] \subseteq cachedRebates[e]
       /\ pc[e] = "journal" => current[e] \subseteq todo[e]
  /\ \A r \in Rebates :
       /\ Credit(IsMarked(r) \/ \E e \in Exporters : UploadedBy(e, r), uploads[r])
       /\ Credit(IsMarked(r) \/ \E e \in Exporters : ReportedBy(e, r) \/ HalfReportedBy(e, r), unfulfilled[r])
       /\ Credit(IsMarked(r) \/ \E e \in Exporters : ReportedBy(e, r), journal[r])

----------------------------------------------------------------------------
(* The export implements the promise of RebateDelivery.                    *)

stage ==
  [r \in Rebates |-> CASE status[r] = "none" -> "none"
                       [] status[r] = "PendingFulfillment" -> "settled"
                       [] OTHER -> IF uploads[r] > 0 THEN "sent" ELSE "issued"]

Delivery == INSTANCE RebateDelivery WITH Rebates <- Rebates, stage <- stage

(* Sent before it is recorded as sent, and never sent again after that.    *)
DeliverySpec == Delivery!Spec
=============================================================================
