----------------------- MODULE TransactionProcessing -----------------------
(***************************************************************************)
(* The daily run of Rebate Management: a master process assigns the        *)
(* pending rows of transaction_for_rebate_criteria to worker processes by  *)
(* a hash of their user, each worker takes its rows one after the other    *)
(* through the qualifying strategy, the master polls the number of pending *)
(* rows and, when it reads zero, exports the rebates and exits.  Rows keep *)
(* arriving from Kafka.  Operators may also start processing (T_P) or the  *)
(* export (MC_E) by hand.                                                  *)
(*                                                                         *)
(* One step is one database statement together with the code up to the     *)
(* next one.  The eligibility checks that read neither rows nor rebates    *)
(* are a choice of outcome; the export, whose own steps are the subject of *)
(* RebateExport, is one step here.                                         *)
(***************************************************************************)
EXTENDS Integers, Sequences, FiniteSets

CONSTANTS
  Messages,         \* the transactions the card system may send
  Users,            \* the clients
  Workers,          \* cluster worker ids, 1 .. WEB_CONCURRENCY
  Hashes,           \* the maps from users to workers that md5 % workers may yield
  RedemptionLimit,  \* per offer; 0 means no limit
  LimitType,        \* per offer: "per card" or "overall"
  MaxRows,          \* bound: rows that ever arrive
  Faults            \* what may go wrong, a subset of FaultKinds

(* "throw": a query or a check throws; "crash": a process dies; "arrival": *)
(* rows arrive during a run; "overlap": T_P is started during a run.       *)
FaultKinds == {"throw", "crash", "arrival", "overlap"}

Offers == DOMAIN RedemptionLimit

(* A transaction id names one transaction, hence one user; anything else   *)
(* about two messages with the same id may differ.                         *)
ASSUME ConstantsAssumption ==
  /\ Workers \subseteq Nat \ {0}
  /\ Hashes \subseteq [Users -> Workers]
  /\ Hashes # {}
  /\ RedemptionLimit \in [Offers -> Nat]
  /\ LimitType \in [Offers -> {"per card", "overall"}]
  /\ MaxRows \in Nat
  /\ Faults \subseteq FaultKinds
  /\ \A m \in Messages : m.userId \in Users /\ m.rebateCriteriaId \in Offers
  /\ \A m, n \in Messages : m.transactionId = n.transactionId => m.userId = n.userId

(* A processor started without a worker number takes all pending rows.     *)
NoNumber == 0
Processors == Workers \cup {NoNumber}

NoRow == 0                          \* a processor that holds no row
Unassigned == 0                     \* processor_id IS NULL

VARIABLES
  transactions,  \* rows of transaction_for_rebate_criteria, by serial id
  rebates,       \* rows of rebates, by serial id
  hash,          \* the user hash of the current run
  master,        \* where masterProcess or doMCExport is
  pc,            \* where each processor is
  batch,         \* the ids each processor loaded and has not started
  current,       \* the id each processor is working on
  verdict        \* the status it decided on for that row

tables == <<transactions, rebates>>
processorVars == <<pc, batch, current, verdict>>
vars == <<tables, hash, master, processorVars>>

----------------------------------------------------------------------------
(* Rows and statuses.                                                      *)

Rejections == {"Ineligible", "LimitReached", "QualifiedTransUsedAlready", "RebateNotDue"}
Verdicts == Rejections \cup {"RebateCreated"}

Row == [message : Messages, status : Verdicts \cup {"Pending"}, processed : BOOLEAN,
        processorId : Processors]

Rebate == [message : Messages, status : {"PendingExtraction", "PendingFulfillment"}]

Pending(i) == ~transactions[i].processed

PendingRows == {i \in DOMAIN transactions : Pending(i)}

UserOf(i) == transactions[i].message.userId

(* The transactions a redemption limit counts together.                    *)
SameLimit(m, n) ==
  /\ m.userId = n.userId
  /\ m.rebateCriteriaId = n.rebateCriteriaId
  /\ LimitType[m.rebateCriteriaId] = "per card" => m.card = n.card

(* findRebatesForUserForRebateCriteria, whatever the rebates' status.      *)
RebatesForLimitNotExported(m) ==
  {r \in DOMAIN rebates : SameLimit(m, rebates[r].message)
                            /\ rebates[r].status = "PendingExtraction"}

RebatesForLimit(m) == {r \in DOMAIN rebates : SameLimit(m, rebates[r].message)}

CanBeRedeemed(m) ==
  \/ Cardinality(RebatesForLimit(m)) < RedemptionLimit[m.rebateCriteriaId]
  \/ RedemptionLimit[m.rebateCriteriaId] = 0

NotUsedForTheOffer(m) ==
  \A r \in DOMAIN rebates : \/ rebates[r].message.transactionId # m.transactionId
                             \/ rebates[r].message.rebateCriteriaId # m.rebateCriteriaId

NotUsedByTheUser(m) == \A r \in DOMAIN rebates : rebates[r].message.userId # m.userId

NotUsed(m) == \A r \in DOMAIN rebates : rebates[r].message.transactionId # m.transactionId

----------------------------------------------------------------------------
Init ==
  /\ transactions = << >>
  /\ rebates = << >>
  /\ hash \in Hashes
  /\ master = "off"
  /\ pc = [p \in Processors |-> "off"]
  /\ batch = [p \in Processors |-> {}]
  /\ current = [p \in Processors |-> NoRow]
  /\ verdict = [p \in Processors |-> "none"]

(* The Kafka listener stores a message; it has no id, so the upsert always *)
(* inserts and a message delivered twice is two rows.                      *)
Arrive(m) ==
  /\ Len(transactions) < MaxRows
  /\ master = "off" \/ "arrival" \in Faults
  /\ transactions' = Append(transactions, [message |-> m, status |-> "Pending",
                                           processed |-> FALSE, processorId |-> Unassigned])
  /\ UNCHANGED <<rebates, hash, master, processorVars>>

AllOff(S) == \A p \in S : pc[p] = "off"

----------------------------------------------------------------------------
(* The master.                                                             *)

AssignedOnce(h) ==
  [i \in DOMAIN transactions |->
     IF Pending(i) /\ transactions[i].processorId = Unassigned
     THEN [transactions[i] EXCEPT !.processorId = h[UserOf(i)]]
     ELSE transactions[i]]

Assigned(h) ==
  [i \in DOMAIN transactions |->
     IF Pending(i) THEN [transactions[i] EXCEPT !.processorId = h[UserOf(i)]]
                   ELSE transactions[i]]

(* boot starts the master and forks the workers; the master assigns the    *)
(* pending rows and then lets the workers start.                           *)
StartRun ==
  /\ master = "off"
  /\ AllOff(Workers)
  /\ pc[NoNumber] = "off" \/ "overlap" \in Faults
  /\ \E h \in Hashes : hash' = h /\ transactions' = Assigned(h)
  /\ pc' = [p \in Processors |-> IF p \in Workers THEN "starting" ELSE pc[p]]
  /\ master' = "waiting"
  /\ UNCHANGED <<rebates, batch, current, verdict>>

SeeAnything ==
  /\ master = "waiting"
  /\ master' = "exporting"
  /\ UNCHANGED <<tables, hash, processorVars>>

(* numPending read zero; any other answer only makes the master wait.      *)
SeeNonePending ==
  /\ master = "waiting"
  /\ PendingRows = {}
  /\ master' = "exporting"
  /\ UNCHANGED <<tables, hash, processorVars>>

(* doMCExport: what the export as a whole does to the rebates.  A failed   *)
(* one leaves them to the next.                                            *)
ExportRebates ==
  \/ rebates' = [r \in DOMAIN rebates |-> [rebates[r] EXCEPT !.status = "PendingFulfillment"]]
  \/ "throw" \in Faults /\ UNCHANGED rebates

SkipMCExport ==
  /\ master = "exporting"
  /\ master' = "off"
  /\ UNCHANGED <<tables, hash, processorVars>>

(* The master exports and exits, whether the export succeeded or not.      *)
MCExport ==
  /\ master = "exporting"
  /\ ExportRebates
  /\ master' = "off"
  /\ UNCHANGED <<transactions, hash, processorVars>>

(* The MC_E command and the export route of the web UI, at any time.       *)
ExportCommand ==
  /\ ExportRebates
  /\ UNCHANGED <<transactions, hash, master, processorVars>>

(* The T_P command.                                                        *)
StartUnnumbered ==
  /\ pc[NoNumber] = "off"
  /\ (master = "off" /\ AllOff(Workers)) \/ "overlap" \in Faults
  /\ pc' = [pc EXCEPT ![NoNumber] = "starting"]
  /\ UNCHANGED <<tables, hash, master, batch, current, verdict>>

KillMaster ==
  /\ "crash" \in Faults
  /\ master # "off"
  /\ master' = "off"
  /\ UNCHANGED <<tables, hash, processorVars>>

----------------------------------------------------------------------------
(* A processor.                                                            *)

(* The processor drops its row: it is done with it, or a check threw and   *)
(* processTransaction logged the error.  A row left pending stays so.      *)
Release(p) ==
  /\ pc' = [pc EXCEPT ![p] = "next"]
  /\ current' = [current EXCEPT ![p] = NoRow]
  /\ verdict' = [verdict EXCEPT ![p] = "none"]
  /\ UNCHANGED batch

Terminate(p) ==
  /\ pc' = [pc EXCEPT ![p] = "off"]
  /\ batch' = [batch EXCEPT ![p] = {}]
  /\ current' = [current EXCEPT ![p] = NoRow]
  /\ verdict' = [verdict EXCEPT ![p] = "none"]

Throw(p) == "throw" \in Faults /\ Release(p)

RowsForZeroBased(p) ==
  {i \in PendingRows : p = NoNumber \/ transactions[i].processorId = p - 1}

RowsForEver(p) ==
  {i \in DOMAIN transactions : p = NoNumber \/ transactions[i].processorId = p}

(* The rows TransactionProcessing.perform loads into memory.               *)
RowsFor(p) ==
  {i \in PendingRows : p = NoNumber \/ transactions[i].processorId = p}

Load(p) ==
  /\ pc[p] = "starting"
  /\ \/ /\ batch' = [batch EXCEPT ![p] = RowsFor(p)]
        /\ pc' = [pc EXCEPT ![p] = "next"]
        /\ UNCHANGED <<current, verdict>>
     \/ "throw" \in Faults /\ Terminate(p)
  /\ UNCHANGED <<tables, hash, master>>

(* A worker's rows come ordered by transaction_date.                       *)
Pick(p) ==
  /\ pc[p] = "next"
  /\ \E i \in batch[p] :
       /\ p # NoNumber =>
            \A j \in batch[p] : transactions[i].message.transactionDate
                                  <= transactions[j].message.transactionDate
       /\ current' = [current EXCEPT ![p] = i]
       /\ batch' = [batch EXCEPT ![p] = @ \ {i}]
  /\ pc' = [pc EXCEPT ![p] = "limit"]
  /\ UNCHANGED <<tables, hash, master, verdict>>

Finish(p) ==
  /\ pc[p] = "next"
  /\ batch[p] = {}
  /\ Terminate(p)
  /\ UNCHANGED <<tables, hash, master>>

Message(p) == transactions[current[p]].message

Decide(p, status) ==
  /\ pc' = [pc EXCEPT ![p] = "mark"]
  /\ verdict' = [verdict EXCEPT ![p] = status]
  /\ UNCHANGED <<batch, current>>

(* The checks up to the link check, then the redemption limit.             *)
CheckLimit(p) ==
  /\ pc[p] = "limit"
  /\ \/ Decide(p, "Ineligible")
     \/ ~CanBeRedeemed(Message(p)) /\ Decide(p, "LimitReached")
     \/ /\ CanBeRedeemed(Message(p))
        /\ pc' = [pc EXCEPT ![p] = "used"]
        /\ UNCHANGED <<batch, current, verdict>>
     \/ Throw(p)
  /\ UNCHANGED <<tables, hash, master>>

(* Transaction used, then ownership, opt-in file and the calculation.      *)
CheckUsed(p) ==
  /\ pc[p] = "used"
  /\ \/ ~NotUsed(Message(p)) /\ Decide(p, "QualifiedTransUsedAlready")
     \/ /\ NotUsed(Message(p))
        /\ \E status \in {"Ineligible", "RebateNotDue", "RebateCreated"} : Decide(p, status)
     \/ Throw(p)
  /\ UNCHANGED <<tables, hash, master>>

(* markAsProcessed; an error of its update is swallowed and the rebate     *)
(* is issued all the same.                                                 *)
MarkAsProcessed(p) ==
  /\ pc[p] = "mark"
  /\ \/ transactions' = [transactions EXCEPT ![current[p]] =
                           [@ EXCEPT !.processed = TRUE, !.status = verdict[p]]]
     \/ "throw" \in Faults /\ UNCHANGED transactions
  /\ \/ /\ verdict[p] = "RebateCreated"
        /\ pc' = [pc EXCEPT ![p] = "issue"]
        /\ UNCHANGED <<batch, current, verdict>>
     \/ verdict[p] # "RebateCreated" /\ Release(p)
  /\ UNCHANGED <<rebates, hash, master>>

(* PendingRebateIssuance.                                                  *)
IssueRebate(p) ==
  /\ pc[p] = "issue"
  /\ \/ rebates' = Append(rebates, [message |-> Message(p), status |-> "PendingExtraction"])
     \/ "throw" \in Faults /\ UNCHANGED rebates
  /\ Release(p)
  /\ UNCHANGED <<transactions, hash, master>>

(* A cluster worker whose master is gone exits.                            *)
Disconnect(p) ==
  /\ master = "off"
  /\ p \in Workers
  /\ pc[p] # "off"
  /\ Terminate(p)
  /\ UNCHANGED <<tables, hash, master>>

(* A process dies, of memory for one; it is not revived.                   *)
Crash(p) ==
  /\ "crash" \in Faults
  /\ pc[p] # "off"
  /\ Terminate(p)
  /\ UNCHANGED <<tables, hash, master>>

Step(p) ==
  Load(p) \/ Pick(p) \/ Finish(p) \/ CheckLimit(p) \/ CheckUsed(p)
    \/ MarkAsProcessed(p) \/ IssueRebate(p)

Next ==
  \/ \E m \in Messages : Arrive(m)
  \/ StartRun \/ SeeNonePending \/ MCExport \/ ExportCommand \/ StartUnnumbered \/ KillMaster
  \/ \E p \in Processors : Step(p) \/ Disconnect(p) \/ Crash(p)

Spec == Init /\ [][Next]_vars

(* Processes run, and a run is scheduled whenever the last one has ended.  *)
Fairness ==
  /\ SF_vars(StartRun)
  /\ WF_vars(SeeNonePending)
  /\ WF_vars(MCExport)
  /\ \A p \in Processors : WF_vars(Step(p))
  /\ \A p \in Workers : WF_vars(Disconnect(p))

FairSpec == Spec /\ Fairness

----------------------------------------------------------------------------
(* Every variable has the type its comment gives.                          *)
TypeOK ==
  /\ transactions \in Seq(Row)
  /\ rebates \in Seq(Rebate)
  /\ hash \in Hashes
  /\ master \in {"off", "waiting", "exporting"}
  /\ pc \in [Processors -> {"off", "starting", "next", "limit", "used", "mark", "issue"}]
  /\ batch \in [Processors -> SUBSET DOMAIN transactions]
  /\ current \in [Processors -> DOMAIN transactions \cup {NoRow}]
  /\ verdict \in [Processors -> Verdicts \cup {"none"}]

(* "the transactions for each user are guaranteed to be handled            *)
(* sequentially" (assignWorkerProcesses): no two processes are inside the  *)
(* qualifying strategy for the same user at once.                          *)
SequentialPerUser ==
  \A p, q \in Processors :
    p # q /\ current[p] # NoRow /\ current[q] # NoRow => UserOf(current[p]) # UserOf(current[q])

(* A transaction earns at most one rebate, however often its message was   *)
(* delivered and however often its row was retried (TransactionUsed).      *)
OneRebatePerTransaction ==
  \A r, s \in DOMAIN rebates :
    r # s => rebates[r].message.transactionId # rebates[s].message.transactionId

Redeemed(m) == {r \in DOMAIN rebates : SameLimit(m, rebates[r].message)}

(* A client never holds more rebates of an offer (per card, where the      *)
(* offer says so) than its redemption limit (RedemptionLimitValidation).   *)
RedemptionLimitRespected ==
  \A r \in DOMAIN rebates :
    LET m == rebates[r].message
    IN  RedemptionLimit[m.rebateCriteriaId] # 0 =>
          Cardinality(Redeemed(m)) <= RedemptionLimit[m.rebateCriteriaId]

(* A row rejected for the limit or as a used transaction is rejected for a *)
(* rebate that is really there: the limit is reached, the transaction has  *)
(* a rebate.                                                               *)
JustlyRejected(m, status) ==
  /\ status = "LimitReached" =>
       /\ RedemptionLimit[m.rebateCriteriaId] # 0
       /\ Cardinality(Redeemed(m)) >= RedemptionLimit[m.rebateCriteriaId]
  /\ status = "QualifiedTransUsedAlready" =>
       \E s \in DOMAIN rebates : rebates[s].message.transactionId = m.transactionId

RejectionsAreJustified ==
  \A i \in DOMAIN transactions : JustlyRejected(transactions[i].message, transactions[i].status)

(* Once a row is processed no process decides on it again.                 *)
ProcessedIsFinal ==
  [][\A i \in DOMAIN transactions :
       transactions[i].processed => transactions'[i] = transactions[i]]_vars

(* "a qualifying transaction may be processed by issuing a rebate, at      *)
(* which point the transaction will be marked as processed"                *)
(* (TransactionProcessing): when no process is at work, a row marked       *)
(* RebateCreated has its rebate.                                           *)
CreatedMeansIssued ==
  AllOff(Processors) =>
    \A i \in DOMAIN transactions :
      transactions[i].status = "RebateCreated" =>
        \E r \in DOMAIN rebates : rebates[r].message = transactions[i].message

(* README, steps 5 to 8: a run that waits for its workers ends.            *)
RunFinishes == master = "waiting" ~> master = "off"

(* Every row that arrives is processed in the end.                         *)
EveryRowProcessed ==
  \A i \in 1 .. MaxRows :
    (i \in DOMAIN transactions /\ Pending(i)) ~> (i \in DOMAIN transactions /\ ~Pending(i))

(* Every rebate issued is exported in the end.                             *)
EveryRebateExported ==
  \A r \in 1 .. MaxRows :
    (r \in DOMAIN rebates) ~> (r \in DOMAIN rebates /\ rebates[r].status = "PendingFulfillment")

----------------------------------------------------------------------------
(* The invariant behind the safety properties, where T_P is never started  *)
(* during a run.                                                           *)

Cleared(p) == pc[p] = "issue" \/ (pc[p] = "mark" /\ verdict[p] = "RebateCreated")

(* Only a processor inside the strategy holds a row, one that is not       *)
(* running holds no batch, and one about to mark its row has a status.     *)
IdleHoldNothing ==
  \A p \in Processors :
    /\ current[p] # NoRow <=> pc[p] \in {"limit", "used", "mark", "issue"}
    /\ pc[p] \in {"off", "starting"} => batch[p] = {}
    /\ pc[p] = "mark" => verdict[p] \in Verdicts

UnnumberedAlone == pc[NoNumber] # "off" => AllOff(Workers)

(* A worker's rows are its own users', and so are those it may still load. *)
OwnUsers ==
  /\ \A p \in Workers : \A i \in batch[p] : hash[UserOf(i)] = p
  /\ \A p \in Workers : current[p] # NoRow => hash[UserOf(current[p])] = p
  /\ \A i \in PendingRows : transactions[i].processorId \in {Unassigned, hash[UserOf(i)]}

(* What a processor holds in memory is still pending in the table.         *)
HeldArePending ==
  \A p \in Processors :
    /\ batch[p] \subseteq PendingRows
    /\ current[p] \notin batch[p]
    /\ pc[p] \in {"limit", "used", "mark"} => Pending(current[p])

(* What the checks have read about the rebates is still so when it is used *)
ChecksStillHold ==
  \A p \in Processors :
    /\ Cleared(p) => NotUsed(Message(p))
    /\ Cleared(p) \/ pc[p] = "used" => CanBeRedeemed(Message(p))
    /\ pc[p] = "mark" => JustlyRejected(Message(p), verdict[p])

IInv ==
  /\ TypeOK
  /\ IdleHoldNothing
  /\ UnnumberedAlone
  /\ OwnUsers
  /\ HeldArePending
  /\ ChecksStillHold
  /\ OneRebatePerTransaction
  /\ RedemptionLimitRespected
  /\ RejectionsAreJustified
=============================================================================
