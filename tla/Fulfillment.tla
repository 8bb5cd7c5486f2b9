---------------------------- MODULE Fulfillment -----------------------------
(***************************************************************************)
(* FulfillmentStrategy: the bank has paid a rebate and says so with a      *)
(* transaction of type fulfillment.  A processor checks it against the     *)
(* rebate it names, marks its row, marks the rebate and updates the        *)
(* rebate's journal record.  The export meanwhile writes journal records   *)
(* and makes rebates PendingFulfillment.                                   *)
(*                                                                         *)
(* One step is one database statement with the code up to the next one.    *)
(* Which processor takes which row is the subject of                       *)
(* TransactionProcessing; what it guarantees, that rows of one user are    *)
(* handled one after the other, is the guard of Take.                      *)
(***************************************************************************)
EXTENDS Integers

CONSTANTS
  Messages,       \* the fulfillments that may be sent
  Rebates,        \* the rebates that were issued
  AccountOf,      \* of each rebate
  AmountOf,       \* of each rebate
  KnownUsers,     \* the users in the ledger
  Processors,     \* the processes that handle rows
  NoRebateId,     \* a missing rebate id
  NotANumber,     \* the text "NaN"
  NoMessage,      \* a processor that holds no row
  NoTransaction,  \* fulfilled_transaction_id IS NULL
  MaxFaults       \* bound: exceptions, and processes that die

(* A message is a row: sent twice it is two messages with one transaction. *)
(* A transaction id names one transaction, hence one user.                 *)
ASSUME ConstantsAssumption ==
  /\ {NoRebateId, NotANumber} \cap Rebates = {}
  /\ NoRebateId # NotANumber
  /\ NoMessage \notin Messages
  /\ NoTransaction \notin {m.transactionId : m \in Messages}
  /\ MaxFaults \in Nat
  /\ \A m \in Messages : m.byHand \in BOOLEAN
  /\ \A m, n \in Messages : m.transactionId = n.transactionId => m.userId = n.userId

VARIABLES
  rowStatus,      \* of the row of each message; "none" before it arrives
  rebateStatus,   \* of each rebate
  fulfilledBy,    \* fulfilled_transaction_id of each rebate
  journal,        \* status of the journal records of each rebate, two at most
  faults,         \* how many faults there were
  cutOff,         \* the messages whose last handling a fault cut off
  pc,             \* where each processor is in the strategy
  current,        \* the message whose row it handles
  result,         \* what FulfillmentValidation returned
  existingReport  \* the journal record it found

tables == <<rowStatus, rebateStatus, fulfilledBy, journal>>
processorVars == <<pc, current, result, existingReport>>
history == <<faults, cutOff>>
vars == <<tables, history, processorVars>>

JournalStatuses == {"none", "PendingFulfillment", "FulfilledTransSuccessful"}

Transactions == {m.transactionId : m \in Messages}

(* Two users share an account: the rows of each are handled one after the  *)
(* other, those of the two at the same time.                               *)
Rivals ==
  {pair \in Transactions \X Transactions :
     \E m, n \in Messages :
       /\ pair = <<m.transactionId, n.transactionId>>
       /\ m.accountId = n.accountId /\ m.userId # n.userId}

Mismatches == {"RebateIdNotFound", "FulfilledTransUsedAlready", "CannotFindClient",
               "RebateNotFound", "FulfilledTransHasDiffAccount",
               "FulfilledTransHasWrongAmount", "RebateNotPending"}
Results == Mismatches \cup {"FulfilledTransSuccessful"}

----------------------------------------------------------------------------
Init ==
  /\ rowStatus = [m \in Messages |-> "none"]
  /\ rebateStatus = [r \in Rebates |-> "ExtractionStarted"]
  /\ fulfilledBy = [r \in Rebates |-> NoTransaction]
  /\ journal = [r \in Rebates |-> [k \in 1 .. 2 |-> "none"]]
  /\ faults = 0
  /\ cutOff = {}
  /\ pc = [p \in Processors |-> "idle"]
  /\ current = [p \in Processors |-> NoMessage]
  /\ result = [p \in Processors |-> "none"]
  /\ existingReport = [p \in Processors |-> 0]

Fault == faults < MaxFaults /\ faults' = faults + 1

(* Number(object.rebateId).toString(): what the Kafka serializer makes of  *)
(* a rebate id that is missing or no number.  The form of the web UI       *)
(* stores what was typed.                                                  *)
RebateId(m) ==
  IF m.rebateId = NoRebateId /\ ~m.byHand THEN NotANumber ELSE m.rebateId

Arrive(m) ==
  /\ rowStatus[m] = "none"
  /\ rowStatus' = [rowStatus EXCEPT ![m] = "Pending"]
  /\ UNCHANGED <<rebateStatus, fulfilledBy, journal, history, processorVars>>

(* The export writes a journal record, a second one after a failure, and   *)
(* then makes the rebate PendingFulfillment (RebateExport).                *)
WriteJournal(r) ==
  /\ rebateStatus[r] = "ExtractionStarted"
  /\ \E k \in 1 .. 2 :
       /\ \A l \in 1 .. 2 : journal[r][l] = "none" <=> l >= k
       /\ journal' = [journal EXCEPT ![r][k] = "PendingFulfillment"]
       /\ IF k = 2 THEN Fault /\ UNCHANGED cutOff ELSE UNCHANGED history
  /\ UNCHANGED <<rowStatus, rebateStatus, fulfilledBy, processorVars>>

MarkExported(r) ==
  /\ rebateStatus[r] = "ExtractionStarted"
  /\ journal[r][1] # "none"
  /\ rebateStatus' = [rebateStatus EXCEPT ![r] = "PendingFulfillment"]
  /\ UNCHANGED <<rowStatus, fulfilledBy, journal, history, processorVars>>

----------------------------------------------------------------------------
(* A processor.                                                            *)

(* The processor is done with the row, or dropped it after an exception.   *)
Release(p) ==
  /\ pc' = [pc EXCEPT ![p] = "idle"]
  /\ current' = [current EXCEPT ![p] = NoMessage]
  /\ result' = [result EXCEPT ![p] = "none"]
  /\ existingReport' = [existingReport EXCEPT ![p] = 0]

Throw(p) == Fault /\ Release(p) /\ cutOff' = cutOff \cup {current[p]}

(* FulfillmentValidation: the first state that matches.                    *)
Decide(p, status) ==
  /\ pc' = [pc EXCEPT ![p] = "mark"]
  /\ result' = [result EXCEPT ![p] = status]
  /\ UNCHANGED <<current, existingReport>>

Take(p, m) ==
  /\ pc[p] = "idle"
  /\ rowStatus[m] = "Pending"
  /\ \A q \in Processors : current[q] # NoMessage => current[q].userId # m.userId
  /\ current' = [current EXCEPT ![p] = m]
  /\ IF RebateId(m) = NoRebateId
     THEN /\ pc' = [pc EXCEPT ![p] = "mark"]
          /\ result' = [result EXCEPT ![p] = "RebateIdNotFound"]
     ELSE /\ pc' = [pc EXCEPT ![p] = "used"]
          /\ UNCHANGED result
  /\ cutOff' = cutOff \ {m}
  /\ UNCHANGED <<tables, faults, existingReport>>

NotUsedForTheRebate(m) ==
  RebateId(m) \in Rebates => fulfilledBy[RebateId(m)] # m.transactionId

NotUsed(m) == \A r \in Rebates : fulfilledBy[r] # m.transactionId

ClientNotFound(m) == m.userId \notin KnownUsers

(* TransactionUsed, then ClientNotFound.                                   *)
CheckUsed(p) ==
  /\ pc[p] = "used"
  /\ \/ /\ ~NotUsed(current[p])
        /\ Decide(p, "FulfilledTransUsedAlready")
        /\ UNCHANGED history
     \/ /\ NotUsed(current[p])
        /\ ClientNotFound(current[p])
        /\ Decide(p, "CannotFindClient")
        /\ UNCHANGED history
     \/ /\ NotUsed(current[p])
        /\ ~ClientNotFound(current[p])
        /\ pc' = [pc EXCEPT ![p] = "find"]
        /\ UNCHANGED <<history, current, result, existingReport>>
     \/ Throw(p)
  /\ UNCHANGED tables

AccountMismatch(m, r) == m.accountId # AccountOf[r]

AmountMismatch(m, r) == m.amount # AmountOf[r]

StatusMismatch(r) == rebateStatus[r] # "PendingFulfillment"

(* The last four states, in their order; all look at the rebate that the   *)
(* context cached.                                                         *)
Match(m, r) ==
  CASE AccountMismatch(m, r) -> "FulfilledTransHasDiffAccount"
    [] ~AccountMismatch(m, r) /\ AmountMismatch(m, r) -> "FulfilledTransHasWrongAmount"
    [] ~AccountMismatch(m, r) /\ ~AmountMismatch(m, r) /\ StatusMismatch(r) -> "RebateNotPending"
    [] OTHER -> "FulfilledTransSuccessful"

RebateNotFound(id) == id \notin Rebates \cup {NotANumber}

(* The rebate is looked up by a serial id: the text "NaN" makes the query  *)
(* throw, each time.                                                       *)
FindRebate(p) ==
  /\ pc[p] = "find"
  /\ LET id == RebateId(current[p])
     IN  \/ id = NotANumber /\ Release(p) /\ UNCHANGED history
         \/ RebateNotFound(id) /\ Decide(p, "RebateNotFound") /\ UNCHANGED history
         \/ id \in Rebates /\ Decide(p, Match(current[p], id)) /\ UNCHANGED history
         \/ Throw(p)
  /\ UNCHANGED tables

MarkSuccessOnly(p) ==
  /\ pc[p] = "mark"
  /\ \/ /\ result[p] = "FulfilledTransSuccessful"
        /\ rowStatus' = [rowStatus EXCEPT ![current[p]] = result[p]]
        /\ pc' = [pc EXCEPT ![p] = "update"]
        /\ UNCHANGED <<current, result, existingReport>>
     \/ result[p] # "FulfilledTransSuccessful" /\ Release(p) /\ UNCHANGED rowStatus
  /\ UNCHANGED <<rebateStatus, fulfilledBy, journal, history>>

(* TransactionUpdate: the row is processed before the rebate is touched.   *)
MarkAsProcessed(p) ==
  /\ pc[p] = "mark"
  /\ \/ /\ rowStatus' = [rowStatus EXCEPT ![current[p]] = result[p]]
        /\ UNCHANGED history
        /\ \/ /\ result[p] = "FulfilledTransSuccessful"
              /\ pc' = [pc EXCEPT ![p] = "update"]
              /\ UNCHANGED <<current, result, existingReport>>
           \/ result[p] # "FulfilledTransSuccessful" /\ Release(p)
     \/ Throw(p) /\ UNCHANGED rowStatus
  /\ UNCHANGED <<rebateStatus, fulfilledBy, journal>>

UpdateRebateStatusOnly(p) ==
  /\ pc[p] = "update"
  /\ rebateStatus' = [rebateStatus EXCEPT ![RebateId(current[p])] = "FulfilledTransSuccessful"]
  /\ pc' = [pc EXCEPT ![p] = "findReport"]
  /\ UNCHANGED <<rowStatus, fulfilledBy, journal, history, current, result, existingReport>>

(* SuccessfulFulfilledRebate, and the dispatch to Kafka, whose errors are  *)
(* only logged.                                                            *)
UpdateRebate(p) ==
  /\ pc[p] = "update"
  /\ \/ /\ rebateStatus' = [rebateStatus EXCEPT ![RebateId(current[p])] =
                                                  "FulfilledTransSuccessful"]
        /\ fulfilledBy' = [fulfilledBy EXCEPT ![RebateId(current[p])] = current[p].transactionId]
        /\ pc' = [pc EXCEPT ![p] = "findReport"]
        /\ UNCHANGED <<history, current, result, existingReport>>
     \/ Throw(p) /\ UNCHANGED <<rebateStatus, fulfilledBy>>
  /\ UNCHANGED <<rowStatus, journal>>

ReportsWithStatusOf(r) == {k \in 1 .. 2 : journal[r][k] = rebateStatus[r]}

(* getExistingReport: one of the rebate's records that is                  *)
(* PendingFulfillment; it throws where there is none.                      *)
ReportsOf(r) == {k \in 1 .. 2 : journal[r][k] = "PendingFulfillment"}

FindReport(p) ==
  /\ pc[p] = "findReport"
  /\ LET reports == ReportsOf(RebateId(current[p]))
     IN  \/ /\ \E k \in reports : existingReport' = [existingReport EXCEPT ![p] = k]
            /\ pc' = [pc EXCEPT ![p] = "updateReport"]
            /\ UNCHANGED <<history, current, result>>
         \/ reports = {} /\ Release(p) /\ UNCHANGED history
         \/ Throw(p)
  /\ UNCHANGED tables

UpdateReport(p) ==
  /\ pc[p] = "updateReport"
  /\ \/ /\ journal' = [journal EXCEPT ![RebateId(current[p])][existingReport[p]] =
                                        "FulfilledTransSuccessful"]
        /\ Release(p)
        /\ UNCHANGED history
     \/ Throw(p) /\ UNCHANGED journal
  /\ UNCHANGED <<rowStatus, rebateStatus, fulfilledBy>>

(* The process dies, or exits with its master; another takes its place.    *)
Crash(p) ==
  /\ pc[p] # "idle"
  /\ Throw(p)
  /\ UNCHANGED tables

Step(p) ==
  \/ CheckUsed(p) \/ FindRebate(p) \/ MarkAsProcessed(p) \/ UpdateRebate(p)
  \/ FindReport(p) \/ UpdateReport(p)

Next ==
  \/ \E m \in Messages : Arrive(m)
  \/ \E r \in Rebates : WriteJournal(r) \/ MarkExported(r)
  \/ \E p \in Processors : (\E m \in Messages : Take(p, m)) \/ Step(p) \/ Crash(p)

Spec == Init /\ [][Next]_vars

(* Every run loads every pending row, and a processor that has started on  *)
(* a row gets on.                                                          *)
Fairness ==
  /\ \A m \in Messages : SF_vars(\E p \in Processors : Take(p, m))
  /\ \A p \in Processors : WF_vars(Step(p))

FairSpec == Spec /\ Fairness

----------------------------------------------------------------------------
(* Every variable has the type its comment gives.                          *)
TypeOK ==
  /\ rowStatus \in [Messages -> Results \cup {"none", "Pending"}]
  /\ rebateStatus \in [Rebates -> {"ExtractionStarted", "PendingFulfillment",
                                   "FulfilledTransSuccessful"}]
  /\ fulfilledBy \in [Rebates -> Transactions \cup {NoTransaction}]
  /\ journal \in [Rebates -> [1 .. 2 -> JournalStatuses]]
  /\ faults \in 0 .. MaxFaults
  /\ cutOff \subseteq Messages
  /\ pc \in [Processors -> {"idle", "used", "find", "mark", "update", "findReport",
                            "updateReport"}]
  /\ current \in [Processors -> Messages \cup {NoMessage}]
  /\ result \in [Processors -> Results \cup {"none"}]
  /\ existingReport \in [Processors -> 0 .. 2]

(* What fulfillment promises of a rebate and a transaction: each has one   *)
(* partner, which only a rival replaces (RebateClaims).                    *)
Claims ==
  INSTANCE RebateClaims WITH Rebates <- Rebates, Transactions <- Transactions,
                             NoTransaction <- NoTransaction, Rivals <- Rivals,
                             fulfilledBy <- fulfilledBy

ClaimsSpec == Claims!Spec

(* A fulfilled rebate is fulfilled by a transaction of its own account and *)
(* amount whose row says so.                                               *)
FulfilledHasItsRow ==
  \A r \in Rebates :
    rebateStatus[r] = "FulfilledTransSuccessful" =>
      \E m \in Messages :
        /\ fulfilledBy[r] = m.transactionId
        /\ RebateId(m) = r
        /\ m.accountId = AccountOf[r] /\ m.amount = AmountOf[r]
        /\ rowStatus[m] = "FulfilledTransSuccessful"

(* A processor is between the marking of a row of this rebate and the end. *)
BeingFulfilled(r) ==
  \E p \in Processors :
    pc[p] \in {"update", "findReport", "updateReport"} /\ RebateId(current[p]) = r

(* A row of this rebate was marked successful before the fault.            *)
CutOffAfterMarking(r) ==
  \E m \in cutOff : rowStatus[m] = "FulfilledTransSuccessful" /\ RebateId(m) = r

(* The journal says of a rebate what the table of rebates says, whatever   *)
(* the number of its records, once nobody is at work on it: unless the     *)
(* work on a row of it was cut off after the row was marked.               *)
JournalFollows ==
  \A r \in Rebates :
    \/ rebateStatus[r] = "FulfilledTransSuccessful" <=>
         \E k \in 1 .. 2 : journal[r][k] = "FulfilledTransSuccessful"
    \/ BeingFulfilled(r)
    \/ CutOffAfterMarking(r)

(* "validates a legitimate fulfillment" (validating_fulfillments.spec): a  *)
(* row marked successful has fulfilled its rebate, itself or with a rival  *)
(* in its place, or is about to.  Only the rows that a fault cut off after *)
(* the marking have lost their fulfillment, for good.                      *)
SuccessMeansFulfilled ==
  \A m \in Messages :
    rowStatus[m] = "FulfilledTransSuccessful" =>
      \/ fulfilledBy[RebateId(m)] = m.transactionId
      \/ <<m.transactionId, fulfilledBy[RebateId(m)]>> \in Rivals
      \/ m \in cutOff
      \/ \E p \in Processors : pc[p] = "update" /\ current[p] = m

(* Every fulfillment gets its result, in spite of the faults, but for one  *)
(* whose rebate id the serializer made a NaN.                              *)
EveryNumberedRowProcessed ==
  \A m \in Messages :
    RebateId(m) # NotANumber => (rowStatus[m] = "Pending" ~> rowStatus[m] \in Results)

----------------------------------------------------------------------------
(* The invariants behind them.                                             *)

OneUserAtATime ==
  \A p, q \in Processors :
    p # q /\ current[p] # NoMessage /\ current[q] # NoMessage =>
      current[p].userId # current[q].userId

HoldsWhileAtWork ==
  \A p \in Processors :
    /\ pc[p] = "idle" <=> current[p] = NoMessage
    /\ pc[p] \in {"update", "findReport", "updateReport"} =>
         result[p] = "FulfilledTransSuccessful"
    /\ pc[p] \in {"used", "find", "mark"} => rowStatus[current[p]] = "Pending"
    /\ pc[p] = "mark" => result[p] \in Results

Matched(p) ==
  \/ pc[p] \in {"update", "findReport", "updateReport"}
  \/ pc[p] = "mark" /\ result[p] = "FulfilledTransSuccessful"

(* The rebate waits for a fulfillment, or a rival of this one was first.   *)
Available(m, r) ==
  \/ rebateStatus[r] = "PendingFulfillment"
  \/ /\ rebateStatus[r] = "FulfilledTransSuccessful"
     /\ <<fulfilledBy[r], m.transactionId>> \in Rivals

(* What the validation has read still holds when the rebate is updated,    *)
(* but for what a rival did meanwhile.                                     *)
ChecksStillHold ==
  \A p \in Processors :
    /\ pc[p] = "find" => NotUsed(current[p])
    /\ Matched(p) => /\ RebateId(current[p]) \in Rebates
                     /\ current[p].accountId = AccountOf[RebateId(current[p])]
                     /\ current[p].amount = AmountOf[RebateId(current[p])]
    /\ Matched(p) /\ pc[p] \in {"mark", "update"} =>
         NotUsed(current[p]) /\ Available(current[p], RebateId(current[p]))
    /\ pc[p] \in {"update", "findReport", "updateReport"} =>
         rowStatus[current[p]] = "FulfilledTransSuccessful"

UnfulfilledHaveNoTransaction ==
  \A r \in Rebates :
    rebateStatus[r] # "FulfilledTransSuccessful" => fulfilledBy[r] = NoTransaction

IInv ==
  /\ TypeOK
  /\ OneUserAtATime
  /\ HoldsWhileAtWork
  /\ ChecksStillHold
  /\ UnfulfilledHaveNoTransaction
  /\ FulfilledHasItsRow

(* SuccessMeansFulfilled, and that the row passed its checks.              *)
RowsTell ==
  \A m \in Messages :
    rowStatus[m] = "FulfilledTransSuccessful" =>
      /\ RebateId(m) \in Rebates
      /\ m.accountId = AccountOf[RebateId(m)]
      /\ \/ fulfilledBy[RebateId(m)] = m.transactionId
         \/ <<m.transactionId, fulfilledBy[RebateId(m)]>> \in Rivals
         \/ m \in cutOff
         \/ \E p \in Processors : pc[p] = "update" /\ current[p] = m

(* Who is about to fulfill a rebate that was fulfilled works for another   *)
(* user.                                                                   *)
LateAreRivals ==
  \A p \in Processors, m \in Messages \ cutOff :
    /\ Matched(p) /\ pc[p] \in {"mark", "update"}
    /\ rowStatus[m] = "FulfilledTransSuccessful"
    /\ RebateId(m) = RebateId(current[p])
    /\ m # current[p]
    => m.userId # current[p].userId

(* The journal runs behind the rebate, and not for long.                   *)
JournalTells ==
  \A r \in Rebates :
    /\ rebateStatus[r] # "ExtractionStarted" => \E k \in 1 .. 2 : journal[r][k] # "none"
    /\ (\E k \in 1 .. 2 : journal[r][k] = "FulfilledTransSuccessful") =>
         rebateStatus[r] = "FulfilledTransSuccessful"
    /\ rebateStatus[r] = "FulfilledTransSuccessful" =>
         \/ \E k \in 1 .. 2 : journal[r][k] = "FulfilledTransSuccessful"
         \/ BeingFulfilled(r)
         \/ CutOffAfterMarking(r)

ReportAtHand ==
  \A p \in Processors :
    /\ pc[p] \in {"findReport", "updateReport"} =>
         rebateStatus[RebateId(current[p])] = "FulfilledTransSuccessful"
    /\ pc[p] = "updateReport" => existingReport[p] \in 1 .. 2

Accounted == RowsTell /\ LateAreRivals /\ JournalTells /\ ReportAtHand
=============================================================================
