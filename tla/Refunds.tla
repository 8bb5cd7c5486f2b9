------------------------------- MODULE Refunds -------------------------------
(***************************************************************************)
(* RefundStrategy: a transaction of type refund is tracked for reporting   *)
(* where its offer still tracks refunds and its user had a rebate of the   *)
(* offer.  Once a user has two tracked refunds of an offer, they and the   *)
(* transactions that earned the rebates go into the refund report, each    *)
(* inserted and then flagged.                                              *)
(*                                                                         *)
(* One step is one database statement with the code up to the next one.    *)
(* As in Fulfillment, the rows of one user are handled one after another.  *)
(***************************************************************************)
EXTENDS Integers, FiniteSets

CONSTANTS
  Rows,         \* the transactions that may be sent
  Criteria,     \* the known offers, a function to their data
  Processors,
  NoRow,        \* a processor that holds no row
  MaxFaults     \* bound: exceptions, and processes that die

Kinds == {"refund", "qualifying"}

ASSUME ConstantsAssumption ==
  /\ NoRow \notin Rows
  /\ MaxFaults \in Nat
  /\ \A m \in Rows : m.type \in Kinds
  /\ IsFiniteSet(Rows)

(* The refund report, as how often it has each row.                        *)
RefundReport == [Rows -> Nat]

VARIABLES
  rowStatus,            \* of each transaction; "none" before it arrives
  refundReportCreated,  \* the flag of each
  rebates,              \* the qualifying transactions with a rebate
  reports,              \* how often each is in the refund report
  faults,
  pc,                   \* where each processor is in the strategy
  current,              \* the row it handles
  result,               \* what RefundValidation returned
  refunds,              \* the tracked refunds it read, those without the flag
  qualifying,           \* the qualifying transactions it read
  reporting             \* the one of them that is in the report and not flagged

tables == <<rowStatus, refundReportCreated, rebates, reports>>
processorVars == <<pc, current, result, refunds, qualifying, reporting>>
vars == <<tables, faults, processorVars>>

Results == {"OfferNotFound", "RebateNotFound", "RefundNotTrackedForReporting",
            "RefundTrackedForReporting"}

Init ==
  /\ rowStatus = [m \in Rows |-> "none"]
  /\ refundReportCreated = [m \in Rows |-> FALSE]
  /\ rebates = {}
  /\ reports = [m \in Rows |-> 0]
  /\ faults = 0
  /\ pc = [p \in Processors |-> "idle"]
  /\ current = [p \in Processors |-> NoRow]
  /\ result = [p \in Processors |-> "none"]
  /\ refunds = [p \in Processors |-> {}]
  /\ qualifying = [p \in Processors |-> {}]
  /\ reporting = [p \in Processors |-> NoRow]

Fault == faults < MaxFaults /\ faults' = faults + 1

SameClientOffer(m, n) == m.userId = n.userId /\ m.rebateCriteriaId = n.rebateCriteriaId

FreeUser(m) == \A q \in Processors : current[q] # NoRow => current[q].userId # m.userId

(* QualifyingStrategy: the row is marked, and then has its rebate, unless  *)
(* something fails in between (TransactionProcessing).                     *)
Qualify(m) ==
  /\ m.type = "qualifying"
  /\ rowStatus[m] = "none"
  /\ FreeUser(m)
  /\ rowStatus' = [rowStatus EXCEPT ![m] = "RebateCreated"]
  /\ \/ rebates' = rebates \cup {m} /\ UNCHANGED faults
     \/ Fault /\ UNCHANGED rebates
  /\ UNCHANGED <<refundReportCreated, reports, processorVars>>

Arrive(m) ==
  /\ m.type = "refund"
  /\ rowStatus[m] = "none"
  /\ rowStatus' = [rowStatus EXCEPT ![m] = "Pending"]
  /\ UNCHANGED <<refundReportCreated, rebates, reports, faults, processorVars>>

----------------------------------------------------------------------------
(* The processor is done with the row, or dropped it after an exception.   *)
Release(p) ==
  /\ pc' = [pc EXCEPT ![p] = "idle"]
  /\ current' = [current EXCEPT ![p] = NoRow]
  /\ result' = [result EXCEPT ![p] = "none"]
  /\ refunds' = [refunds EXCEPT ![p] = {}]
  /\ qualifying' = [qualifying EXCEPT ![p] = {}]
  /\ reporting' = [reporting EXCEPT ![p] = NoRow]

Throw(p) == Fault /\ Release(p)

GoTo(p, at) == pc' = [pc EXCEPT ![p] = at]

CriteriaIsMissing(m) == m.rebateCriteriaId \notin DOMAIN Criteria

(* RefundContext.isTrackingRefunds: the refund period prolongs the offer.  *)
IsTrackingRefunds(m) ==
  LET c == Criteria[m.rebateCriteriaId]
  IN  /\ c.validFromDate <= m.transactionDate
      /\ m.transactionDate <= c.validToDate + c.refundPeriodInDays
      /\ c.hasBeenActivated
      /\ c.isRedeemable

Take(p, m) ==
  /\ pc[p] = "idle"
  /\ rowStatus[m] = "Pending"
  /\ FreeUser(m)
  /\ current' = [current EXCEPT ![p] = m]
  /\ IF CriteriaIsMissing(m)
     THEN GoTo(p, "mark") /\ result' = [result EXCEPT ![p] = "OfferNotFound"]
     ELSE GoTo(p, "findRebates") /\ UNCHANGED result
  /\ UNCHANGED <<tables, faults, refunds, qualifying, reporting>>

(* findQualifyingTransactions                                              *)
RebatesOf(m) == {q \in rebates : SameClientOffer(q, m)}

RebateNotFound(m) == RebatesOf(m) = {}

RefundNotTracked(m) == ~IsTrackingRefunds(m)

(* RefundValidation: the first state that matches.                         *)
Verdict(m) ==
  CASE RebateNotFound(m) -> "RebateNotFound"
    [] ~RebateNotFound(m) /\ RefundNotTracked(m) -> "RefundNotTrackedForReporting"
    [] OTHER -> "RefundTrackedForReporting"

Validate(p) ==
  /\ pc[p] = "findRebates"
  /\ \/ /\ result' = [result EXCEPT ![p] = Verdict(current[p])]
        /\ GoTo(p, "mark")
        /\ UNCHANGED <<faults, current, refunds, qualifying, reporting>>
     \/ Throw(p)
  /\ UNCHANGED tables

(* TransactionUpdate; the report is looked after whatever the result is,   *)
(* but for an unknown offer.                                               *)
MarkAsProcessed(p) ==
  /\ pc[p] = "mark"
  /\ \/ /\ rowStatus' = [rowStatus EXCEPT ![current[p]] = result[p]]
        /\ UNCHANGED faults
        /\ \/ result[p] = "OfferNotFound" /\ Release(p)
           \/ /\ result[p] # "OfferNotFound"
              /\ GoTo(p, "findRefunds")
              /\ UNCHANGED <<current, result, refunds, qualifying, reporting>>
     \/ Throw(p) /\ UNCHANGED rowStatus
  /\ UNCHANGED <<refundReportCreated, rebates, reports>>

(* getRefundTransactionsForClientOffer                                     *)
TrackedRefundsOf(m) ==
  {n \in Rows : SameClientOffer(n, m) /\ rowStatus[n] = "RefundTrackedForReporting"}

FlaggedOrNot(rows) == rows

Unflagged(rows) == {n \in rows : ~refundReportCreated[n]}

FindRefundsAnyNumber(p) ==
  /\ pc[p] = "findRefunds"
  /\ refunds' = [refunds EXCEPT ![p] = Unflagged(TrackedRefundsOf(current[p]))]
  /\ GoTo(p, "findQualifying")
  /\ UNCHANGED <<tables, faults, current, result, qualifying, reporting>>

FindRefundsIfThree(p) ==
  /\ pc[p] = "findRefunds"
  /\ \/ /\ Cardinality(TrackedRefundsOf(current[p])) > 2
        /\ refunds' = [refunds EXCEPT ![p] = Unflagged(TrackedRefundsOf(current[p]))]
        /\ GoTo(p, "findQualifying")
        /\ UNCHANGED <<faults, current, result, qualifying, reporting>>
     \/ Cardinality(TrackedRefundsOf(current[p])) <= 2 /\ Release(p) /\ UNCHANGED faults
     \/ Throw(p)
  /\ UNCHANGED tables

FindRefunds(p) ==
  /\ pc[p] = "findRefunds"
  /\ \/ /\ Cardinality(TrackedRefundsOf(current[p])) >= 2
        /\ refunds' = [refunds EXCEPT ![p] = Unflagged(TrackedRefundsOf(current[p]))]
        /\ GoTo(p, "findQualifying")
        /\ UNCHANGED <<faults, current, result, qualifying, reporting>>
     \/ Cardinality(TrackedRefundsOf(current[p])) < 2 /\ Release(p) /\ UNCHANGED faults
     \/ Throw(p)
  /\ UNCHANGED tables

(* getAssociatedQualifyingTransactions                                     *)
QualifyingOf(m) ==
  {n \in Rows : n.type = "qualifying" /\ SameClientOffer(n, m) /\ rowStatus[n] = "RebateCreated"}

FindQualifying(p) ==
  /\ pc[p] = "findQualifying"
  /\ \/ /\ qualifying' = [qualifying EXCEPT ![p] = Unflagged(QualifyingOf(current[p]))]
        /\ GoTo(p, "insert")
        /\ UNCHANGED <<faults, current, result, refunds, reporting>>
     \/ Throw(p)
  /\ UNCHANGED tables

TodoRefundsOnly(p) == refunds[p]

Todo(p) == IF refunds[p] # {} THEN refunds[p] ELSE qualifying[p]

(* insertRefundReportFromTransaction: the record, and then the flag.       *)
InsertReport(p) ==
  /\ pc[p] = "insert"
  /\ \/ \E m \in Todo(p) :
          /\ reports' = [reports EXCEPT ![m] = @ + 1]
          /\ GoTo(p, "flag")
          /\ reporting' = [reporting EXCEPT ![p] = m]
          /\ UNCHANGED <<faults, current, result, refunds, qualifying>>
     \/ Todo(p) = {} /\ Release(p) /\ UNCHANGED <<faults, reports>>
     \/ Throw(p) /\ UNCHANGED reports
  /\ UNCHANGED <<rowStatus, refundReportCreated, rebates>>

FlagReported(p) ==
  /\ pc[p] = "flag"
  /\ \/ /\ refundReportCreated' = [refundReportCreated EXCEPT ![reporting[p]] = TRUE]
        /\ refunds' = [refunds EXCEPT ![p] = @ \ {reporting[p]}]
        /\ qualifying' = [qualifying EXCEPT ![p] = @ \ {reporting[p]}]
        /\ reporting' = [reporting EXCEPT ![p] = NoRow]
        /\ GoTo(p, "insert")
        /\ UNCHANGED <<faults, current, result>>
     \/ Throw(p) /\ UNCHANGED refundReportCreated
  /\ UNCHANGED <<rowStatus, rebates, reports>>

Crash(p) ==
  /\ pc[p] # "idle"
  /\ Throw(p)
  /\ UNCHANGED tables

Step(p) ==
  \/ Validate(p) \/ MarkAsProcessed(p) \/ FindRefunds(p) \/ FindQualifying(p)
  \/ InsertReport(p) \/ FlagReported(p)

Next ==
  \/ \E m \in Rows : Qualify(m) \/ Arrive(m)
  \/ \E p \in Processors : (\E m \in Rows : Take(p, m)) \/ Step(p) \/ Crash(p)

Spec == Init /\ [][Next]_vars

----------------------------------------------------------------------------
(* Every variable has the type its comment gives.                          *)
TypeOK ==
  /\ rowStatus \in [Rows -> Results \cup {"none", "Pending", "RebateCreated"}]
  /\ refundReportCreated \in [Rows -> BOOLEAN]
  /\ rebates \subseteq Rows
  /\ reports \in RefundReport
  /\ faults \in 0 .. MaxFaults
  /\ pc \in [Processors -> {"idle", "findRebates", "mark", "findRefunds", "findQualifying",
                            "insert", "flag"}]
  /\ current \in [Processors -> Rows \cup {NoRow}]
  /\ result \in [Processors -> Results \cup {"none"}]
  /\ refunds \in [Processors -> SUBSET Rows]
  /\ qualifying \in [Processors -> SUBSET Rows]
  /\ reporting \in [Processors -> Rows \cup {NoRow}]

Idle == \A p \in Processors : pc[p] = "idle"

(* Reports are for two refunds or more (RefundReportCreate.perform): of a  *)
(* client and offer that have a row in the report, two refunds are tracked *)
(* and there is a rebate, and the row is one of those refunds or of the    *)
(* transactions that earned a rebate.                                      *)
OnlyRepeatedRefundsAreReported ==
  \A m \in Rows :
    reports[m] > 0 =>
      /\ Cardinality(TrackedRefundsOf(m)) >= 2
      /\ RebatesOf(m) # {}
      /\ m \in TrackedRefundsOf(m) \cup QualifyingOf(m)

(* The flag keeps a transaction from being reported again; it takes a      *)
(* fault between the insert and the flag to report it once more.           *)
ReportedOnceAndPerFault ==
  \A m \in Rows : /\ reports[m] <= 1 + faults
                  /\ refundReportCreated[m] => reports[m] >= 1

(* When nobody is at work and nothing has failed, all tracked refunds of a *)
(* client and offer that has two are in the report.                        *)
RepeatedRefundsAreReported ==
  Idle /\ faults = 0 =>
    \A m \in Rows :
      Cardinality(TrackedRefundsOf(m)) >= 2 => \A n \in TrackedRefundsOf(m) : reports[n] = 1

(* A report that comes to its end without a fault leaves out no refund and *)
(* no qualifying transaction of its client and offer.                      *)
ReportsAreComplete ==
  [][\A p \in Processors :
       pc[p] = "insert" /\ pc'[p] = "idle" /\ faults' = faults =>
         \A n \in TrackedRefundsOf(current[p]) \cup QualifyingOf(current[p]) :
           refundReportCreated[n]]_vars

----------------------------------------------------------------------------
(* The inductive invariant.                                                *)

OneUserAtATime ==
  \A p, q \in Processors :
    p # q /\ current[p] # NoRow /\ current[q] # NoRow => current[p].userId # current[q].userId

Reporting(p) == pc[p] \in {"findQualifying", "insert", "flag"}

HoldsWhileAtWork ==
  \A p \in Processors :
    /\ pc[p] = "idle" <=> current[p] = NoRow
    /\ pc[p] \in {"findRebates", "mark"} => rowStatus[current[p]] = "Pending"
    /\ pc[p] = "mark" => result[p] \in Results
    /\ pc[p] = "mark" /\ result[p] # "OfferNotFound" =>
         (result[p] = "RebateNotFound" \/ RebatesOf(current[p]) # {})
    /\ Reporting(p) => Cardinality(TrackedRefundsOf(current[p])) >= 2
    /\ pc[p] # "flag" => reporting[p] = NoRow
    /\ pc[p] = "flag" => reporting[p] \in refunds[p] \cup qualifying[p]

(* What a processor has left to report is unflagged still, and of its      *)
(* client and offer.                                                       *)
LeftToReport ==
  \A p \in Processors :
    \A n \in refunds[p] \cup qualifying[p] :
      /\ Reporting(p)
      /\ ~refundReportCreated[n]
      /\ SameClientOffer(n, current[p])
      /\ n \in TrackedRefundsOf(n) \cup QualifyingOf(n)

TrackedHaveARebate ==
  \A m \in Rows : rowStatus[m] = "RefundTrackedForReporting" => RebatesOf(m) # {}

(* A row in the report is flagged, about to be, or was left so by a fault. *)
RepeatsNeedFaults ==
  \A m \in Rows :
    /\ reports[m] <= 1 + faults
    /\ refundReportCreated[m] => reports[m] >= 1
    /\ reports[m] <= faults \/ refundReportCreated[m] \/ \E p \in Processors : reporting[p] = m
    /\ \A p \in Processors : reporting[p] = m => reports[m] >= 1

IInv ==
  /\ TypeOK
  /\ OneUserAtATime
  /\ HoldsWhileAtWork
  /\ LeftToReport
  /\ TrackedHaveARebate
  /\ RepeatsNeedFaults
  /\ OnlyRepeatedRefundsAreReported

----------------------------------------------------------------------------
(* A processor that reports has in hand whatever of its client and offer   *)
(* is not flagged: nobody else adds to it, the client is this processor's. *)
NothingLeftOut ==
  \A p \in Processors :
    /\ Reporting(p) =>
         \A n \in TrackedRefundsOf(current[p]) : refundReportCreated[n] \/ n \in refunds[p]
    /\ pc[p] \in {"insert", "flag"} =>
         \A n \in QualifyingOf(current[p]) : refundReportCreated[n] \/ n \in qualifying[p]

(* Without a fault, two tracked refunds of a client and offer are in the   *)
(* report, or a processor is about to see to it.                           *)
SeenTo ==
  faults = 0 =>
    \A n \in Rows :
      /\ rowStatus[n] = "RefundTrackedForReporting"
      /\ ~refundReportCreated[n]
      /\ Cardinality(TrackedRefundsOf(n)) >= 2
      => \E p \in Processors : /\ pc[p] = "findRefunds" \/ Reporting(p)
                               /\ SameClientOffer(n, current[p])
=============================================================================
