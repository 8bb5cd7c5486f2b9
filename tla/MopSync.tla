------------------------------- MODULE MopSync -------------------------------
(***************************************************************************)
(* syncTotalsToMOP: for every offer, how many rebates were fulfilled since *)
(* the last sync and what they sum up to is added to two running totals in *)
(* another database, and the rebates are marked as synced.  The offers are *)
(* handled side by side, the reads of all before the first update.  The    *)
(* master syncs at the end of a run; so do the command MOP_SYNC and a      *)
(* button of the web UI.                                                   *)
(*                                                                         *)
(* A total is kept as the rebates it was made from: how often each was     *)
(* added to it.  One step is one database statement.                       *)
(***************************************************************************)
EXTENDS Integers, FiniteSets

CONSTANTS
  Rebates,
  Offers,            \* the rebate criteria
  OfferOf,           \* of each rebate
  MopOffers,         \* the offers that the other database knows
  Syncs,             \* the processes that sync
  MaxFaults          \* bound: exceptions, exits, and syncs started beside another

ASSUME ConstantsAssumption ==
  /\ OfferOf \in [Rebates -> Offers]
  /\ IsFiniteSet(Syncs)
  /\ MaxFaults \in Nat

VARIABLES
  fulfilled,   \* the rebates FulfilledTransSuccessful
  synced,      \* the rebates with a last_mop_sync
  counted,     \* how often each is in running_redemption_count__c
  summed,      \* how often each is in running_redemption_amount_v3__c
  running,     \* the syncs that run
  task,        \* where each sync is with each offer
  countRead,   \* the rebates it counted
  sumRead,     \* the rebates it summed up
  faults,
  late         \* history: fulfilled after the sync that may mark them began

syncVars == <<running, task, countRead, sumRead>>
totals == <<counted, summed>>
vars == <<fulfilled, synced, totals, syncVars, faults, late>>

Of(o) == {r \in Rebates : OfferOf[r] = o}

Init ==
  /\ fulfilled = {} /\ synced = {}
  /\ counted = [r \in Rebates |-> 0]
  /\ summed = [r \in Rebates |-> 0]
  /\ running = {}
  /\ task = [s \in Syncs |-> [o \in Offers |-> "none"]]
  /\ countRead = [s \in Syncs |-> [o \in Offers |-> {}]]
  /\ sumRead = [s \in Syncs |-> [o \in Offers |-> {}]]
  /\ faults = 0
  /\ late = {}

Fault == faults < MaxFaults /\ faults' = faults + 1

(* FulfillmentStrategy.                                                    *)
Fulfill(r) ==
  /\ r \notin fulfilled
  /\ fulfilled' = fulfilled \cup {r}
  /\ late' = IF running = {} THEN late ELSE late \cup {r}
  /\ UNCHANGED <<synced, totals, syncVars, faults>>

Start(s) ==
  /\ s \notin running
  /\ \/ running = {} /\ late' = late \cap synced /\ UNCHANGED faults
     \/ running # {} /\ Fault /\ UNCHANGED late
  /\ running' = running \cup {s}
  /\ task' = [task EXCEPT ![s] = [o \in Offers |-> "count"]]
  /\ UNCHANGED <<fulfilled, synced, totals, countRead, sumRead>>

(* A sync is over, or its process is.                                      *)
End(s) ==
  /\ running' = running \ {s}
  /\ task' = [task EXCEPT ![s] = [o \in Offers |-> "none"]]
  /\ countRead' = [countRead EXCEPT ![s] = [o \in Offers |-> {}]]
  /\ sumRead' = [sumRead EXCEPT ![s] = [o \in Offers |-> {}]]
  /\ UNCHANGED <<fulfilled, synced, totals, late>>

Advance(s, o, to) == task' = [task EXCEPT ![s][o] = to]

Redeemed(o) == Of(o) \cap fulfilled
(* totalRedeemedCountForUpdate, totalRedeemedSumForUpdate                  *)
RedeemedForUpdate(o) == (Of(o) \cap fulfilled) \ synced

Count(s, o) ==
  /\ task[s][o] = "count"
  /\ countRead' = [countRead EXCEPT ![s][o] = RedeemedForUpdate(o)]
  /\ Advance(s, o, "sum")
  /\ UNCHANGED <<fulfilled, synced, totals, running, sumRead, faults, late>>

Sum(s, o) ==
  /\ task[s][o] = "sum"
  /\ sumRead' = [sumRead EXCEPT ![s][o] = RedeemedForUpdate(o)]
  /\ Advance(s, o, "update")
  /\ UNCHANGED <<fulfilled, synced, totals, running, countRead, faults, late>>

Added(total, rebates) == [r \in Rebates |-> IF r \in rebates THEN total[r] + 1 ELSE total[r]]

UpdateExistingTotals(s, o) ==
  /\ task[s][o] = "update"
  /\ \A p \in Offers : task[s][p] \notin {"count", "sum"}
  /\ Advance(s, o, IF \E r \in Of(o) : counted[r] > 0 THEN "mark" ELSE "done")
  /\ UNCHANGED <<fulfilled, synced, totals, running, countRead, sumRead, faults, late>>

(* All totals are read before the first is updated.  The update of an      *)
(* offer that is not there updates nothing.                                *)
Update(s, o) ==
  /\ task[s][o] = "update"
  /\ \A p \in Offers : task[s][p] \notin {"count", "sum"}
  /\ counted' = IF o \in MopOffers THEN Added(counted, countRead[s][o]) ELSE counted
  /\ summed' = IF o \in MopOffers THEN Added(summed, sumRead[s][o]) ELSE summed
  /\ Advance(s, o, "mark")
  /\ UNCHANGED <<fulfilled, synced, running, countRead, sumRead, faults, late>>

MarkEveryOffer(s, o) ==
  /\ task[s][o] = "mark"
  /\ synced' = synced \cup fulfilled
  /\ Advance(s, o, "done")
  /\ UNCHANGED <<fulfilled, totals, running, countRead, sumRead, faults, late>>

(* setRebatesAsSynced: whatever is fulfilled by now.                       *)
SetRebatesAsSynced(s, o) ==
  /\ task[s][o] = "mark"
  /\ synced' = synced \cup Redeemed(o)
  /\ Advance(s, o, "done")
  /\ UNCHANGED <<fulfilled, totals, running, countRead, sumRead, faults, late>>

(* A statement throws.  Before the updates the sync is over; later the     *)
(* other offers go on, unless the process exits.                           *)
Throw(s, o) ==
  /\ Fault
  /\ \/ task[s][o] \in {"count", "sum"} /\ End(s)
     \/ /\ task[s][o] \in {"update", "mark"}
        /\ \A p \in Offers : task[s][p] \notin {"count", "sum"}
        /\ Advance(s, o, "done")
        /\ UNCHANGED <<fulfilled, synced, totals, running, countRead, sumRead, late>>

(* process.exit, after an exception or by any other cause.                 *)
Exit(s) == s \in running /\ Fault /\ End(s)

Finish(s) ==
  /\ s \in running
  /\ \A o \in Offers : task[s][o] = "done"
  /\ End(s)
  /\ UNCHANGED faults

Step(s) ==
  \/ \E o \in Offers : Count(s, o) \/ Sum(s, o) \/ Update(s, o) \/ SetRebatesAsSynced(s, o)
  \/ Finish(s)

Next ==
  \/ \E r \in Rebates : Fulfill(r)
  \/ \E s \in Syncs : Start(s) \/ Step(s) \/ Exit(s) \/ \E o \in Offers : Throw(s, o)

Spec == Init /\ [][Next]_vars

(* A sync is started every day, and one that runs gets on.                 *)
Fairness ==
  /\ SF_vars(\E s \in Syncs : Start(s))
  /\ \A s \in Syncs : WF_vars(Step(s))

FairSpec == Spec /\ Fairness

----------------------------------------------------------------------------
Stages == {"none", "count", "sum", "update", "mark", "done"}

(* Every variable has the type its comment gives.                          *)
TypeOK ==
  /\ fulfilled \subseteq Rebates
  /\ synced \subseteq fulfilled
  /\ counted \in [Rebates -> Nat]
  /\ summed \in [Rebates -> Nat]
  /\ running \subseteq Syncs
  /\ task \in [Syncs -> [Offers -> Stages]]
  /\ countRead \in [Syncs -> [Offers -> SUBSET Rebates]]
  /\ sumRead \in [Syncs -> [Offers -> SUBSET Rebates]]
  /\ \A s \in Syncs, o \in Offers : countRead[s][o] \cup sumRead[s][o] \subseteq Of(o)
  /\ faults \in 0 .. MaxFaults
  /\ late \subseteq fulfilled

(* "after a successful update, update the rebates to be synced with MOP"   *)
(* (offer_repository): a rebate marked as synced is in both totals, unless *)
(* it was fulfilled while the sync ran that marks it, or MOP does not know *)
(* its offer; no exception, exit or second sync leaves one out.            *)
OnlyLateOnesAreMissing ==
  \A r \in synced \ late : OfferOf[r] \in MopOffers => counted[r] >= 1 /\ summed[r] >= 1

(* "doesn't count previous rebates after syncing multiple times"           *)
(* (syncing_salesforce_totals.spec): it takes a fault to count a rebate    *)
(* once more, one each time.                                               *)
CountedOnceAndPerFault == \A r \in Rebates : counted[r] <= 1 + faults /\ summed[r] <= 1 + faults

(* Every fulfilled rebate is synced by one of the syncs to come.           *)
EveryFulfilledIsSynced == \A r \in Rebates : r \in fulfilled ~> r \in synced

----------------------------------------------------------------------------
(* The invariant behind OnlyLateOnesAreMissing: what a sync is about to    *)
(* mark it has read, or somebody else has added it.                        *)

OnlyTheRunningWork == \A s \in Syncs \ running, o \in Offers : task[s][o] = "none"

InCount(s, o, r) == r \in countRead[s][o] \/ counted[r] >= 1
InSum(s, o, r) == r \in sumRead[s][o] \/ summed[r] >= 1

ReadOrAdded ==
  \A s \in running, o \in Offers \cap MopOffers : \A r \in Redeemed(o) \ late :
    /\ task[s][o] \in {"sum", "update"} => InCount(s, o, r)
    /\ task[s][o] = "update" => InSum(s, o, r)
    /\ task[s][o] = "mark" => counted[r] >= 1 /\ summed[r] >= 1

IInv ==
  /\ TypeOK
  /\ OnlyTheRunningWork
  /\ ReadOrAdded
  /\ OnlyLateOnesAreMissing

(* The invariant behind CountedOnceAndPerFault.  A rebate that no sync may *)
(* still mark is in a total as often as something failed; each sync that   *)
(* may still add it counts as if it had, and all but the first are faults. *)

AtWork(r) == {s \in Syncs : task[s][OfferOf[r]] \in {"count", "sum", "update", "mark"}}

MayCount(r) ==
  {s \in Syncs : \/ task[s][OfferOf[r]] = "count" /\ r \notin synced
                 \/ task[s][OfferOf[r]] \in {"sum", "update"} /\ r \in countRead[s][OfferOf[r]]}

MaySum(r) ==
  {s \in Syncs : \/ task[s][OfferOf[r]] \in {"count", "sum"} /\ r \notin synced
                 \/ task[s][OfferOf[r]] = "update" /\ r \in sumRead[s][OfferOf[r]]}

Allowed(r) == IF r \in synced \/ AtWork(r) # {} THEN faults + 1 ELSE faults

Within(r) ==
  /\ counted[r] + Cardinality(MayCount(r)) <= Allowed(r)
  /\ summed[r] + Cardinality(MaySum(r)) <= Allowed(r)

WithinFaults == \A r \in Rebates : Within(r)

UnfulfilledAreNotAdded ==
  \A r \in Rebates \ fulfilled :
    /\ counted[r] = 0 /\ summed[r] = 0
    /\ \A s \in Syncs, o \in Offers : r \notin countRead[s][o] \cup sumRead[s][o]

CountInv == UnfulfilledAreNotAdded /\ WithinFaults
=============================================================================
