---------------------------- MODULE RebateEvents ----------------------------
(***************************************************************************)
(* The events that tell of rebates.  The export marks rebates as           *)
(* PendingFulfillment and then publishes them, each as it finds it then;   *)
(* a processor publishes each rebate it fulfills, and none that it issues. *)
(* Each run has a Producer of its own.  dispatch builds an event and gives it to the publisher,    *)
(* whose background delivery nothing waits for, and the process exits when *)
(* the work is done.                                                       *)
(*                                                                         *)
(* One step is one database statement or one call of the producer, with    *)
(* the code up to the next one.  How rebates come to be exported and       *)
(* fulfilled is the subject of RebateExport and Fulfillment.               *)
(***************************************************************************)
EXTENDS Integers, SequencesExt

CONSTANTS
  Rebates,
  Exporters, Processors,   \* the runs that may be under way at a time
  NoRebate,
  MaxFaults                \* bound: exceptions, deaths, failed and repeated deliveries

Runs == Exporters \cup Processors

ASSUME ConstantsAssumption ==
  /\ Exporters \cap Processors = {}
  /\ NoRebate \notin Rebates
  /\ MaxFaults \in Nat

VARIABLES
  status,       \* of each rebate
  pc,           \* where each run is
  current,      \* the rebate it handles
  found,        \* what the export found of it
  todo,         \* the rebates the export still has to publish
  queue,        \* what its publisher has still to deliver
  topic,        \* what was delivered
  faults,
  \* For the properties only:
  lost,         \* the events that will never be delivered
  crossed       \* the rebates that were fulfilled while an event of the export
                \* was under way

runVars == <<pc, current, found, todo>>
vars == <<status, runVars, queue, topic, faults, lost, crossed>>

Event(r, st) == [rebate |-> r, status |-> st]

Init ==
  /\ status = [r \in Rebates |-> "none"]
  /\ pc = [p \in Runs |-> "off"]
  /\ current = [p \in Runs |-> NoRebate]
  /\ found = [p \in Runs |-> "none"]
  /\ todo = [p \in Runs |-> {}]
  /\ queue = [p \in Runs |-> <<>>]
  /\ topic = <<>> /\ faults = 0 /\ lost = {} /\ crossed = {}

Fault == faults < MaxFaults /\ faults' = faults + 1

Go(p, next) == pc' = [pc EXCEPT ![p] = next]

Hold(p, r, st) == current' = [current EXCEPT ![p] = r] /\ found' = [found EXCEPT ![p] = st]

(* PendingRebateIssuance: the row says when it was dispatched, but nothing *)
(* is given to the producer.                                               *)
Issue(r) ==
  /\ status[r] = "none"
  /\ status' = [status EXCEPT ![r] = "PendingExtraction"]
  /\ UNCHANGED <<runVars, queue, topic, faults, lost, crossed>>

(* An export that is under way extracts the rebate.                        *)
Extract(r) ==
  /\ status[r] = "PendingExtraction"
  /\ status' = [status EXCEPT ![r] = "ExtractionStarted"]
  /\ UNCHANGED <<runVars, queue, topic, faults, lost, crossed>>

(* dispatch: the event is built and handed over at once.  If that throws,  *)
(* nothing but a warning follows; the publisher delivers or loses it later.*)
Dispatch(p, r, st) ==
  \/ /\ queue' = [queue EXCEPT ![p] = Append(@, Event(r, st))]
     /\ UNCHANGED <<faults, lost>>
  \/ Fault /\ lost' = lost \cup {Event(r, st)} /\ UNCHANGED queue

----------------------------------------------------------------------------
(* RebateExport, from its last update on.                                  *)

Extracted == {r \in Rebates : status[r] = "ExtractionStarted"}

UpdateExportedRebates(e) ==
  /\ pc[e] = "off" /\ Extracted # {}
  /\ status' = [r \in Rebates |-> IF r \in Extracted THEN "PendingFulfillment" ELSE status[r]]
  /\ todo' = [todo EXCEPT ![e] = Extracted]
  /\ Go(e, "connect")
  /\ UNCHANGED <<current, found, queue, topic, faults, lost, crossed>>

Unpublished(e) == {Event(r, "PendingFulfillment") : r \in todo[e]}

(* RebateProducer.init; if it throws, the export fails and publishes none. *)
Connect(e) ==
  /\ pc[e] = "connect"
  /\ \/ Go(e, "publish") /\ UNCHANGED <<todo, faults, lost>>
     \/ /\ Fault
        /\ Go(e, "done")
        /\ lost' = lost \cup Unpublished(e)
        /\ todo' = [todo EXCEPT ![e] = {}]
  /\ UNCHANGED <<status, current, found, queue, topic, crossed>>

(* With the try around the loop.                                           *)
FindOrGiveUp(e) ==
  /\ pc[e] = "publish"
  /\ \E r \in todo[e] :
       \/ /\ todo' = [todo EXCEPT ![e] = @ \ {r}]
          /\ Hold(e, r, status[r])
          /\ Go(e, "dispatch")
          /\ UNCHANGED <<faults, lost>>
       \/ /\ Fault
          /\ lost' = lost \cup {Event(r, "PendingFulfillment")}
          /\ todo' = [todo EXCEPT ![e] = {}]
          /\ UNCHANGED <<pc, current, found>>
  /\ UNCHANGED <<status, queue, topic, crossed>>

(* As rebates were when they were marked.                                  *)
FindAsMarked(e) ==
  /\ pc[e] = "publish"
  /\ \E r \in todo[e] :
       /\ todo' = [todo EXCEPT ![e] = @ \ {r}]
       /\ \/ /\ Hold(e, r, "PendingFulfillment")
             /\ Go(e, "dispatch")
             /\ UNCHANGED <<faults, lost>>
          \/ /\ Fault
             /\ lost' = lost \cup {Event(r, "PendingFulfillment")}
             /\ UNCHANGED <<pc, current, found>>
  /\ UNCHANGED <<status, queue, topic, crossed>>

(* RebateRepository.findOrFail for the next of the loop.  If it throws,    *)
(* the loop goes on.                                                       *)
FindOrFail(e) ==
  /\ pc[e] = "publish"
  /\ \E r \in todo[e] :
       /\ todo' = [todo EXCEPT ![e] = @ \ {r}]
       /\ \/ /\ Hold(e, r, status[r])
             /\ Go(e, "dispatch")
             /\ UNCHANGED <<faults, lost>>
          \/ /\ Fault
             /\ lost' = lost \cup {Event(r, "PendingFulfillment")}
             /\ UNCHANGED <<pc, current, found>>
  /\ UNCHANGED <<status, queue, topic, crossed>>

DispatchFound(e) ==
  /\ pc[e] = "dispatch"
  /\ Dispatch(e, current[e], found[e])
  /\ Hold(e, NoRebate, "none")
  /\ Go(e, "publish")
  /\ UNCHANGED <<status, todo, topic, crossed>>

FinishPublishing(e) ==
  /\ pc[e] = "publish" /\ todo[e] = {}
  /\ Go(e, "done")
  /\ UNCHANGED <<status, current, found, todo, queue, topic, faults, lost, crossed>>

----------------------------------------------------------------------------
(* TransactionProcessing.perform, and SuccessfulFulfilledRebate.           *)

(* Without a producer nothing is processed.                                *)
Start(p) ==
  /\ pc[p] = "off"
  /\ Go(p, "ready")
  /\ UNCHANGED <<status, current, found, todo, queue, topic, faults, lost, crossed>>

(* A fulfillment whose validation found its rebate pending.  The rows of a *)
(* user, hence the fulfillments of a rebate, are handled one by one.       *)
Take(p, r) ==
  /\ pc[p] = "ready"
  /\ status[r] = "PendingFulfillment"
  /\ \A q \in Processors : current[q] # r
  /\ Hold(p, r, "none")
  /\ Go(p, "update")
  /\ UNCHANGED <<status, todo, queue, topic, faults, lost, crossed>>

Underway(r) ==
  \E e \in Exporters :
    \/ current[e] = r /\ found[e] = "PendingFulfillment"
    \/ Event(r, "PendingFulfillment") \in ToSet(queue[e])

UpdateInBackground(p) ==
  /\ pc[p] = "update"
  /\ \/ /\ status' = [status EXCEPT ![current[p]] = "FulfilledTransSuccessful"]
        /\ crossed' = IF Underway(current[p]) THEN crossed \cup {current[p]} ELSE crossed
        /\ UNCHANGED faults
     \/ Fault /\ UNCHANGED <<status, crossed>>
  /\ Go(p, "dispatch")
  /\ UNCHANGED <<current, found, todo, queue, topic, lost>>

(* RebateRepository.update; an exception ends the work on the row.         *)
UpdateRebate(p) ==
  /\ pc[p] = "update"
  /\ \/ /\ status' = [status EXCEPT ![current[p]] = "FulfilledTransSuccessful"]
        /\ crossed' = IF Underway(current[p]) THEN crossed \cup {current[p]} ELSE crossed
        /\ Go(p, "dispatch")
        /\ UNCHANGED <<current, found, faults>>
     \/ /\ Fault
        /\ Hold(p, NoRebate, "none")
        /\ Go(p, "ready")
        /\ UNCHANGED <<status, crossed>>
  /\ UNCHANGED <<todo, queue, topic, lost>>

(* The event tells what was written, not what the context had cached.      *)
DispatchUpdated(p) ==
  /\ pc[p] = "dispatch"
  /\ Dispatch(p, current[p], "FulfilledTransSuccessful")
  /\ Hold(p, NoRebate, "none")
  /\ Go(p, "ready")
  /\ UNCHANGED <<status, todo, topic, crossed>>

FinishProcessing(p) ==
  /\ pc[p] = "ready"
  /\ Go(p, "done")
  /\ UNCHANGED <<status, current, found, todo, queue, topic, faults, lost, crossed>>

----------------------------------------------------------------------------
(* Any run.                                                                *)

(* The publisher delivers in the order of the calls; a delivery may fail,  *)
(* or be repeated when its acknowledgement is late.                        *)
Deliver(p) ==
  /\ queue[p] # <<>>
  /\ \/ /\ topic' = Append(topic, Head(queue[p]))
        /\ queue' = [queue EXCEPT ![p] = Tail(@)]
        /\ UNCHANGED <<faults, lost>>
     \/ /\ Fault /\ topic' = Append(topic, Head(queue[p]))
        /\ UNCHANGED <<queue, lost>>
     \/ /\ Fault /\ lost' = lost \cup {Head(queue[p])}
        /\ queue' = [queue EXCEPT ![p] = Tail(@)]
        /\ UNCHANGED topic
  /\ UNCHANGED <<status, runVars, crossed>>

(* The process ends: what its publisher still has goes with it.            *)
End(p, untold) ==
  /\ lost' = lost \cup ToSet(queue[p]) \cup untold
  /\ queue' = [queue EXCEPT ![p] = <<>>]
  /\ todo' = [todo EXCEPT ![p] = {}]
  /\ Hold(p, NoRebate, "none")
  /\ Go(p, "off")

(* JobRunner.start: process.exit(0) when the work is done.                 *)
Exit(p) ==
  /\ pc[p] = "done"
  /\ End(p, {})
  /\ UNCHANGED <<status, topic, faults, crossed>>

Die(p) ==
  /\ pc[p] # "off" /\ Fault
  /\ End(p, IF p \in Exporters
            THEN Unpublished(p) \cup IF pc[p] = "dispatch" THEN {Event(current[p], found[p])} ELSE {}
            ELSE IF pc[p] = "dispatch" THEN {Event(current[p], "FulfilledTransSuccessful")}
                 ELSE {})
  /\ UNCHANGED <<status, topic, crossed>>

----------------------------------------------------------------------------
ExporterStep(e) == Connect(e) \/ FindOrFail(e) \/ DispatchFound(e) \/ FinishPublishing(e)

ProcessorStep(p) == UpdateRebate(p) \/ DispatchUpdated(p)

Next ==
  \/ \E r \in Rebates : Issue(r) \/ Extract(r)
  \/ \E e \in Exporters : UpdateExportedRebates(e) \/ ExporterStep(e)
  \/ \E p \in Processors :
       Start(p) \/ (\E r \in Rebates : Take(p, r)) \/ ProcessorStep(p) \/ FinishProcessing(p)
  \/ \E p \in Runs : Deliver(p) \/ Exit(p) \/ Die(p)

Spec == Init /\ [][Next]_vars

(* A run that has work gets on with it, and a connected publisher delivers.*)
FairSpec ==
  /\ Spec
  /\ \A e \in Exporters : WF_vars(ExporterStep(e))
  /\ \A p \in Processors : WF_vars(ProcessorStep(p))
  /\ \A p \in Runs : WF_vars(Deliver(p))

----------------------------------------------------------------------------
Statuses == {"none", "PendingExtraction", "ExtractionStarted", "PendingFulfillment",
             "FulfilledTransSuccessful"}
Events == [rebate : Rebates, status : Statuses]

(* Every variable has the type its comment gives.                          *)
TypeOK ==
  /\ status \in [Rebates -> Statuses]
  /\ pc \in [Runs -> {"off", "connect", "publish", "ready", "update", "dispatch", "done"}]
  /\ current \in [Runs -> Rebates \cup {NoRebate}]
  /\ found \in [Runs -> Statuses]
  /\ todo \in [Runs -> SUBSET Rebates]
  /\ queue \in [Runs -> Seq(Events)]
  /\ topic \in Seq(Events)
  /\ faults \in 0 .. MaxFaults
  /\ lost \subseteq Events
  /\ crossed \subseteq Rebates

(* An event tells only what the database says, or said before the rebate   *)
(* got on: it is built after the update that it tells of (publishRebates,  *)
(* SuccessfulFulfilledRebate), whatever throws between the two.            *)
EventsTellWhatWas ==
  \A k \in DOMAIN topic :
    \/ status[topic[k].rebate] = topic[k].status
    \/ /\ status[topic[k].rebate] = "FulfilledTransSuccessful"
       /\ topic[k].status = "PendingFulfillment"

(* A rebate that was told to be fulfilled is not told to be pending after  *)
(* that, though two processes tell it: the export reads each rebate when   *)
(* its turn comes.  What it has read or queued by then may come late.      *)
EventsInOrder ==
  \A k, l \in DOMAIN topic :
    /\ k < l
    /\ topic[k].rebate = topic[l].rebate /\ topic[k].rebate \notin crossed
    /\ topic[k].status = "FulfilledTransSuccessful"
    => topic[l].status = "FulfilledTransSuccessful"

(* What an export or a fulfillment makes of a rebate is told in the end, or*)
(* lost for good when the process exits or something fails; an error about *)
(* one rebate costs no other its event.                                    *)
EveryUpdateIsTold ==
  \A r \in Rebates :
    /\ status[r] = "PendingFulfillment" ~>
         \E st \in {"PendingFulfillment", "FulfilledTransSuccessful"} :
           Event(r, st) \in ToSet(topic) \cup lost
    /\ status[r] = "FulfilledTransSuccessful" ~>
         Event(r, "FulfilledTransSuccessful") \in ToSet(topic) \cup lost

----------------------------------------------------------------------------
(* The inductive invariant: a rebate of which an event may tell has been   *)
(* updated, and what was read of it or queued is or was so.                *)

Told == {"PendingFulfillment", "FulfilledTransSuccessful"}

Tells(event) ==
  /\ event.status \in Told
  /\ \/ status[event.rebate] = event.status
     \/ status[event.rebate] = "FulfilledTransSuccessful"

ExporterHolds(e) ==
  /\ \A r \in todo[e] : status[r] \in Told
  /\ pc[e] = "dispatch" => current[e] \in Rebates /\ Tells(Event(current[e], found[e]))
  /\ pc[e] # "dispatch" => current[e] = NoRebate

ProcessorHolds(p) ==
  /\ pc[p] \in {"update", "dispatch"} => current[p] \in Rebates /\ status[current[p]] \in Told
  /\ pc[p] = "dispatch" => status[current[p]] = "FulfilledTransSuccessful"

HeldAreTrue ==
  /\ \A e \in Exporters : ExporterHolds(e)
  /\ \A p \in Processors : ProcessorHolds(p)

QueuedAreTrue ==
  /\ \A p \in Runs : \A k \in DOMAIN queue[p] : Tells(queue[p][k])
  /\ \A p \in Processors : \A k \in DOMAIN queue[p] :
       queue[p][k].status = "FulfilledTransSuccessful"

DeliveredAreTrue == \A k \in DOMAIN topic : Tells(topic[k])

UnderwayOnlyIfCrossed ==
  \A r \in Rebates \ crossed : status[r] = "FulfilledTransSuccessful" => ~Underway(r)

IInv ==
  /\ TypeOK
  /\ HeldAreTrue
  /\ QueuedAreTrue
  /\ DeliveredAreTrue
  /\ UnderwayOnlyIfCrossed
  /\ EventsInOrder
=============================================================================
