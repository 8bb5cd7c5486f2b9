------------------------- MODULE RebateEvents_proofs -------------------------
(***************************************************************************)
(* For any rebates, runs and number of faults: the types, that events tell *)
(* what was written, and that they come in order.                          *)
(*                                                                         *)
(* Once a rebate is pending it only gets fulfilled (Grow), so whatever is  *)
(* true of it stays so on its way through the publisher.  When it is       *)
(* fulfilled, either an event of the export is under way, and the rebate   *)
(* is one of those crossed, or none ever will be that tells of it as       *)
(* pending (UnderwayOnlyIfCrossed).                                        *)
(***************************************************************************)
EXTENDS RebateEvents, TLAPS

(* What is appended comes last, and the rest stays where it was.           *)
LEMMA Appended ==
  ASSUME NEW S, NEW s \in Seq(S), NEW x \in S
  PROVE  /\ Append(s, x) \in Seq(S)
         /\ DOMAIN s = 1 .. Len(s) /\ DOMAIN Append(s, x) = 1 .. Len(s) + 1 /\ Len(s) \in Nat
         /\ \A k \in DOMAIN s : Append(s, x)[k] = s[k]
         /\ Append(s, x)[Len(s) + 1] = x
OBVIOUS

(* What is left of a queue was in it.                                      *)
LEMMA Shifted ==
  ASSUME NEW S, NEW s \in Seq(S), s # <<>>
  PROVE  /\ Head(s) \in S /\ Tail(s) \in Seq(S)
         /\ 1 \in DOMAIN s /\ Head(s) = s[1]
         /\ \A k \in DOMAIN Tail(s) : k + 1 \in DOMAIN s /\ Tail(s)[k] = s[k + 1]
OBVIOUS

LEMMA InitInv == Init => IInv
<1> SUFFICES ASSUME Init PROVE IInv
  OBVIOUS
<1>1. <<>> \in Seq(Events) /\ DOMAIN <<>> = {} /\ Exporters \subseteq Runs
  BY DEF Runs
<1>2. TypeOK
  BY <1>1, ConstantsAssumption DEF Init, TypeOK, Statuses
<1>3. HeldAreTrue
  BY <1>1 DEF Init, HeldAreTrue, ExporterHolds, ProcessorHolds, Runs
<1>4. QueuedAreTrue /\ DeliveredAreTrue /\ EventsInOrder
  BY <1>1 DEF Init, QueuedAreTrue, DeliveredAreTrue, EventsInOrder, Runs
<1>5. UnderwayOnlyIfCrossed
  BY DEF Init, UnderwayOnlyIfCrossed
<1> QED
  BY <1>2, <1>3, <1>4, <1>5 DEF IInv

----------------------------------------------------------------------------
(* Types.                                                                  *)

LEMMA FaultType == TypeOK /\ Fault => faults' \in 0 .. MaxFaults
BY ConstantsAssumption DEF TypeOK, Fault

LEMMA HoldType ==
  ASSUME TypeOK, NEW p \in Runs, NEW r \in Rebates \cup {NoRebate}, NEW st \in Statuses,
         Hold(p, r, st)
  PROVE  current' \in [Runs -> Rebates \cup {NoRebate}] /\ found' \in [Runs -> Statuses]
BY DEF TypeOK, Hold

LEMMA EventType ==
  ASSUME NEW r \in Rebates, NEW st \in Statuses
  PROVE  Event(r, st) \in Events
BY DEF Event, Events

LEMMA DispatchType ==
  ASSUME TypeOK, NEW p \in Runs, NEW r \in Rebates, NEW st \in Statuses, Dispatch(p, r, st)
  PROVE  queue' \in [Runs -> Seq(Events)] /\ faults' \in 0 .. MaxFaults /\ lost' \subseteq Events
<1>1. Event(r, st) \in Events
  BY EventType
<1>2. CASE /\ queue' = [queue EXCEPT ![p] = Append(@, Event(r, st))]
           /\ UNCHANGED <<faults, lost>>
  <2>1. Append(queue[p], Event(r, st)) \in Seq(Events)
    BY <1>1, Appended DEF TypeOK
  <2> QED
    BY <1>2, <2>1 DEF TypeOK
<1>3. CASE Fault /\ lost' = lost \cup {Event(r, st)} /\ UNCHANGED queue
  BY <1>1, <1>3, FaultType DEF TypeOK
<1> QED
  BY <1>2, <1>3 DEF Dispatch

LEMMA UnpublishedType ==
  ASSUME TypeOK, NEW p \in Runs
  PROVE  Unpublished(p) \subseteq Events
BY EventType DEF TypeOK, Unpublished, Statuses

LEMMA EndType ==
  ASSUME TypeOK, NEW p \in Runs, NEW untold \in SUBSET Events, End(p, untold),
         UNCHANGED <<status, topic, crossed>>, faults' \in 0 .. MaxFaults
  PROVE  TypeOK'
<1>1. queue[p] \in Seq(Events) /\ ToSet(queue[p]) \subseteq Events
  BY DEF TypeOK, ToSet
<1>2. <<>> \in Seq(Events)
  OBVIOUS
<1>3. current' \in [Runs -> Rebates \cup {NoRebate}] /\ found' \in [Runs -> Statuses]
  BY HoldType DEF End, Statuses
<1> QED
  BY <1>1, <1>2, <1>3 DEF End, Go, TypeOK

LEMMA TypeStep == TypeOK /\ HeldAreTrue /\ [Next]_vars => TypeOK'
<1> SUFFICES ASSUME TypeOK, HeldAreTrue, [Next]_vars PROVE TypeOK'
  OBVIOUS
<1>0. "none" \in Statuses /\ Exporters \subseteq Runs /\ Processors \subseteq Runs
  BY DEF Statuses, Runs
<1> USE DEF Go, runVars
<1>1. ASSUME NEW r \in Rebates, Issue(r) \/ Extract(r) PROVE TypeOK'
  BY <1>1 DEF Issue, Extract, TypeOK, Statuses
<1>2. ASSUME NEW e \in Exporters, UpdateExportedRebates(e) PROVE TypeOK'
  BY <1>0, <1>2 DEF UpdateExportedRebates, Extracted, TypeOK, Statuses
<1>3. ASSUME NEW e \in Exporters, Connect(e) PROVE TypeOK'
  BY <1>0, <1>3, FaultType, UnpublishedType DEF Connect, TypeOK
<1>4. ASSUME NEW e \in Exporters, FindOrFail(e) PROVE TypeOK'
  <2> PICK r \in todo[e] :
        /\ todo' = [todo EXCEPT ![e] = @ \ {r}]
        /\ \/ /\ Hold(e, r, status[r])
              /\ Go(e, "dispatch")
              /\ UNCHANGED <<faults, lost>>
           \/ /\ Fault
              /\ lost' = lost \cup {Event(r, "PendingFulfillment")}
              /\ UNCHANGED <<pc, current, found>>
    BY <1>4 DEF FindOrFail
  <2>1. r \in Rebates /\ status[r] \in Statuses /\ "PendingFulfillment" \in Statuses
    BY <1>0 DEF TypeOK, Statuses
  <2>2. Event(r, "PendingFulfillment") \in Events
    BY <2>1, EventType
  <2>3. CASE Hold(e, r, status[r]) /\ Go(e, "dispatch") /\ UNCHANGED <<faults, lost>>
    BY <1>0, <1>4, <2>1, <2>3, HoldType DEF FindOrFail, TypeOK
  <2>4. CASE /\ Fault
             /\ lost' = lost \cup {Event(r, "PendingFulfillment")}
             /\ UNCHANGED <<pc, current, found>>
    BY <1>0, <1>4, <2>2, <2>4, FaultType DEF FindOrFail, TypeOK
  <2> QED
    BY <2>3, <2>4
<1>5. ASSUME NEW e \in Exporters, DispatchFound(e) PROVE TypeOK'
  <2>1. current[e] \in Rebates /\ found[e] \in Statuses
    BY <1>0, <1>5 DEF DispatchFound, HeldAreTrue, ExporterHolds, ProcessorHolds, TypeOK
  <2> QED
    BY <1>0, <1>5, <2>1, DispatchType, HoldType DEF DispatchFound, TypeOK
<1>6. ASSUME NEW e \in Exporters, FinishPublishing(e) PROVE TypeOK'
  BY <1>0, <1>6 DEF FinishPublishing, TypeOK
<1>7. ASSUME NEW p \in Processors, Start(p) PROVE TypeOK'
  BY <1>0, <1>7 DEF Start, TypeOK
<1>8. ASSUME NEW p \in Processors, NEW r \in Rebates, Take(p, r) PROVE TypeOK'
  BY <1>0, <1>8, HoldType DEF Take, TypeOK
<1>9. ASSUME NEW p \in Processors, UpdateRebate(p) PROVE TypeOK'
  <2>1. current[p] \in Rebates
    BY <1>9 DEF UpdateRebate, HeldAreTrue, ProcessorHolds
  <2> QED
    BY <1>0, <1>9, <2>1, FaultType, HoldType DEF UpdateRebate, TypeOK, Statuses
<1>10. ASSUME NEW p \in Processors, DispatchUpdated(p) PROVE TypeOK'
  <2>1. current[p] \in Rebates /\ "FulfilledTransSuccessful" \in Statuses
    BY <1>10 DEF DispatchUpdated, HeldAreTrue, ExporterHolds, ProcessorHolds, Statuses
  <2> QED
    BY <1>0, <1>10, <2>1, DispatchType, HoldType DEF DispatchUpdated, TypeOK
<1>11. ASSUME NEW p \in Processors, FinishProcessing(p) PROVE TypeOK'
  BY <1>0, <1>11 DEF FinishProcessing, TypeOK
<1>12. ASSUME NEW p \in Runs, Deliver(p) PROVE TypeOK'
  <2>1. Head(queue[p]) \in Events /\ Tail(queue[p]) \in Seq(Events)
    BY <1>12, Shifted DEF Deliver, TypeOK
  <2>2. Append(topic, Head(queue[p])) \in Seq(Events)
    BY <2>1, Appended DEF TypeOK
  <2> QED
    BY <1>12, <2>1, <2>2, FaultType DEF Deliver, TypeOK
<1>13. ASSUME NEW p \in Runs, Exit(p) PROVE TypeOK'
  BY <1>13, EndType DEF Exit, TypeOK
<1>14. ASSUME NEW p \in Runs, Die(p) PROVE TypeOK'
  <2> DEFINE untold == IF p \in Exporters
                       THEN Unpublished(p) \cup IF pc[p] = "dispatch"
                                                THEN {Event(current[p], found[p])} ELSE {}
                       ELSE IF pc[p] = "dispatch" THEN {Event(current[p], "FulfilledTransSuccessful")}
                            ELSE {}
  <2>1. pc[p] = "dispatch" =>
          /\ Event(current[p], found[p]) \in Events
          /\ Event(current[p], "FulfilledTransSuccessful") \in Events
    <3>1. pc[p] = "dispatch" => current[p] \in Rebates
      BY DEF HeldAreTrue, ExporterHolds, ProcessorHolds, Runs
    <3>2. found[p] \in Statuses /\ "FulfilledTransSuccessful" \in Statuses
      BY DEF TypeOK, Statuses
    <3> QED
      BY <3>1, <3>2, EventType
  <2>2. untold \in SUBSET Events
    BY <2>1, UnpublishedType
  <2>3. faults' \in 0 .. MaxFaults
    BY <1>14, FaultType DEF Die
  <2>4. End(p, untold) /\ UNCHANGED <<status, topic, crossed>>
    BY <1>14 DEF Die
  <2> QED
    BY <2>2, <2>3, <2>4, EndType
<1>15. CASE UNCHANGED vars
  BY <1>15 DEF vars, TypeOK
<1> QED
  BY <1>1, <1>2, <1>3, <1>4, <1>5, <1>6, <1>7, <1>8, <1>9, <1>10, <1>11, <1>12, <1>13, <1>14,
     <1>15 DEF Next, ExporterStep, ProcessorStep

----------------------------------------------------------------------------
(* A rebate of which an event may tell only gets fulfilled.                *)

Grow ==
  \A r \in Rebates : status[r] \in Told =>
    status'[r] = status[r] \/ status'[r] = "FulfilledTransSuccessful"

LEMMA StepGrows == TypeOK /\ [Next]_vars => Grow
<1> SUFFICES ASSUME TypeOK, [Next]_vars PROVE Grow
  OBVIOUS
<1>1. CASE UNCHANGED status
  BY <1>1 DEF Grow
<1>2. ASSUME NEW r \in Rebates, Issue(r) \/ Extract(r) PROVE Grow
  BY <1>2 DEF Issue, Extract, Grow, Told, TypeOK
<1>3. ASSUME NEW e \in Exporters, UpdateExportedRebates(e) PROVE Grow
  BY <1>3 DEF UpdateExportedRebates, Extracted, Grow, Told, TypeOK
<1>4. ASSUME NEW p \in Processors, UpdateRebate(p) PROVE Grow
  BY <1>4 DEF UpdateRebate, Grow, Told, TypeOK
<1> QED
  BY <1>1, <1>2, <1>3, <1>4
     DEF Next, ExporterStep, ProcessorStep, Connect, FindOrFail, DispatchFound, FinishPublishing,
         Start, Take, DispatchUpdated, FinishProcessing, Deliver, Exit, Die, vars

LEMMA TellsStays ==
  ASSUME Grow, NEW x \in Events, Tells(x)
  PROVE  /\ x.status \in Told
         /\ status'[x.rebate] = x.status \/ status'[x.rebate] = "FulfilledTransSuccessful"
BY DEF Grow, Tells, Events, Told

LEMMA ToldStays ==
  ASSUME Grow, NEW r \in Rebates, status[r] \in Told
  PROVE  status'[r] \in Told
BY DEF Grow, Told

----------------------------------------------------------------------------
(* What a run holds.                                                       *)

LEMMA HeldStep == TypeOK /\ HeldAreTrue /\ Grow /\ [Next]_vars => HeldAreTrue'
<1> SUFFICES ASSUME TypeOK, HeldAreTrue, Grow, [Next]_vars PROVE HeldAreTrue'
  OBVIOUS
<1>0. Exporters \subseteq Runs /\ Processors \subseteq Runs /\ Exporters \cap Processors = {}
  BY ConstantsAssumption DEF Runs
(* A run that keeps what it holds, or lets it go.                          *)
<1>a. ASSUME NEW e \in Exporters, todo'[e] \subseteq todo[e],
             \/ pc'[e] = pc[e] /\ current'[e] = current[e] /\ found'[e] = found[e]
             \/ pc'[e] # "dispatch" /\ current'[e] = NoRebate
      PROVE  ExporterHolds(e)'
  BY <1>0, <1>a DEF HeldAreTrue, ExporterHolds, TypeOK, Grow, Told, Tells, Event
<1>b. ASSUME NEW p \in Processors,
             \/ pc'[p] = pc[p] /\ current'[p] = current[p]
             \/ pc'[p] \notin {"update", "dispatch"}
      PROVE  ProcessorHolds(p)'
  BY <1>0, <1>b DEF HeldAreTrue, ProcessorHolds, TypeOK, Grow, Told
<1>c. ASSUME UNCHANGED runVars PROVE HeldAreTrue'
  BY <1>a, <1>b, <1>c DEF HeldAreTrue, runVars
(* The steps of one run leave the others as they are.                      *)
<1>d. ASSUME NEW e \in Exporters, ExporterHolds(e)',
             \A q \in Runs \ {e} : /\ pc'[q] = pc[q] /\ current'[q] = current[q]
                                   /\ found'[q] = found[q] /\ todo'[q] = todo[q]
      PROVE  HeldAreTrue'
  BY <1>0, <1>a, <1>b, <1>d DEF HeldAreTrue
<1>e. ASSUME NEW p \in Processors, ProcessorHolds(p)',
             \A q \in Runs \ {p} : /\ pc'[q] = pc[q] /\ current'[q] = current[q]
                                   /\ found'[q] = found[q] /\ todo'[q] = todo[q]
      PROVE  HeldAreTrue'
  BY <1>0, <1>a, <1>b, <1>e DEF HeldAreTrue
<1>f. ASSUME NEW p \in Runs, NEW untold, End(p, untold) PROVE HeldAreTrue'
  <2>1. /\ \A q \in Runs \ {p} : /\ pc'[q] = pc[q] /\ current'[q] = current[q]
                                 /\ found'[q] = found[q] /\ todo'[q] = todo[q]
        /\ pc'[p] = "off" /\ current'[p] = NoRebate /\ todo'[p] = {}
    BY <1>f DEF End, Go, Hold, TypeOK
  <2>2. p \in Exporters => ExporterHolds(p)'
    BY <1>a, <2>1
  <2>3. p \in Processors => ProcessorHolds(p)'
    BY <1>b, <2>1
  <2> QED
    BY <1>d, <1>e, <2>1, <2>2, <2>3 DEF Runs
<1> USE DEF Go
<1>1. ASSUME NEW r \in Rebates, Issue(r) \/ Extract(r) PROVE HeldAreTrue'
  BY <1>1, <1>c DEF Issue, Extract
<1>2. ASSUME NEW e \in Exporters, UpdateExportedRebates(e) PROVE HeldAreTrue'
  <2>1. ExporterHolds(e)'
    <3>1. pc'[e] = "connect" /\ current'[e] = NoRebate /\ todo'[e] = Extracted
      BY <1>0, <1>2 DEF UpdateExportedRebates, TypeOK, HeldAreTrue, ExporterHolds
    <3>2. \A r \in Extracted : status'[r] = "PendingFulfillment"
      BY <1>2 DEF UpdateExportedRebates, Extracted
    <3> QED
      BY <3>1, <3>2 DEF ExporterHolds, Told
  <2> QED
    BY <1>0, <1>2, <1>d, <2>1 DEF UpdateExportedRebates, TypeOK
<1>3. ASSUME NEW e \in Exporters, Connect(e) PROVE HeldAreTrue'
  <2>1. /\ pc'[e] # "dispatch" /\ todo'[e] \subseteq todo[e]
        /\ current'[e] = NoRebate
    BY <1>0, <1>3 DEF Connect, TypeOK, HeldAreTrue, ExporterHolds
  <2> QED
    BY <1>0, <1>3, <1>a, <1>d, <2>1 DEF Connect, TypeOK
<1>4. ASSUME NEW e \in Exporters, FindOrFail(e) PROVE HeldAreTrue'
  <2> PICK r \in todo[e] :
        /\ todo' = [todo EXCEPT ![e] = @ \ {r}]
        /\ \/ /\ Hold(e, r, status[r])
              /\ Go(e, "dispatch")
              /\ UNCHANGED <<faults, lost>>
           \/ /\ Fault
              /\ lost' = lost \cup {Event(r, "PendingFulfillment")}
              /\ UNCHANGED <<pc, current, found>>
    BY <1>4 DEF FindOrFail
  <2>1. r \in Rebates /\ status[r] \in Told /\ UNCHANGED status
    BY <1>0, <1>4 DEF TypeOK, HeldAreTrue, ExporterHolds, FindOrFail
  <2>2. CASE Hold(e, r, status[r]) /\ Go(e, "dispatch")
    <3>1. pc'[e] = "dispatch" /\ current'[e] = r /\ found'[e] = status[r]
      BY <1>0, <2>2 DEF Hold, TypeOK
    <3>2. \A x \in todo'[e] : status'[x] \in Told
      BY <1>0, <2>1 DEF HeldAreTrue, ExporterHolds, TypeOK
    <3>3. ExporterHolds(e)'
      BY <2>1, <3>1, <3>2 DEF ExporterHolds, Tells, Event
    <3> QED
      BY <1>0, <1>d, <2>2, <3>3 DEF Hold, TypeOK
  <2>3. CASE UNCHANGED <<pc, current, found>>
    BY <1>0, <1>a, <1>d, <2>3 DEF TypeOK
  <2> QED
    BY <2>2, <2>3
<1>5. ASSUME NEW e \in Exporters, DispatchFound(e) \/ FinishPublishing(e) PROVE HeldAreTrue'
  <2>1. pc'[e] # "dispatch" /\ current'[e] = NoRebate /\ todo'[e] = todo[e]
    BY <1>0, <1>5 DEF DispatchFound, FinishPublishing, Hold, HeldAreTrue, ExporterHolds, TypeOK
  <2> QED
    BY <1>0, <1>5, <1>a, <1>d, <2>1 DEF DispatchFound, FinishPublishing, Hold, TypeOK
<1>6. ASSUME NEW p \in Processors, Start(p) \/ DispatchUpdated(p) \/ FinishProcessing(p)
      PROVE  HeldAreTrue'
  <2>1. pc'[p] \notin {"update", "dispatch"}
    BY <1>0, <1>6 DEF Start, DispatchUpdated, FinishProcessing, TypeOK
  <2> QED
    BY <1>0, <1>6, <1>b, <1>e, <2>1 DEF Start, DispatchUpdated, FinishProcessing, Hold, TypeOK
<1>7. ASSUME NEW p \in Processors, NEW r \in Rebates, Take(p, r) PROVE HeldAreTrue'
  <2>1. ProcessorHolds(p)'
    BY <1>0, <1>7 DEF Take, Hold, ProcessorHolds, Told, TypeOK
  <2> QED
    BY <1>0, <1>7, <1>e, <2>1 DEF Take, Hold, TypeOK
<1>8. ASSUME NEW p \in Processors, UpdateRebate(p) PROVE HeldAreTrue'
  <2>1. CASE /\ status' = [status EXCEPT ![current[p]] = "FulfilledTransSuccessful"]
             /\ Go(p, "dispatch") /\ UNCHANGED <<current, found>>
    <3>1. current[p] \in Rebates
      BY <1>8 DEF UpdateRebate, HeldAreTrue, ProcessorHolds
    <3>2. ProcessorHolds(p)'
      BY <1>0, <2>1, <3>1 DEF ProcessorHolds, Told, TypeOK
    <3> QED
      BY <1>0, <1>8, <1>e, <2>1, <3>2 DEF UpdateRebate, TypeOK
  <2>2. CASE Hold(p, NoRebate, "none") /\ Go(p, "ready") /\ UNCHANGED status
    <3>1. pc'[p] \notin {"update", "dispatch"}
      BY <1>0, <2>2 DEF TypeOK
    <3> QED
      BY <1>0, <1>8, <1>b, <1>e, <2>2, <3>1 DEF UpdateRebate, Hold, TypeOK
  <2> QED
    BY <1>8, <2>1, <2>2 DEF UpdateRebate
<1>9. ASSUME NEW p \in Runs, Deliver(p) PROVE HeldAreTrue'
  BY <1>9, <1>c DEF Deliver
<1>10. ASSUME NEW p \in Runs, Exit(p) \/ Die(p) PROVE HeldAreTrue'
  BY <1>10, <1>f DEF Exit, Die
<1>11. CASE UNCHANGED vars
  BY <1>11, <1>c DEF vars
<1> QED
  BY <1>1, <1>2, <1>3, <1>4, <1>5, <1>6, <1>7, <1>8, <1>9, <1>10, <1>11
     DEF Next, ExporterStep, ProcessorStep

----------------------------------------------------------------------------
(* What is queued and delivered.                                           *)

(* A queue gets what its run dispatches, and loses what was delivered.     *)
Queues ==
  \A p \in Runs : \A k \in DOMAIN queue'[p] :
    \/ \E j \in DOMAIN queue[p] : queue'[p][k] = queue[p][j]
    \/ /\ pc[p] = "dispatch"
       /\ \/ p \in Exporters /\ queue'[p][k] = Event(current[p], found[p])
          \/ p \in Processors /\ queue'[p][k] = Event(current[p], "FulfilledTransSuccessful")

LEMMA DispatchQueues ==
  ASSUME TypeOK, NEW p \in Runs, NEW r \in Rebates, NEW st \in Statuses, Dispatch(p, r, st)
  PROVE  /\ \A q \in Runs \ {p} : queue'[q] = queue[q]
         /\ \A k \in DOMAIN queue'[p] :
              \/ \E j \in DOMAIN queue[p] : queue'[p][k] = queue[p][j]
              \/ queue'[p][k] = Event(r, st)
<1>1. queue[p] \in Seq(Events) /\ Event(r, st) \in Events
  BY EventType DEF TypeOK
<1>2. CASE queue' = [queue EXCEPT ![p] = Append(@, Event(r, st))]
  <2>1. queue'[p] = Append(queue[p], Event(r, st)) /\ \A q \in Runs \ {p} : queue'[q] = queue[q]
    BY <1>2 DEF TypeOK
  <2>2. /\ DOMAIN queue[p] = 1 .. Len(queue[p]) /\ Len(queue[p]) \in Nat
        /\ DOMAIN queue'[p] = 1 .. Len(queue[p]) + 1
        /\ \A j \in DOMAIN queue[p] : queue'[p][j] = queue[p][j]
        /\ queue'[p][Len(queue[p]) + 1] = Event(r, st)
    BY <1>1, <2>1, Appended
  <2> QED
    BY <2>1, <2>2
<1> QED
  BY <1>2 DEF Dispatch

LEMMA StepQueues == TypeOK /\ HeldAreTrue /\ [Next]_vars => Queues
<1> SUFFICES ASSUME TypeOK, HeldAreTrue, [Next]_vars PROVE Queues
  OBVIOUS
<1>0. Exporters \subseteq Runs /\ Processors \subseteq Runs
  BY DEF Runs
<1>1. CASE UNCHANGED queue
  BY <1>1 DEF Queues
<1>2. ASSUME NEW e \in Exporters, DispatchFound(e) PROVE Queues
  <2>1. current[e] \in Rebates /\ found[e] \in Statuses
    BY <1>0, <1>2 DEF DispatchFound, HeldAreTrue, ExporterHolds, TypeOK
  <2> QED
    BY <1>0, <1>2, <2>1, DispatchQueues DEF DispatchFound, Queues
<1>3. ASSUME NEW p \in Processors, DispatchUpdated(p) PROVE Queues
  <2>1. current[p] \in Rebates /\ "FulfilledTransSuccessful" \in Statuses
    BY <1>3 DEF DispatchUpdated, HeldAreTrue, ProcessorHolds, Statuses
  <2> QED
    BY <1>0, <1>3, <2>1, DispatchQueues DEF DispatchUpdated, Queues
<1>4. ASSUME NEW p \in Runs, Deliver(p) PROVE Queues
  <2>1. CASE queue' = [queue EXCEPT ![p] = Tail(@)]
    <3>1. queue'[p] = Tail(queue[p]) /\ \A q \in Runs \ {p} : queue'[q] = queue[q]
      BY <2>1 DEF TypeOK
    <3>2. \A k \in DOMAIN queue'[p] :
            k + 1 \in DOMAIN queue[p] /\ queue'[p][k] = queue[p][k + 1]
      BY <1>4, <3>1, Shifted DEF Deliver, TypeOK
    <3> QED
      BY <3>1, <3>2 DEF Queues
  <2> QED
    BY <1>1, <1>4, <2>1 DEF Deliver
<1>5. ASSUME NEW p \in Runs, NEW untold, End(p, untold) PROVE Queues
  BY <1>5 DEF End, Queues, TypeOK
<1> QED
  BY <1>1, <1>2, <1>3, <1>4, <1>5
     DEF Next, ExporterStep, ProcessorStep, Issue, Extract, UpdateExportedRebates, Connect, FindOrFail,
         FinishPublishing, Start, Take, UpdateRebate, FinishProcessing, Exit, Die, vars

LEMMA QueuedStep ==
  ASSUME TypeOK, TypeOK', HeldAreTrue, QueuedAreTrue, Queues, Grow
  PROVE  QueuedAreTrue'
<1> SUFFICES ASSUME NEW p \in Runs, NEW k \in DOMAIN queue'[p]
             PROVE  /\ Tells(queue[p][k])'
                    /\ p \in Processors => queue'[p][k].status = "FulfilledTransSuccessful"
  BY DEF QueuedAreTrue, Runs
<1>0. \A j \in DOMAIN queue[p] : queue[p][j] \in Events
  BY DEF TypeOK
<1>1. CASE \E j \in DOMAIN queue[p] : queue'[p][k] = queue[p][j]
  <2> PICK j \in DOMAIN queue[p] : queue'[p][k] = queue[p][j]
    BY <1>1
  <2>1. queue[p][j] \in Events /\ Tells(queue[p][j])
    BY <1>0 DEF QueuedAreTrue
  <2> QED
    BY <2>1, TellsStays DEF QueuedAreTrue, Tells
<1>2. CASE p \in Exporters /\ pc[p] = "dispatch" /\ queue'[p][k] = Event(current[p], found[p])
  <2>1. /\ current[p] \in Rebates /\ found[p] \in Statuses /\ Tells(Event(current[p], found[p]))
        /\ p \notin Processors
    BY <1>2, ConstantsAssumption DEF HeldAreTrue, ExporterHolds, TypeOK
  <2> QED
    BY <1>2, <2>1, EventType, TellsStays DEF Tells
<1>3. CASE /\ p \in Processors /\ pc[p] = "dispatch"
           /\ queue'[p][k] = Event(current[p], "FulfilledTransSuccessful")
  <2>1. current[p] \in Rebates /\ status[current[p]] = "FulfilledTransSuccessful"
    BY <1>3 DEF HeldAreTrue, ProcessorHolds
  <2> QED
    BY <1>3, <2>1 DEF Grow, Told, Tells, Event
<1> QED
  BY <1>1, <1>2, <1>3 DEF Queues

(* The topic gets only what is in a queue.                                 *)
LEMMA StepTopic ==
  TypeOK /\ [Next]_vars =>
    \/ topic' = topic
    \/ \E p \in Runs : \E j \in DOMAIN queue[p] :
         topic' = Append(topic, queue[p][j]) /\ UNCHANGED status
<1> SUFFICES ASSUME TypeOK, [Next]_vars
             PROVE  \/ topic' = topic
                    \/ \E p \in Runs : \E j \in DOMAIN queue[p] :
                         topic' = Append(topic, queue[p][j]) /\ UNCHANGED status
  OBVIOUS
<1>1. ASSUME NEW p \in Runs, Deliver(p)
      PROVE  \/ topic' = topic
             \/ \E j \in DOMAIN queue[p] :
                  topic' = Append(topic, queue[p][j]) /\ UNCHANGED status
  <2>1. 1 \in DOMAIN queue[p] /\ Head(queue[p]) = queue[p][1]
    BY <1>1, Shifted DEF Deliver, TypeOK
  <2> QED
    BY <1>1, <2>1 DEF Deliver
<1> QED
  BY <1>1
     DEF Next, ExporterStep, ProcessorStep, Issue, Extract, UpdateExportedRebates, Connect, FindOrFail,
         DispatchFound, FinishPublishing, Start, Take, UpdateRebate, DispatchUpdated,
         FinishProcessing, Exit, Die, vars

LEMMA DeliveredStep ==
  ASSUME TypeOK, QueuedAreTrue, DeliveredAreTrue, EventsInOrder, UnderwayOnlyIfCrossed, Grow,
         crossed \subseteq crossed', [Next]_vars
  PROVE  DeliveredAreTrue' /\ EventsInOrder'
<1>0. \A k \in DOMAIN topic : topic[k] \in Events
  BY DEF TypeOK
<1>1. CASE topic' = topic
  BY <1>0, <1>1, TellsStays DEF DeliveredAreTrue, EventsInOrder, Tells
<1>2. ASSUME NEW p \in Runs, NEW j \in DOMAIN queue[p], topic' = Append(topic, queue[p][j]),
             UNCHANGED status
      PROVE  DeliveredAreTrue' /\ EventsInOrder'
  <2> DEFINE n == Len(topic)
  <2>1. queue[p][j] \in Events /\ Tells(queue[p][j])
    BY DEF TypeOK, QueuedAreTrue
  <2>2. /\ DOMAIN topic = 1 .. n /\ n \in Nat /\ DOMAIN topic' = 1 .. n + 1
        /\ \A k \in 1 .. n : topic'[k] = topic[k]
        /\ topic'[n + 1] = queue[p][j]
    BY <1>2, <2>1, Appended DEF TypeOK
  <2> HIDE DEF n
  <2>3. DeliveredAreTrue'
    BY <1>0, <1>2, <2>1, <2>2 DEF DeliveredAreTrue, Tells
  <2>4. ASSUME NEW k \in DOMAIN topic, topic[k].rebate = queue[p][j].rebate,
               topic[k].rebate \notin crossed', topic[k].status = "FulfilledTransSuccessful"
        PROVE  queue[p][j].status = "FulfilledTransSuccessful"
    <3>1. topic[k].rebate \in Rebates \ crossed
      BY <1>0, <2>4 DEF Events
    <3>2. status[topic[k].rebate] = "FulfilledTransSuccessful"
      BY <2>4 DEF DeliveredAreTrue, Tells
    <3>3. ~Underway(topic[k].rebate)
      BY <3>1, <3>2 DEF UnderwayOnlyIfCrossed
    <3>4. CASE p \in Processors
      BY <3>4 DEF QueuedAreTrue
    <3>5. CASE p \in Exporters
      <4>1. queue[p][j].status = "PendingFulfillment" =>
              queue[p][j] = Event(topic[k].rebate, "PendingFulfillment")
        BY <2>1, <2>4 DEF Events, Event
      <4>2. queue[p][j] \in ToSet(queue[p])
        BY DEF ToSet
      <4>3. queue[p][j].status # "PendingFulfillment"
        BY <3>3, <3>5, <4>1, <4>2 DEF Underway
      <4> QED
        BY <2>1, <4>3 DEF Tells, Told
    <3> QED
      BY <3>4, <3>5 DEF Runs
  <2>5. EventsInOrder'
    <3> SUFFICES ASSUME NEW k \in DOMAIN topic', NEW l \in DOMAIN topic', k < l,
                        topic'[k].rebate = topic'[l].rebate, topic'[k].rebate \notin crossed',
                        topic'[k].status = "FulfilledTransSuccessful"
                 PROVE  topic'[l].status = "FulfilledTransSuccessful"
      BY DEF EventsInOrder
    <3>1. CASE l \in 1 .. n
      BY <2>2, <3>1 DEF EventsInOrder
    <3>2. CASE l = n + 1
      BY <2>2, <2>4, <3>2
    <3> QED
      BY <2>2, <3>1, <3>2
  <2> QED
    BY <2>3, <2>5
<1> QED
  BY <1>1, <1>2, StepTopic

----------------------------------------------------------------------------
(* What is under way when a rebate is fulfilled.                           *)

(* Only a rebate that is pending comes under way.                          *)
LEMMA StepUnderway ==
  ASSUME TypeOK, HeldAreTrue, Queues, [Next]_vars, NEW r \in Rebates, Underway(r)'
  PROVE  Underway(r) \/ status'[r] = "PendingFulfillment"
<1>0. Exporters \subseteq Runs /\ Processors \subseteq Runs /\ Exporters \cap Processors = {}
  BY ConstantsAssumption DEF Runs
<1>1. ASSUME NEW e \in Exporters, Event(r, "PendingFulfillment") \in ToSet(queue'[e])
      PROVE  Underway(r)
  <2> PICK k \in DOMAIN queue'[e] : queue'[e][k] = Event(r, "PendingFulfillment")
    BY <1>1 DEF ToSet
  <2>1. CASE \E j \in DOMAIN queue[e] : queue'[e][k] = queue[e][j]
    BY <2>1 DEF Underway, ToSet
  <2>2. CASE queue'[e][k] = Event(current[e], found[e])
    BY <2>2 DEF Underway, Event
  <2> QED
    BY <1>0, <2>1, <2>2 DEF Queues
<1>2. ASSUME NEW e \in Exporters, current'[e] = r, found'[e] = "PendingFulfillment"
      PROVE  Underway(r) \/ status'[r] = "PendingFulfillment"
  <2>1. ASSUME current'[e] = current[e], found'[e] = found[e] PROVE Underway(r)
    BY <1>2, <2>1 DEF Underway
  <2>2. ASSUME NEW x \in Exporters, FindOrFail(x)
        PROVE  Underway(r) \/ status'[r] = "PendingFulfillment"
    <3>1. CASE x = e
      BY <1>0, <1>2, <2>1, <2>2, <3>1 DEF FindOrFail, Hold, TypeOK
    <3>2. CASE x # e
      BY <1>0, <1>2, <2>1, <2>2, <3>2 DEF FindOrFail, Hold, TypeOK
    <3> QED
      BY <3>1, <3>2
  <2>3. ASSUME NEW x \in Runs, NEW y \in Rebates \cup {NoRebate}, Hold(x, y, "none")
        PROVE  Underway(r)
    <3>1. CASE x = e
      <4>1. found'[e] = "none"
        BY <1>0, <2>3, <3>1 DEF Hold, TypeOK
      <4> QED
        BY <1>2, <4>1
    <3>2. CASE x # e
      <4>1. current'[e] = current[e] /\ found'[e] = found[e]
        BY <1>0, <2>3, <3>2 DEF Hold, TypeOK
      <4> QED
        BY <2>1, <4>1
    <3> QED
      BY <3>1, <3>2
  <2>4. ASSUME NEW x \in Exporters, DispatchFound(x) PROVE Underway(r)
    <3>1. Hold(x, NoRebate, "none")
      BY <2>4 DEF DispatchFound
    <3> QED
      BY <1>0, <2>3, <3>1
  <2>5. ASSUME NEW p \in Processors, UpdateRebate(p) \/ DispatchUpdated(p) PROVE Underway(r)
    <3>1. Hold(p, NoRebate, "none") \/ UNCHANGED <<current, found>>
      BY <2>5 DEF UpdateRebate, DispatchUpdated
    <3> QED
      BY <1>0, <2>1, <2>3, <3>1
  <2>6. ASSUME NEW p \in Processors, NEW s \in Rebates, Take(p, s) PROVE Underway(r)
    <3>1. Hold(p, s, "none")
      BY <2>6 DEF Take
    <3> QED
      BY <1>0, <2>3, <3>1
  <2>7. ASSUME NEW p \in Runs, NEW untold, End(p, untold) PROVE Underway(r)
    BY <2>3, <2>7 DEF End
  <2>8. CASE UNCHANGED <<current, found>>
    BY <2>1, <2>8
  <2> QED
    BY <2>2, <2>4, <2>5, <2>6, <2>7, <2>8
       DEF Next, ExporterStep, ProcessorStep, Issue, Extract, UpdateExportedRebates, Connect,
           FinishPublishing, Start, FinishProcessing, Deliver, Exit, Die, vars, runVars
<1> QED
  BY <1>1, <1>2 DEF Underway

LEMMA StepCrosses ==
  ASSUME TypeOK, HeldAreTrue, [Next]_vars
  PROVE  /\ crossed \subseteq crossed'
         /\ \A r \in Rebates : status'[r] = "FulfilledTransSuccessful" =>
              status[r] = "FulfilledTransSuccessful" \/ (Underway(r) => r \in crossed')
<1>1. CASE UNCHANGED <<status, crossed>>
  BY <1>1
<1>2. ASSUME NEW r \in Rebates, Issue(r) \/ Extract(r)
      PROVE  UNCHANGED crossed /\ \A x \in Rebates :
               status'[x] = "FulfilledTransSuccessful" => status[x] = "FulfilledTransSuccessful"
  BY <1>2 DEF Issue, Extract, TypeOK
<1>3. ASSUME NEW e \in Exporters, UpdateExportedRebates(e)
      PROVE  UNCHANGED crossed /\ \A x \in Rebates :
               status'[x] = "FulfilledTransSuccessful" => status[x] = "FulfilledTransSuccessful"
  BY <1>3 DEF UpdateExportedRebates, TypeOK
<1>4. ASSUME NEW p \in Processors, UpdateRebate(p)
      PROVE  /\ crossed \subseteq crossed'
             /\ \A x \in Rebates : status'[x] = "FulfilledTransSuccessful" =>
                  status[x] = "FulfilledTransSuccessful" \/ (Underway(x) => x \in crossed')
  <2>1. CASE UNCHANGED <<status, crossed>>
    BY <2>1
  <2>2. CASE /\ status' = [status EXCEPT ![current[p]] = "FulfilledTransSuccessful"]
             /\ crossed' = IF Underway(current[p]) THEN crossed \cup {current[p]} ELSE crossed
    BY <2>2 DEF TypeOK
  <2> QED
    BY <1>4, <2>1, <2>2 DEF UpdateRebate
<1> QED
  BY <1>1, <1>2, <1>3, <1>4
     DEF Next, ExporterStep, ProcessorStep, Connect, FindOrFail, DispatchFound, FinishPublishing,
         Start, Take, DispatchUpdated, FinishProcessing, Deliver, Exit, Die, vars

LEMMA UnderwayStep ==
  ASSUME TypeOK, HeldAreTrue, Queues, UnderwayOnlyIfCrossed, [Next]_vars
  PROVE  UnderwayOnlyIfCrossed'
<1> SUFFICES ASSUME NEW r \in Rebates, r \notin crossed',
                    status'[r] = "FulfilledTransSuccessful", Underway(r)'
             PROVE  FALSE
  BY DEF UnderwayOnlyIfCrossed
<1>1. Underway(r)
  BY StepUnderway
<1>2. status[r] = "FulfilledTransSuccessful" /\ r \notin crossed
  BY <1>1, StepCrosses
<1> QED
  BY <1>1, <1>2 DEF UnderwayOnlyIfCrossed

----------------------------------------------------------------------------
LEMMA StepInv == IInv /\ [Next]_vars => IInv'
<1> SUFFICES ASSUME IInv, [Next]_vars PROVE IInv'
  OBVIOUS
<1> USE DEF IInv
<1>1. TypeOK' /\ Grow /\ Queues
  BY TypeStep, StepGrows, StepQueues
<1>2. HeldAreTrue' /\ QueuedAreTrue'
  BY <1>1, HeldStep, QueuedStep
<1>3. DeliveredAreTrue' /\ EventsInOrder' /\ UnderwayOnlyIfCrossed'
  BY <1>1, StepCrosses, DeliveredStep, UnderwayStep
<1> QED
  BY <1>1, <1>2, <1>3

(* The invariant holds in every reachable state.                           *)
THEOREM Inductive == Spec => []IInv
BY InitInv, StepInv, PTL DEF Spec

(* Every variable keeps its type.                                          *)
THEOREM TypeCorrect == Spec => []TypeOK
<1>1. IInv => TypeOK
  BY DEF IInv
<1> QED
  BY <1>1, Inductive, PTL

(* Whatever throws, dies, is lost or delivered twice: an event tells what  *)
(* the database says of the rebate, or said before it was fulfilled        *)
(* (publishRebates, SuccessfulFulfilledRebate).                            *)
THEOREM TrueEvents == Spec => []EventsTellWhatWas
<1>1. IInv => EventsTellWhatWas
  BY DEF IInv, DeliveredAreTrue, Tells, Told, EventsTellWhatWas
<1> QED
  BY <1>1, Inductive, PTL

(* However many exports and processors there are: no event that a rebate   *)
(* is pending follows one that it is fulfilled, unless the former was under*)
(* way when the rebate was fulfilled.                                      *)
THEOREM OrderedEvents == Spec => []EventsInOrder
<1>1. IInv => EventsInOrder
  BY DEF IInv
<1> QED
  BY <1>1, Inductive, PTL
=============================================================================
