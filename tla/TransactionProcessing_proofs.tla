-------------------- MODULE TransactionProcessing_proofs --------------------
(***************************************************************************)
(* For every set of messages, users, workers, hashes and limits, and every *)
(* kind of failure: the types, and the safety of the daily run.            *)
(***************************************************************************)
EXTENDS TransactionProcessing, TLAPS, FiniteSetTheorems

(* The processor without a number is not one of the workers.               *)
LEMMA NumbersAreProcessors ==
  /\ NoNumber \in Processors
  /\ Workers \subseteq Processors
  /\ NoNumber \notin Workers
BY ConstantsAssumption DEF Processors, NoNumber

(* A table that is appended to, or whose rows are replaced, is a table.    *)
LEMMA AppendRow ==
  ASSUME NEW S, NEW s \in Seq(S), NEW e \in S
  PROVE  /\ Append(s, e) \in Seq(S)
         /\ DOMAIN Append(s, e) = DOMAIN s \cup {Len(s) + 1}
         /\ Append(s, e)[Len(s) + 1] = e
         /\ Len(s) + 1 \notin DOMAIN s
         /\ \A i \in DOMAIN s : Append(s, e)[i] = s[i]
OBVIOUS

LEMMA ReplaceRow ==
  ASSUME NEW S, NEW s \in Seq(S), NEW i \in DOMAIN s, NEW e \in S
  PROVE  /\ [s EXCEPT ![i] = e] \in Seq(S)
         /\ DOMAIN [s EXCEPT ![i] = e] = DOMAIN s
OBVIOUS

LEMMA ReplaceRows ==
  ASSUME NEW S, NEW s \in Seq(S), NEW t, DOMAIN t = DOMAIN s,
         t = [i \in DOMAIN s |-> t[i]],
         \A i \in DOMAIN s : t[i] \in S
  PROVE  t \in Seq(S)
<1>1. Len(s) \in Nat /\ DOMAIN s = 1 .. Len(s)
  OBVIOUS
<1>2. t \in [1 .. Len(s) -> S]
  BY <1>1
<1> QED
  BY <1>1, <1>2

(* The export changes nothing of a rebate but its status.                  *)
LEMMA ExportedTable ==
  ASSUME rebates \in Seq(Rebate), ExportRebates
  PROVE  /\ rebates' \in Seq(Rebate)
         /\ DOMAIN rebates' = DOMAIN rebates
         /\ \A r \in DOMAIN rebates : rebates'[r].message = rebates[r].message
<1>1. CASE rebates' = [r \in DOMAIN rebates |->
                         [rebates[r] EXCEPT !.status = "PendingFulfillment"]]
  <2>1. \A r \in DOMAIN rebates : rebates[r] \in Rebate
    OBVIOUS
  <2>2. \A r \in DOMAIN rebates :
          rebates'[r] \in Rebate /\ rebates'[r].message = rebates[r].message
    BY <1>1, <2>1 DEF Rebate
  <2>3. DOMAIN rebates' = DOMAIN rebates /\ rebates' = [r \in DOMAIN rebates |-> rebates'[r]]
    BY <1>1
  <2> QED
    BY <2>2, <2>3, ReplaceRows
<1>2. CASE UNCHANGED rebates
  BY <1>2
<1> QED
  BY <1>1, <1>2 DEF ExportRebates

----------------------------------------------------------------------------
(* A row that is Held is a row of the table.                               *)
LEMMA HeldRow ==
  ASSUME TypeOK, IdleHoldNothing, NEW p \in Processors,
         pc[p] \in {"limit", "used", "mark", "issue"}
  PROVE  /\ current[p] \in DOMAIN transactions
         /\ current[p] # NoRow
         /\ transactions[current[p]] \in Row
         /\ Message(p) \in Messages
<1>1. current[p] # NoRow /\ current[p] \in DOMAIN transactions
  BY DEF TypeOK, IdleHoldNothing
<1>2. transactions[current[p]] \in Row
  BY <1>1 DEF TypeOK
<1> QED
  BY <1>1, <1>2 DEF Row, Message

(* Initially the tables are empty and nobody is at work.                   *)
LEMMA InitInv == Init => IInv
<1> SUFFICES ASSUME Init PROVE IInv
  OBVIOUS
<1>1. TypeOK
  BY DEF Init, TypeOK, NoRow
<1>2. DOMAIN transactions = {} /\ DOMAIN rebates = {}
  BY DEF Init
<1>3. IdleHoldNothing /\ UnnumberedAlone /\ OwnUsers /\ HeldArePending
  BY <1>2, NumbersAreProcessors
     DEF Init, IdleHoldNothing, UnnumberedAlone, AllOff, OwnUsers, HeldArePending, PendingRows
<1>4. ChecksStillHold
  BY DEF Init, ChecksStillHold, Cleared
<1>5. OneRebatePerTransaction /\ RedemptionLimitRespected /\ RejectionsAreJustified
  BY <1>2 DEF OneRebatePerTransaction, RedemptionLimitRespected, RejectionsAreJustified
<1> QED
  BY <1>1, <1>3, <1>4, <1>5 DEF IInv

----------------------------------------------------------------------------
(* Type correctness.                                                       *)

LEMMA TypeStep == TypeOK /\ IdleHoldNothing /\ [Next]_vars => TypeOK'
<1> SUFFICES ASSUME TypeOK, IdleHoldNothing, [Next]_vars PROVE TypeOK'
  OBVIOUS
<1> USE DEF TypeOK
<1>1. ASSUME NEW m \in Messages, Arrive(m) PROVE TypeOK'
  <2> DEFINE row == [message |-> m, status |-> "Pending", processed |-> FALSE,
                     processorId |-> Unassigned]
  <2>1. row \in Row
    BY DEF Row, Unassigned, Processors, NoNumber
  <2>2. /\ transactions' \in Seq(Row)
        /\ DOMAIN transactions \subseteq DOMAIN transactions'
    BY <1>1, <2>1, AppendRow DEF Arrive
  <2>3. batch' \in [Processors -> SUBSET DOMAIN transactions']
        /\ current' \in [Processors -> DOMAIN transactions' \cup {NoRow}]
    BY <1>1, <2>2 DEF Arrive, processorVars
  <2> QED
    BY <1>1, <2>2, <2>3 DEF Arrive, processorVars
<1>2. CASE StartRun
  <2> PICK h \in Hashes : hash' = h /\ transactions' = Assigned(h)
    BY <1>2 DEF StartRun
  <2>1. \A i \in DOMAIN transactions : UserOf(i) \in Users /\ transactions[i] \in Row
    <3>1. \A i \in DOMAIN transactions : transactions[i] \in Row
      OBVIOUS
    <3>2. \A m \in Messages : m.userId \in Users
      BY ConstantsAssumption
    <3> QED
      BY <3>1, <3>2 DEF UserOf, Row
  <2>2. \A i \in DOMAIN transactions : h[UserOf(i)] \in Processors
    BY <2>1, ConstantsAssumption, NumbersAreProcessors
  <2>3. \A i \in DOMAIN transactions : Assigned(h)[i] \in Row
    BY <2>1, <2>2 DEF Assigned, Row
  <2>4. transactions' \in Seq(Row) /\ DOMAIN transactions' = DOMAIN transactions
    BY <2>3, ReplaceRows DEF Assigned
  <2> QED
    BY <1>2, <2>4 DEF StartRun
<1>3. CASE SeeNonePending
  BY <1>3 DEF SeeNonePending, tables, processorVars
<1>4. ExportRebates => rebates' \in Seq(Rebate)
  BY ExportedTable
<1>5. CASE MCExport
  BY <1>4, <1>5 DEF MCExport, processorVars
<1>6. CASE ExportCommand
  BY <1>4, <1>6 DEF ExportCommand, processorVars
<1>7. CASE StartUnnumbered
  BY <1>7 DEF StartUnnumbered, tables
<1>8. CASE KillMaster
  BY <1>8 DEF KillMaster, tables, processorVars
<1>9. ASSUME NEW p \in Processors, Load(p) PROVE TypeOK'
  <2>1. RowsFor(p) \subseteq DOMAIN transactions
    BY DEF RowsFor, PendingRows
  <2> QED
    BY <1>9, <2>1 DEF Load, Terminate, tables
<1>10. ASSUME NEW p \in Processors, Pick(p) PROVE TypeOK'
  BY <1>10 DEF Pick, tables
<1>11. ASSUME NEW p \in Processors, Finish(p) PROVE TypeOK'
  BY <1>11 DEF Finish, Terminate, tables
<1>12. ASSUME NEW p \in Processors, CheckLimit(p) PROVE TypeOK'
  BY <1>12 DEF CheckLimit, Decide, Throw, Release, tables, Verdicts, Rejections
<1>13. ASSUME NEW p \in Processors, CheckUsed(p) PROVE TypeOK'
  BY <1>13 DEF CheckUsed, Decide, Throw, Release, tables, Verdicts, Rejections
<1>14. ASSUME NEW p \in Processors, MarkAsProcessed(p) PROVE TypeOK'
  <2> DEFINE row == [transactions[current[p]] EXCEPT !.processed = TRUE, !.status = verdict[p]]
  <2>1. current[p] \in DOMAIN transactions /\ row \in Row
    BY <1>14, HeldRow DEF MarkAsProcessed, Row, IdleHoldNothing
  <2>2. transactions' = [transactions EXCEPT ![current[p]] = row] \/ UNCHANGED transactions
    BY <1>14 DEF MarkAsProcessed
  <2> HIDE DEF row
  <2>3. transactions' \in Seq(Row) /\ DOMAIN transactions' = DOMAIN transactions
    <3> DEFINE i == current[p]
    <3>1. transactions \in Seq(Row) /\ i \in DOMAIN transactions
      BY <2>1
    <3> HIDE DEF i
    <3>2. /\ [transactions EXCEPT ![i] = row] \in Seq(Row)
          /\ DOMAIN [transactions EXCEPT ![i] = row] = DOMAIN transactions
      BY <2>1, <3>1, ReplaceRow
    <3> QED
      BY <2>2, <3>1, <3>2 DEF i
  <2> QED
    BY <1>14, <2>3 DEF MarkAsProcessed, Release
<1>15. ASSUME NEW p \in Processors, IssueRebate(p) PROVE TypeOK'
  <2> DEFINE rebate == [message |-> Message(p), status |-> "PendingExtraction"]
  <2>1. rebate \in Rebate
    BY <1>15, HeldRow DEF IssueRebate, Rebate
  <2>2. rebates' = Append(rebates, rebate) \/ UNCHANGED rebates
    BY <1>15 DEF IssueRebate
  <2> HIDE DEF rebate
  <2>3. Append(rebates, rebate) \in Seq(Rebate)
    BY <2>1, AppendRow
  <2>4. rebates' \in Seq(Rebate)
    BY <2>2, <2>3
  <2> QED
    BY <1>15, <2>4 DEF IssueRebate, Release
<1>16. ASSUME NEW p \in Processors, Disconnect(p) PROVE TypeOK'
  BY <1>16 DEF Disconnect, Terminate, tables
<1>17. ASSUME NEW p \in Processors, Crash(p) PROVE TypeOK'
  BY <1>17 DEF Crash, Terminate, tables
<1>18. CASE UNCHANGED vars
  BY <1>18 DEF vars, tables, processorVars
<1> QED
  BY <1>1, <1>2, <1>3, <1>5, <1>6, <1>7, <1>8, <1>9, <1>10, <1>11, <1>12, <1>13, <1>14,
     <1>15, <1>16, <1>17, <1>18 DEF Next, Step

(* The tables only grow, and no row or rebate changes its message.         *)
LEMMA TablesKeep ==
  ASSUME TypeOK, IdleHoldNothing, [Next]_vars
  PROVE  /\ DOMAIN transactions \subseteq DOMAIN transactions'
         /\ \A i \in DOMAIN transactions : transactions'[i].message = transactions[i].message
         /\ DOMAIN rebates \subseteq DOMAIN rebates'
         /\ \A r \in DOMAIN rebates : rebates'[r].message = rebates[r].message
<1> DEFINE Kept == /\ DOMAIN transactions \subseteq DOMAIN transactions'
                   /\ \A i \in DOMAIN transactions :
                        transactions'[i].message = transactions[i].message
           Issued == /\ DOMAIN rebates \subseteq DOMAIN rebates'
                     /\ \A r \in DOMAIN rebates : rebates'[r].message = rebates[r].message
<1>1. ASSUME UNCHANGED transactions PROVE Kept
  BY <1>1
<1>2. ASSUME UNCHANGED rebates PROVE Issued
  BY <1>2
<1>3. ASSUME NEW m \in Messages, Arrive(m) PROVE Kept /\ Issued
  <2> DEFINE row == [message |-> m, status |-> "Pending", processed |-> FALSE,
                     processorId |-> Unassigned]
  <2>1. transactions \in Seq(Row) /\ row \in Row /\ transactions' = Append(transactions, row)
    BY <1>3 DEF Arrive, Row, Unassigned, Processors, NoNumber, TypeOK
  <2> HIDE DEF row
  <2>2. Kept
    BY <2>1, AppendRow
  <2> QED
    BY <1>2, <1>3, <2>2 DEF Arrive
<1>4. ASSUME StartRun PROVE Kept /\ Issued
  <2>1. PICK h \in Hashes : transactions' = Assigned(h)
    BY <1>4 DEF StartRun
  <2>2. \A i \in DOMAIN transactions : transactions[i] \in Row
    BY DEF TypeOK
  <2>3. \A i \in DOMAIN transactions : Assigned(h)[i].message = transactions[i].message
    BY <2>2 DEF Assigned, Row
  <2>4. DOMAIN transactions' = DOMAIN transactions
    BY <2>1 DEF Assigned
  <2> QED
    BY <1>2, <1>4, <2>1, <2>3, <2>4 DEF StartRun
<1>5. ASSUME ExportRebates PROVE Issued
  BY <1>5, ExportedTable DEF TypeOK
<1>6. ASSUME NEW p \in Processors, MarkAsProcessed(p) PROVE Kept /\ Issued
  <2>1. current[p] \in DOMAIN transactions /\ transactions[current[p]] \in Row
    BY <1>6, HeldRow DEF MarkAsProcessed
  <2> DEFINE row == [transactions[current[p]] EXCEPT !.processed = TRUE, !.status = verdict[p]]
  <2>2. transactions' = [transactions EXCEPT ![current[p]] = row] \/ UNCHANGED transactions
    BY <1>6 DEF MarkAsProcessed
  <2>3. row.message = transactions[current[p]].message
    BY <2>1 DEF Row
  <2> HIDE DEF row
  <2>4. Kept
    BY <2>1, <2>2, <2>3
  <2> QED
    BY <1>2, <1>6, <2>4 DEF MarkAsProcessed
<1>7. ASSUME NEW p \in Processors, IssueRebate(p) PROVE Kept /\ Issued
  <2> DEFINE rebate == [message |-> Message(p), status |-> "PendingExtraction"]
  <2>1. rebate \in Rebate /\ rebates \in Seq(Rebate)
    BY <1>7, HeldRow DEF IssueRebate, Rebate, TypeOK
  <2>2. rebates' = Append(rebates, rebate) \/ UNCHANGED rebates
    BY <1>7 DEF IssueRebate
  <2> HIDE DEF rebate
  <2>3. Issued
    BY <2>1, <2>2, AppendRow
  <2> QED
    BY <1>1, <1>7, <2>3 DEF IssueRebate
<1>8. ASSUME NEW p \in Processors,
             \/ Load(p) \/ Pick(p) \/ Finish(p) \/ CheckLimit(p) \/ CheckUsed(p)
             \/ Disconnect(p) \/ Crash(p)
      PROVE  UNCHANGED tables
  BY <1>8
     DEF Load, Pick, Finish, CheckLimit, CheckUsed, Disconnect, Crash
<1>9. ASSUME SeeNonePending \/ MCExport \/ ExportCommand \/ StartUnnumbered \/ KillMaster
      PROVE  UNCHANGED transactions /\ (UNCHANGED rebates \/ ExportRebates)
  BY <1>9
     DEF SeeNonePending, MCExport, ExportCommand, StartUnnumbered, KillMaster, tables
<1>10. UNCHANGED vars => UNCHANGED tables
  BY DEF vars
<1> HIDE DEF Kept, Issued
<1>11. UNCHANGED tables => Kept /\ Issued
  BY <1>1, <1>2 DEF tables
<1>12. ASSUME \E p \in Processors : Step(p) \/ Disconnect(p) \/ Crash(p)
       PROVE  Kept /\ Issued
  BY <1>6, <1>7, <1>8, <1>11, <1>12 DEF Step
<1>13. ASSUME SeeNonePending \/ MCExport \/ ExportCommand \/ StartUnnumbered \/ KillMaster
       PROVE  Kept /\ Issued
  BY <1>1, <1>2, <1>5, <1>9, <1>13
<1>14. Kept /\ Issued
  BY <1>3, <1>4, <1>10, <1>11, <1>12, <1>13 DEF Next
<1> QED
  BY <1>14 DEF Kept, Issued

----------------------------------------------------------------------------
(* Who holds what.                                                         *)

LEMMA IdleStep == TypeOK /\ IdleHoldNothing /\ [Next]_vars => IdleHoldNothing'
<1> SUFFICES ASSUME TypeOK, IdleHoldNothing, [Next]_vars PROVE IdleHoldNothing'
  OBVIOUS
<1> USE DEF IdleHoldNothing
<1>1. ASSUME UNCHANGED processorVars PROVE IdleHoldNothing'
  BY <1>1 DEF processorVars
<1>2. CASE StartRun
  BY <1>2 DEF StartRun, TypeOK, AllOff
<1>3. CASE StartUnnumbered
  BY <1>3 DEF StartUnnumbered, TypeOK
<1>4. ASSUME NEW p \in Processors, Load(p) PROVE IdleHoldNothing'
  BY <1>4 DEF Load, Terminate, TypeOK
<1>5. ASSUME NEW p \in Processors, Pick(p) PROVE IdleHoldNothing'
  <2>1. NoRow \notin DOMAIN transactions
    BY DEF TypeOK, NoRow
  <2> QED
    BY <1>5, <2>1 DEF Pick, TypeOK
<1>6. ASSUME NEW p \in Processors, CheckLimit(p) PROVE IdleHoldNothing'
  BY <1>6 DEF CheckLimit, Decide, Throw, Release, TypeOK, Verdicts, Rejections
<1>7. ASSUME NEW p \in Processors, CheckUsed(p) PROVE IdleHoldNothing'
  BY <1>7 DEF CheckUsed, Decide, Throw, Release, TypeOK, Verdicts, Rejections
<1>8. ASSUME NEW p \in Processors, MarkAsProcessed(p) PROVE IdleHoldNothing'
  BY <1>8 DEF MarkAsProcessed, Release, TypeOK
<1>9. ASSUME NEW p \in Processors, IssueRebate(p) PROVE IdleHoldNothing'
  BY <1>9 DEF IssueRebate, Release, TypeOK
<1>10. ASSUME NEW p \in Processors, Finish(p) \/ Disconnect(p) \/ Crash(p)
       PROVE  IdleHoldNothing'
  BY <1>10 DEF Finish, Disconnect, Crash, Terminate, TypeOK
<1>11. ASSUME \/ \E m \in Messages : Arrive(m)
              \/ SeeNonePending \/ MCExport \/ ExportCommand \/ KillMaster \/ UNCHANGED vars
       PROVE  UNCHANGED processorVars
  BY <1>11 DEF Arrive, SeeNonePending, MCExport, ExportCommand, KillMaster, vars
<1> QED
  BY <1>1, <1>2, <1>3, <1>4, <1>5, <1>6, <1>7, <1>8, <1>9, <1>10, <1>11 DEF Next, Step

LEMMA AloneStep ==
  "overlap" \notin Faults /\ TypeOK /\ UnnumberedAlone /\ [Next]_vars => UnnumberedAlone'
<1> SUFFICES ASSUME "overlap" \notin Faults, TypeOK, UnnumberedAlone, [Next]_vars
             PROVE  UnnumberedAlone'
  OBVIOUS
<1> USE NumbersAreProcessors DEF UnnumberedAlone, AllOff
<1>1. CASE StartRun
  BY <1>1 DEF StartRun, TypeOK
<1>2. CASE StartUnnumbered
  BY <1>2 DEF StartUnnumbered, TypeOK
<1>3. ASSUME NEW p \in Processors, Step(p) PROVE UnnumberedAlone'
  <2>1. pc[p] # "off" /\ \A q \in Processors \ {p} : pc'[q] = pc[q]
    BY <1>3 DEF Step, Load, Pick, Finish, CheckLimit, CheckUsed, MarkAsProcessed, IssueRebate,
                Decide, Throw, Release, Terminate, TypeOK
  <2> QED
    BY <2>1 DEF TypeOK
<1>4. ASSUME NEW p \in Processors, Disconnect(p) \/ Crash(p) PROVE UnnumberedAlone'
  BY <1>4 DEF Disconnect, Crash, Terminate, TypeOK
<1>5. ASSUME \/ \E m \in Messages : Arrive(m)
             \/ SeeNonePending \/ MCExport \/ ExportCommand \/ KillMaster \/ UNCHANGED vars
      PROVE  UnnumberedAlone'
  BY <1>5 DEF Arrive, SeeNonePending, MCExport, ExportCommand, KillMaster, vars, processorVars
<1> QED
  BY <1>1, <1>2, <1>3, <1>4, <1>5 DEF Next

(* A worker only takes rows of its own users.  A step that hands nobody a  *)
(* new row, and one that assigns none, is easy; what is left is StartRun,  *)
(* Load and the steps that touch the rows.                                 *)
LEMMA OwnUsersStep ==
  TypeOK /\ IdleHoldNothing /\ OwnUsers /\ [Next]_vars => OwnUsers'
<1> SUFFICES ASSUME TypeOK, IdleHoldNothing, OwnUsers, [Next]_vars PROVE OwnUsers'
  OBVIOUS
<1> DEFINE user(i) == transactions[i].message.userId
           newUser(i) == transactions'[i].message.userId
           Handed == /\ \A p \in Workers : \A i \in batch'[p] : hash'[newUser(i)] = p
                     /\ \A p \in Workers : current'[p] # NoRow => hash'[newUser(current'[p])] = p
           Assignment == \A i \in DOMAIN transactions' :
                           ~transactions'[i].processed =>
                             transactions'[i].processorId \in {Unassigned, hash'[newUser(i)]}
<1>0. /\ \A i \in DOMAIN transactions : newUser(i) = user(i)
      /\ \A p \in Workers : batch[p] \subseteq DOMAIN transactions
      /\ \A p \in Workers : current[p] # NoRow => current[p] \in DOMAIN transactions
  BY TablesKeep, NumbersAreProcessors DEF TypeOK
<1>1. /\ \A p \in Workers : \A i \in batch[p] : hash[user(i)] = p
      /\ \A p \in Workers : current[p] # NoRow => hash[user(current[p])] = p
      /\ \A i \in DOMAIN transactions :
            ~transactions[i].processed => transactions[i].processorId \in {Unassigned, hash[user(i)]}
  BY DEF OwnUsers, UserOf, PendingRows, Pending
<1>2. Handed /\ Assignment => OwnUsers'
  BY DEF OwnUsers, UserOf, PendingRows, Pending
<1> HIDE DEF user, newUser
<1>3. ASSUME UNCHANGED hash, NEW q \in Processors,
             \A p \in Processors \ {q} : batch'[p] = batch[p] /\ current'[p] = current[p],
             batch'[q] \subseteq batch[q], current'[q] \in {current[q], NoRow} \cup batch[q]
      PROVE  Handed
  BY <1>0, <1>1, <1>3, NumbersAreProcessors
<1>4. ASSUME UNCHANGED <<batch, current, hash>> PROVE Handed
  BY <1>0, <1>1, <1>4
<1>5. ASSUME UNCHANGED <<transactions, hash>> PROVE Assignment
  BY <1>0, <1>1, <1>5
<1>6. ASSUME NEW m \in Messages, Arrive(m) PROVE OwnUsers'
  <2> DEFINE row == [message |-> m, status |-> "Pending", processed |-> FALSE,
                     processorId |-> Unassigned]
  <2>1. transactions \in Seq(Row) /\ row \in Row /\ transactions' = Append(transactions, row)
    BY <1>6 DEF Arrive, Row, Unassigned, Processors, NoNumber, TypeOK
  <2>2. row.processorId = Unassigned
    OBVIOUS
  <2> HIDE DEF row
  <2>3. Assignment
    BY <1>0, <1>1, <1>6, <2>1, <2>2, AppendRow DEF Arrive
  <2> QED
    BY <1>2, <1>4, <1>6, <2>3 DEF Arrive, processorVars
<1>7. CASE StartRun
  <2>1. PICK h \in Hashes : hash' = h /\ transactions' = Assigned(h)
    BY <1>7 DEF StartRun
  <2>2. \A p \in Workers : batch'[p] = {} /\ current'[p] = NoRow
    BY <1>7, NumbersAreProcessors DEF StartRun, AllOff, IdleHoldNothing
  <2>3. \A i \in DOMAIN transactions : transactions[i] \in Row
    BY DEF TypeOK
  <2>4. ASSUME NEW i \in DOMAIN transactions', ~transactions'[i].processed
        PROVE  transactions'[i].processorId \in {Unassigned, hash'[newUser(i)]}
    <3>1. i \in DOMAIN transactions /\ newUser(i) = user(i)
      BY <1>0, <2>1 DEF Assigned
    <3>2. CASE Pending(i)
      <4>1. transactions'[i] = [transactions[i] EXCEPT !.processorId = h[UserOf(i)]]
        BY <2>1, <3>1, <3>2 DEF Assigned
      <4> QED
        BY <2>1, <2>3, <3>1, <4>1 DEF Row, UserOf, user
    <3>3. CASE ~Pending(i)
      BY <2>1, <2>4, <3>1, <3>3 DEF Assigned, Pending
    <3> QED
      BY <3>2, <3>3
  <2>5. Assignment
    BY <2>4
  <2> QED
    BY <1>2, <2>2, <2>5
<1>8. ASSUME NEW q \in Processors, Load(q) PROVE OwnUsers'
  <2>1. Assignment
    BY <1>5, <1>8 DEF Load, tables
  <2>2. \A i \in RowsFor(q) : q \in Workers => hash[user(i)] = q /\ i \in DOMAIN transactions
    BY <1>1, NumbersAreProcessors
       DEF RowsFor, PendingRows, Pending, Unassigned, NoNumber
  <2>3. Handed
    BY <1>0, <1>1, <1>8, <2>2, NumbersAreProcessors DEF Load, Terminate, TypeOK
  <2> QED
    BY <1>2, <2>1, <2>3
<1>9. ASSUME NEW q \in Processors, MarkAsProcessed(q) PROVE OwnUsers'
  <2>1. current[q] \in DOMAIN transactions /\ transactions[current[q]] \in Row
    BY <1>9, HeldRow DEF MarkAsProcessed
  <2> DEFINE row == [transactions[current[q]] EXCEPT !.processed = TRUE, !.status = verdict[q]]
  <2>2. transactions' = [transactions EXCEPT ![current[q]] = row] \/ UNCHANGED transactions
    BY <1>9 DEF MarkAsProcessed
  <2>3. row.processed
    BY <2>1 DEF Row
  <2> HIDE DEF row
  <2>4. Assignment
    BY <1>0, <1>1, <1>9, <2>1, <2>2, <2>3 DEF MarkAsProcessed
  <2>5. Handed
    BY <1>3, <1>9 DEF MarkAsProcessed, Release, TypeOK
  <2> QED
    BY <1>2, <2>4, <2>5
<1>10. ASSUME NEW q \in Processors,
              \/ Pick(q) \/ Finish(q) \/ CheckLimit(q) \/ CheckUsed(q) \/ IssueRebate(q)
              \/ Disconnect(q) \/ Crash(q)
       PROVE  OwnUsers'
  <2>1. Assignment
    BY <1>5, <1>10
       DEF Pick, Finish, CheckLimit, CheckUsed, IssueRebate, Disconnect, Crash, tables
  <2>2. Handed
    BY <1>3, <1>10
       DEF Pick, Finish, CheckLimit, CheckUsed, IssueRebate, Disconnect, Crash, Decide, Throw,
           Release, Terminate, TypeOK
  <2> QED
    BY <1>2, <2>1, <2>2
<1>11. ASSUME \/ SeeNonePending \/ MCExport \/ ExportCommand \/ StartUnnumbered \/ KillMaster
              \/ UNCHANGED vars
       PROVE  OwnUsers'
  <2>1. UNCHANGED <<transactions, hash, batch, current>>
    BY <1>11 DEF SeeNonePending, MCExport, ExportCommand, StartUnnumbered, KillMaster, vars,
                 tables, processorVars
  <2> QED
    BY <1>2, <1>4, <1>5, <2>1
<1> QED
  BY <1>6, <1>7, <1>8, <1>9, <1>10, <1>11 DEF Next, Step

(* Two processors at work hold rows of different users.                    *)
LEMMA DistinctUsers ==
  ASSUME TypeOK, IdleHoldNothing, UnnumberedAlone, OwnUsers,
         NEW p \in Processors, NEW q \in Processors, p # q, current[p] # NoRow
  PROVE  /\ \A i \in batch[q] : UserOf(i) # UserOf(current[p])
         /\ current[q] # NoRow => UserOf(current[q]) # UserOf(current[p])
<1>1. CASE p \in Workers /\ q \in Workers
  BY <1>1 DEF OwnUsers
<1>2. CASE p = NoNumber \/ q = NoNumber
  <2>1. pc[p] # "off"
    BY DEF IdleHoldNothing
  <2>2. pc[q] = "off"
    BY <1>2, <2>1, NumbersAreProcessors DEF UnnumberedAlone, AllOff, Processors
  <2> QED
    BY <2>2 DEF IdleHoldNothing
<1> QED
  BY <1>1, <1>2 DEF Processors

(* What a processor holds stays pending: the only step that ends that is   *)
(* its own MarkAsProcessed, as the other processors hold other rows.       *)
LEMMA HeldStep ==
  TypeOK /\ IdleHoldNothing /\ UnnumberedAlone /\ OwnUsers /\ HeldArePending /\ [Next]_vars
    => HeldArePending'
<1> SUFFICES ASSUME TypeOK, IdleHoldNothing, UnnumberedAlone, OwnUsers, HeldArePending,
                    [Next]_vars
             PROVE  HeldArePending'
  OBVIOUS
<1> DEFINE Held(p) == /\ batch'[p] \subseteq PendingRows'
                      /\ current'[p] \notin batch'[p]
                      /\ pc'[p] \in {"limit", "used", "mark"} => Pending(current[p])'
<1>1. SUFFICES \A p \in Processors : Held(p)
  BY DEF HeldArePending
<1>2. /\ NoRow \notin DOMAIN transactions
      /\ PendingRows \subseteq DOMAIN transactions
      /\ \A i \in DOMAIN transactions : Pending(i) <=> i \in PendingRows
      /\ \A p \in Processors : pc[p] \in {"limit", "used", "mark"} => current[p] \in PendingRows
  <2>1. /\ NoRow \notin DOMAIN transactions
        /\ PendingRows \subseteq DOMAIN transactions
        /\ \A i \in DOMAIN transactions : Pending(i) <=> i \in PendingRows
    BY DEF TypeOK, NoRow, PendingRows
  <2> QED
    BY <2>1, HeldRow DEF HeldArePending
\* Steps that leave the pending rows pending and hand processor q at most rows of its batch.
<1>3. ASSUME PendingRows \subseteq PendingRows',
             UNCHANGED <<pc, batch, current>>
      PROVE  \A p \in Processors : Held(p)
  BY <1>2, <1>3 DEF HeldArePending, PendingRows, Pending
<1>4. ASSUME NEW q \in Processors, UNCHANGED transactions,
             \A p \in Processors \ {q} :
                pc'[p] = pc[p] /\ batch'[p] = batch[p] /\ current'[p] = current[p],
             batch'[q] \subseteq PendingRows, current'[q] \notin batch'[q],
             pc'[q] \in {"limit", "used", "mark"} => current'[q] \in PendingRows
      PROVE  \A p \in Processors : Held(p)
  BY <1>2, <1>4 DEF HeldArePending, PendingRows, Pending
<1>5. ASSUME NEW m \in Messages, Arrive(m) PROVE \A p \in Processors : Held(p)
  <2> DEFINE row == [message |-> m, status |-> "Pending", processed |-> FALSE,
                     processorId |-> Unassigned]
  <2>1. transactions \in Seq(Row) /\ row \in Row /\ transactions' = Append(transactions, row)
    BY <1>5 DEF Arrive, Row, Unassigned, Processors, NoNumber, TypeOK
  <2> HIDE DEF row
  <2>2. PendingRows \subseteq PendingRows'
    BY <2>1, AppendRow DEF PendingRows, Pending
  <2> QED
    BY <1>3, <1>5, <2>2 DEF Arrive, processorVars
<1>6. CASE StartRun
  <2>1. PICK h \in Hashes : transactions' = Assigned(h)
    BY <1>6 DEF StartRun
  <2>2. \A i \in DOMAIN transactions : transactions[i] \in Row
    BY DEF TypeOK
  <2>3. \A i \in DOMAIN transactions : Assigned(h)[i].processed = transactions[i].processed
    BY <2>2 DEF Assigned, Row
  <2>4. PendingRows \subseteq PendingRows'
    BY <2>1, <2>3 DEF PendingRows, Pending, Assigned
  <2>5. \A p \in Processors : Held(p)
    <3> TAKE p \in Processors
    <3>1. CASE p \in Workers
      BY <1>6, <3>1 DEF StartRun, AllOff, IdleHoldNothing
    <3>2. CASE p \notin Workers
      BY <1>2, <1>6, <2>4, <3>2 DEF StartRun, HeldArePending, PendingRows, Pending
    <3> QED
      BY <3>1, <3>2
  <2> QED
    BY <2>5
<1>7. CASE StartUnnumbered
  BY <1>4, <1>7, NumbersAreProcessors
     DEF StartUnnumbered, tables, HeldArePending, TypeOK
<1>8. ASSUME SeeNonePending \/ MCExport \/ ExportCommand \/ KillMaster \/ UNCHANGED vars
      PROVE  \A p \in Processors : Held(p)
  <2>1. UNCHANGED <<transactions, pc, batch, current>>
    BY <1>8 DEF SeeNonePending, MCExport, ExportCommand, KillMaster, vars, tables, processorVars
  <2> QED
    BY <1>3, <2>1 DEF PendingRows, Pending
<1>9. ASSUME NEW q \in Processors, Load(q) PROVE \A p \in Processors : Held(p)
  <2>1. RowsFor(q) \subseteq PendingRows /\ current[q] = NoRow
    BY <1>9 DEF RowsFor, Load, IdleHoldNothing
  <2> QED
    BY <1>2, <1>4, <1>9, <2>1 DEF Load, Terminate, tables, TypeOK
<1>10. ASSUME NEW q \in Processors,
              \/ Pick(q) \/ Finish(q) \/ CheckLimit(q) \/ CheckUsed(q) \/ IssueRebate(q)
              \/ Disconnect(q) \/ Crash(q)
       PROVE  \A p \in Processors : Held(p)
  <2>1. batch[q] \subseteq PendingRows /\ NoRow \notin batch[q] /\ current[q] \notin batch[q]
    BY <1>2 DEF HeldArePending
  <2> QED
    BY <1>2, <1>4, <1>10, <2>1
       DEF Pick, Finish, CheckLimit, CheckUsed, IssueRebate, Disconnect, Crash, Decide, Throw,
           Release, Terminate, tables, TypeOK
<1>11. ASSUME NEW q \in Processors, MarkAsProcessed(q) PROVE \A p \in Processors : Held(p)
  <2>1. current[q] \in DOMAIN transactions /\ current[q] # NoRow
    BY <1>11, HeldRow DEF MarkAsProcessed
  <2>2. PendingRows \ {current[q]} \subseteq PendingRows'
    BY <1>11, <2>1 DEF MarkAsProcessed, PendingRows, Pending
  <2>3. ASSUME NEW p \in Processors, p # q PROVE Held(p)
    <3>1. current[q] \notin batch[p] /\ current[p] # current[q]
      BY <2>1, <2>3, DistinctUsers
    <3>2. pc'[p] = pc[p] /\ batch'[p] = batch[p] /\ current'[p] = current[p]
      BY <1>11, <2>3 DEF MarkAsProcessed, Release, TypeOK
    <3> QED
      BY <1>2, <2>2, <3>1, <3>2 DEF HeldArePending, PendingRows, Pending
  <2>4. Held(q)
    <3>1. batch'[q] = batch[q] /\ current'[q] \in {current[q], NoRow} /\ pc'[q] \in {"issue", "next"}
      BY <1>11 DEF MarkAsProcessed, Release, TypeOK
    <3> QED
      BY <1>2, <2>2, <3>1 DEF HeldArePending
  <2> QED
    BY <2>3, <2>4
<1> QED
  BY <1>5, <1>6, <1>7, <1>8, <1>9, <1>10, <1>11 DEF Next, Step

(* A step changes no processed row.                                        *)
LEMMA FinalStep ==
  ASSUME TypeOK, IdleHoldNothing, HeldArePending, [Next]_vars,
         NEW i \in DOMAIN transactions, transactions[i].processed
  PROVE  transactions'[i] = transactions[i]
<1>1. ASSUME NEW m \in Messages, Arrive(m) PROVE transactions'[i] = transactions[i]
  BY <1>1 DEF Arrive, TypeOK
<1>2. CASE StartRun
  BY <1>2 DEF StartRun, Assigned, Pending
<1>3. ASSUME NEW p \in Processors, MarkAsProcessed(p) PROVE transactions'[i] = transactions[i]
  <2>1. current[p] \in DOMAIN transactions /\ Pending(current[p])
    BY <1>3, HeldRow DEF MarkAsProcessed, HeldArePending
  <2>2. current[p] # i
    BY <2>1 DEF Pending
  <2> QED
    BY <1>3, <2>1, <2>2 DEF MarkAsProcessed
<1>4. ASSUME \/ SeeNonePending \/ MCExport \/ ExportCommand \/ StartUnnumbered \/ KillMaster
             \/ UNCHANGED vars
             \/ \E p \in Processors :
                  \/ Load(p) \/ Pick(p) \/ Finish(p) \/ CheckLimit(p) \/ CheckUsed(p)
                  \/ IssueRebate(p) \/ Disconnect(p) \/ Crash(p)
      PROVE  UNCHANGED transactions
  BY <1>4 DEF SeeNonePending, MCExport, ExportCommand, StartUnnumbered, KillMaster, vars, tables,
              Load, Pick, Finish, CheckLimit, CheckUsed, IssueRebate, Disconnect, Crash
<1> QED
  BY <1>1, <1>2, <1>3, <1>4 DEF Next, Step

----------------------------------------------------------------------------
(* What the checks read stays true.                                        *)

LEMMA RebateSetsAreFinite ==
  ASSUME TypeOK, NEW S \in SUBSET DOMAIN rebates
  PROVE  IsFiniteSet(S) /\ Cardinality(S) \in Nat
<1>1. DOMAIN rebates = 1 .. Len(rebates) /\ Len(rebates) \in Nat
  BY DEF TypeOK
<1>2. IsFiniteSet(1 .. Len(rebates))
  BY <1>1, FS_Interval
<1> QED
  BY <1>1, <1>2, FS_Subset, FS_CardinalityType

(* A rejection that is justified stays so, as rebates are never removed.   *)
LEMMA JustifiedStays ==
  ASSUME TypeOK, TypeOK', NEW m \in Messages, NEW status, JustlyRejected(m, status),
         DOMAIN rebates \subseteq DOMAIN rebates',
         \A r \in DOMAIN rebates : rebates'[r].message = rebates[r].message
  PROVE  JustlyRejected(m, status)'
<1>1. Redeemed(m) \subseteq Redeemed(m)' /\ Redeemed(m)' \subseteq DOMAIN rebates'
  BY DEF Redeemed, SameLimit
<1>2. IsFiniteSet(Redeemed(m)')
  <2>1. DOMAIN rebates' = 1 .. Len(rebates') /\ Len(rebates') \in Nat
    BY DEF TypeOK
  <2>2. IsFiniteSet(1 .. Len(rebates'))
    BY <2>1, FS_Interval
  <2> QED
    BY <1>1, <2>1, <2>2, FS_Subset
<1>3. /\ Cardinality(Redeemed(m)) <= Cardinality(Redeemed(m)')
      /\ Cardinality(Redeemed(m)) \in Nat
      /\ Cardinality(Redeemed(m)') \in Nat
  BY <1>1, <1>2, FS_Subset, FS_CardinalityType
<1>4. RedemptionLimit[m.rebateCriteriaId] \in Nat
  BY ConstantsAssumption
<1> QED
  BY <1>3, <1>4 DEF JustlyRejected

(* While no rebate of its user is added, what a check passed still passes. *)
LEMMA ClearanceStays ==
  ASSUME NEW m,
         DOMAIN rebates \subseteq DOMAIN rebates',
         \A r \in DOMAIN rebates : rebates'[r].message = rebates[r].message,
         \A r \in DOMAIN rebates' \ DOMAIN rebates :
            /\ rebates'[r].message.userId # m.userId
            /\ rebates'[r].message.transactionId # m.transactionId
  PROVE  /\ NotUsed(m) => NotUsed(m)'
         /\ CanBeRedeemed(m) => CanBeRedeemed(m)'
<1>1. RebatesForLimit(m)' = RebatesForLimit(m)
  BY DEF RebatesForLimit, SameLimit
<1> QED
  BY <1>1 DEF NotUsed, CanBeRedeemed

(* The rebates a step adds: one, by a processor that issues it.            *)
LEMMA OnlyIssueAdds ==
  ASSUME TypeOK, [Next]_vars,
         \A p \in Processors : ~IssueRebate(p)
  PROVE  DOMAIN rebates' = DOMAIN rebates
<1>1. ASSUME ExportRebates PROVE DOMAIN rebates' = DOMAIN rebates
  BY <1>1, ExportedTable DEF TypeOK
<1> QED
  BY <1>1 DEF Next, Step, Arrive, StartRun, SeeNonePending, MCExport, ExportCommand,
     StartUnnumbered, KillMaster, Load, Pick, Finish, CheckLimit, CheckUsed, MarkAsProcessed,
     Disconnect, Crash, vars, tables

LEMMA IssueAddsOne ==
  ASSUME TypeOK, IdleHoldNothing, NEW q \in Processors, IssueRebate(q)
  PROVE  \/ UNCHANGED rebates
         \/ /\ DOMAIN rebates' = DOMAIN rebates \cup {Len(rebates) + 1}
            /\ Len(rebates) + 1 \notin DOMAIN rebates
            /\ rebates'[Len(rebates) + 1].message = Message(q)
            /\ \A r \in DOMAIN rebates : rebates'[r] = rebates[r]
<1> DEFINE rebate == [message |-> Message(q), status |-> "PendingExtraction"]
<1>1. rebate \in Rebate /\ rebate.message = Message(q) /\ rebates \in Seq(Rebate)
  BY HeldRow DEF IssueRebate, Rebate, TypeOK
<1>2. rebates' = Append(rebates, rebate) \/ UNCHANGED rebates
  BY DEF IssueRebate
<1> HIDE DEF rebate
<1>3. /\ DOMAIN Append(rebates, rebate) = DOMAIN rebates \cup {Len(rebates) + 1}
      /\ Len(rebates) + 1 \notin DOMAIN rebates
      /\ Append(rebates, rebate)[Len(rebates) + 1] = rebate
      /\ \A r \in DOMAIN rebates : Append(rebates, rebate)[r] = rebates[r]
  BY <1>1, AppendRow
<1> QED
  BY <1>1, <1>2, <1>3

(* A check by p stays good until p itself uses it.                         *)
LEMMA ClearedStays ==
  ASSUME TypeOK, IdleHoldNothing, UnnumberedAlone, OwnUsers, [Next]_vars,
         NEW p \in Processors, ~IssueRebate(p), current[p] # NoRow,
         NEW m \in Messages, m = Message(p)
  PROVE  /\ NotUsed(m) => NotUsed(m)'
         /\ CanBeRedeemed(m) => CanBeRedeemed(m)'
<1>1. ASSUME NEW q \in Processors, IssueRebate(q)
      PROVE  \A r \in DOMAIN rebates' \ DOMAIN rebates :
                /\ rebates'[r].message.userId # m.userId
                /\ rebates'[r].message.transactionId # m.transactionId
  <2>1. Message(q) \in Messages /\ current[q] # NoRow /\ p # q
    BY <1>1, HeldRow DEF IssueRebate
  <2>2. Message(q).userId # m.userId
    BY <2>1, DistinctUsers DEF UserOf, Message
  <2>3. Message(q).transactionId # m.transactionId
    BY <2>1, <2>2, ConstantsAssumption
  <2> QED
    BY <1>1, <2>2, <2>3, IssueAddsOne
<1>2. \A r \in DOMAIN rebates' \ DOMAIN rebates :
         /\ rebates'[r].message.userId # m.userId
         /\ rebates'[r].message.transactionId # m.transactionId
  BY <1>1, OnlyIssueAdds
<1> QED
  BY <1>2, TablesKeep, ClearanceStays

LEMMA ChecksStep ==
  IInv /\ TypeOK' /\ [Next]_vars => ChecksStillHold'
<1> SUFFICES ASSUME IInv, TypeOK', [Next]_vars, NEW p \in Processors
             PROVE  /\ Cleared(p)' => NotUsed(Message(p))'
                    /\ Cleared(p)' \/ pc'[p] = "used" => CanBeRedeemed(Message(p))'
                    /\ pc'[p] = "mark" => JustlyRejected(Message(p), verdict[p])'
  BY DEF ChecksStillHold
<1> DEFINE Goal == /\ Cleared(p)' => NotUsed(Message(p))'
                   /\ Cleared(p)' \/ pc'[p] = "used" => CanBeRedeemed(Message(p))'
                   /\ pc'[p] = "mark" => JustlyRejected(Message(p), verdict[p])'
           Clears == pc'[p] = "issue" \/ (pc'[p] = "mark" /\ verdict'[p] = "RebateCreated")
<1>1. ASSUME pc'[p] \notin {"used", "mark", "issue"} PROVE Goal
  BY <1>1 DEF Cleared
\* p keeps its row, and what it has to know after the step holds before it.
<1>2. ASSUME current'[p] = current[p], current[p] # NoRow, ~IssueRebate(p),
             Clears => NotUsed(Message(p)),
             Clears \/ pc'[p] = "used" => CanBeRedeemed(Message(p)),
             pc'[p] = "mark" => JustlyRejected(Message(p), verdict'[p])
      PROVE  Goal
  <2>1. current[p] \in DOMAIN transactions /\ pc[p] \in {"limit", "used", "mark", "issue"}
    BY <1>2 DEF IInv, TypeOK, IdleHoldNothing
  <2>2. Message(p) \in Messages /\ Message(p)' = Message(p)
    BY <1>2, <2>1, TablesKeep, HeldRow DEF Message, IInv
  <2>3. PICK m \in Messages : m = Message(p) /\ m = Message(p)'
    BY <2>2
  <2>4. /\ NotUsed(m) => NotUsed(m)'
        /\ CanBeRedeemed(m) => CanBeRedeemed(m)'
    BY <1>2, <2>3, ClearedStays DEF IInv
  <2>5. ASSUME NEW status, JustlyRejected(m, status) PROVE JustlyRejected(m, status)'
    BY <2>5, TablesKeep, JustifiedStays DEF IInv
  <2>6. /\ Clears => NotUsed(m)'
        /\ Clears \/ pc'[p] = "used" => CanBeRedeemed(m)'
    BY <1>2, <2>3, <2>4
  <2>7. PICK status : status = verdict'[p]
    OBVIOUS
  <2>8. pc'[p] = "mark" => JustlyRejected(m, status)'
    BY <1>2, <2>3, <2>5, <2>7
  <2> QED
    BY <2>3, <2>6, <2>7, <2>8
       DEF Cleared, NotUsed, CanBeRedeemed, RebatesForLimit, SameLimit, JustlyRejected, Redeemed
<1>3. ASSUME pc'[p] = pc[p], current'[p] = current[p], verdict'[p] = verdict[p],
             ~IssueRebate(p)
      PROVE  Goal
  <2>1. CASE pc[p] \in {"used", "mark", "issue"}
    <3>1. current[p] # NoRow
      BY <2>1 DEF IInv, IdleHoldNothing
    <3> QED
      BY <1>2, <1>3, <2>1, <3>1 DEF IInv, ChecksStillHold, Cleared
  <2> QED
    BY <1>1, <1>3, <2>1
<1>4. ASSUME CheckLimit(p) PROVE Goal
  <2>1. /\ current[p] # NoRow /\ current'[p] \in {current[p], NoRow} /\ ~IssueRebate(p)
        /\ Message(p) \in Messages
    BY <1>4, HeldRow DEF CheckLimit, Decide, Throw, Release, IssueRebate, IInv, TypeOK
  <2>2. /\ RedemptionLimit[Message(p).rebateCriteriaId] \in Nat
        /\ Cardinality(Redeemed(Message(p))) \in Nat
        /\ RebatesForLimit(Message(p)) = Redeemed(Message(p))
    <3>1. Redeemed(Message(p)) \subseteq DOMAIN rebates
      BY DEF Redeemed
    <3> QED
      BY <2>1, <3>1, RebateSetsAreFinite, ConstantsAssumption
         DEF IInv, RebatesForLimit, Redeemed
  <2>3. CASE pc'[p] = "mark" /\ verdict'[p] = "Ineligible" /\ current'[p] = current[p]
    BY <1>2, <2>1, <2>3 DEF JustlyRejected
  <2>4. CASE /\ ~CanBeRedeemed(Message(p))
             /\ pc'[p] = "mark" /\ verdict'[p] = "LimitReached" /\ current'[p] = current[p]
    <3>1. JustlyRejected(Message(p), "LimitReached")
      BY <2>2, <2>4 DEF CanBeRedeemed, JustlyRejected
    <3> QED
      BY <1>2, <2>1, <2>4, <3>1
  <2>5. CASE CanBeRedeemed(Message(p)) /\ pc'[p] = "used" /\ current'[p] = current[p]
    BY <1>2, <2>1, <2>5
  <2>6. CASE pc'[p] = "next"
    BY <1>1, <2>6
  <2> QED
    BY <1>4, <2>3, <2>4, <2>5, <2>6 DEF CheckLimit, Decide, Throw, Release, IInv, TypeOK
<1>5. ASSUME CheckUsed(p) PROVE Goal
  <2>1. current[p] # NoRow /\ ~IssueRebate(p) /\ CanBeRedeemed(Message(p))
    BY <1>5, HeldRow DEF CheckUsed, IssueRebate, IInv, ChecksStillHold
  <2>2. CASE /\ ~NotUsed(Message(p)) /\ current'[p] = current[p]
             /\ pc'[p] = "mark" /\ verdict'[p] = "QualifiedTransUsedAlready"
    <3>1. JustlyRejected(Message(p), "QualifiedTransUsedAlready")
      BY <2>2 DEF NotUsed, JustlyRejected
    <3> QED
      BY <1>2, <2>1, <2>2, <3>1
  <2>3. CASE /\ NotUsed(Message(p)) /\ current'[p] = current[p]
             /\ pc'[p] = "mark" /\ verdict'[p] \in {"Ineligible", "RebateNotDue", "RebateCreated"}
    <3>1. JustlyRejected(Message(p), verdict'[p])
      BY <2>3 DEF JustlyRejected
    <3> QED
      BY <1>2, <2>1, <2>3, <3>1
  <2>4. CASE pc'[p] = "next"
    BY <1>1, <2>4
  <2> QED
    BY <1>5, <2>2, <2>3, <2>4 DEF CheckUsed, Decide, Throw, Release, IInv, TypeOK
<1>6. ASSUME MarkAsProcessed(p) PROVE Goal
  <2>1. current[p] # NoRow /\ ~IssueRebate(p)
    BY <1>6, HeldRow DEF MarkAsProcessed, IssueRebate, IInv
  <2>2. CASE pc'[p] = "issue" /\ verdict[p] = "RebateCreated" /\ current'[p] = current[p]
    <3>1. NotUsed(Message(p)) /\ CanBeRedeemed(Message(p))
      BY <1>6, <2>2 DEF MarkAsProcessed, IInv, ChecksStillHold, Cleared
    <3> QED
      BY <1>2, <2>1, <2>2, <3>1
  <2>3. CASE pc'[p] = "next"
    BY <1>1, <2>3
  <2> QED
    BY <1>6, <2>2, <2>3 DEF MarkAsProcessed, Release, IInv, TypeOK
<1>7. ASSUME \/ Load(p) \/ Pick(p) \/ Finish(p) \/ IssueRebate(p) \/ Disconnect(p) \/ Crash(p)
      PROVE  Goal
  <2>1. pc'[p] \in {"next", "limit", "off"}
    BY <1>7 DEF Load, Pick, Finish, IssueRebate, Disconnect, Crash, Release, Terminate, IInv, TypeOK
  <2> QED
    BY <1>1, <2>1
<1>8. ASSUME StartRun \/ StartUnnumbered PROVE Goal
  <2>1. pc'[p] = "starting" \/ pc'[p] = pc[p]
    BY <1>8 DEF StartRun, StartUnnumbered, IInv, TypeOK
  <2>2. UNCHANGED <<current, verdict>>
    BY <1>8 DEF StartRun, StartUnnumbered
  <2>3. CASE pc'[p] = "starting"
    BY <1>1, <2>3
  <2>4. CASE pc'[p] = pc[p] /\ ~IssueRebate(p)
    BY <1>3, <2>2, <2>4
  <2>5. CASE IssueRebate(p)
    BY <1>7, <2>5
  <2> QED
    BY <2>1, <2>3, <2>4, <2>5
<1>9. ASSUME \/ \E m \in Messages : Arrive(m)
             \/ SeeNonePending \/ MCExport \/ ExportCommand \/ KillMaster \/ UNCHANGED vars
      PROVE  Goal
  <2>1. UNCHANGED <<pc, current, verdict>>
    BY <1>9 DEF Arrive, SeeNonePending, MCExport, ExportCommand, KillMaster, vars, processorVars
  <2> QED
    BY <1>3, <1>7, <2>1
<1>10. ASSUME NEW q \in Processors, q # p, Step(q) \/ Disconnect(q) \/ Crash(q)
       PROVE  Goal
  <2>1. pc'[p] = pc[p] /\ current'[p] = current[p] /\ verdict'[p] = verdict[p]
    BY <1>10 DEF Step, Load, Pick, Finish, CheckLimit, CheckUsed, MarkAsProcessed, IssueRebate,
       Disconnect, Crash, Decide, Throw, Release, Terminate, IInv, TypeOK
  <2> QED
    BY <1>3, <1>7, <2>1
<1> HIDE DEF Goal
<1>11. Goal
  BY <1>4, <1>5, <1>6, <1>7, <1>8, <1>9, <1>10 DEF Next, Step
<1> QED
  BY <1>11 DEF Goal

----------------------------------------------------------------------------
(* What the rebates and the rejections rest on.                            *)

LEMMA OneStep ==
  IInv /\ [Next]_vars => OneRebatePerTransaction'
<1> SUFFICES ASSUME IInv, [Next]_vars PROVE OneRebatePerTransaction'
  OBVIOUS
<1>1. /\ DOMAIN rebates \subseteq DOMAIN rebates'
      /\ \A r \in DOMAIN rebates : rebates'[r].message = rebates[r].message
  BY TablesKeep DEF IInv
<1>2. CASE DOMAIN rebates' = DOMAIN rebates
  BY <1>1, <1>2 DEF IInv, OneRebatePerTransaction
<1>3. ASSUME NEW q \in Processors, IssueRebate(q) PROVE OneRebatePerTransaction'
  <2>1. NotUsed(Message(q))
    BY <1>3 DEF IssueRebate, IInv, ChecksStillHold, Cleared
  <2>2. CASE UNCHANGED rebates
    BY <1>2, <2>2
  <2>3. CASE /\ DOMAIN rebates' = DOMAIN rebates \cup {Len(rebates) + 1}
             /\ rebates'[Len(rebates) + 1].message = Message(q)
    BY <1>1, <2>1, <2>3 DEF NotUsed, IInv, OneRebatePerTransaction
  <2> QED
    BY <1>3, <2>2, <2>3, IssueAddsOne DEF IInv
<1> QED
  BY <1>2, <1>3, OnlyIssueAdds DEF IInv

(* A new rebate counts for the limits of its own kind only, where its      *)
(* processor found room for it.                                            *)
LEMMA LimitStep ==
  IInv /\ TypeOK' /\ [Next]_vars => RedemptionLimitRespected'
<1> SUFFICES ASSUME IInv, TypeOK', [Next]_vars PROVE RedemptionLimitRespected'
  OBVIOUS
<1>1. /\ DOMAIN rebates \subseteq DOMAIN rebates'
      /\ \A r \in DOMAIN rebates : rebates'[r].message = rebates[r].message
  BY TablesKeep DEF IInv
<1>2. CASE DOMAIN rebates' = DOMAIN rebates
  BY <1>1, <1>2 DEF IInv, RedemptionLimitRespected, Redeemed, SameLimit
<1>3. ASSUME NEW q \in Processors, IssueRebate(q) PROVE RedemptionLimitRespected'
  <2> DEFINE new == Len(rebates) + 1
  <2>1. CASE UNCHANGED rebates
    BY <1>2, <2>1
  <2>2. CASE /\ DOMAIN rebates' = DOMAIN rebates \cup {new}
             /\ new \notin DOMAIN rebates
             /\ rebates'[new].message = Message(q)
    <3> HIDE DEF new
    <3>1. Message(q) \in Messages /\ CanBeRedeemed(Message(q))
      BY <1>3, HeldRow DEF IssueRebate, IInv, ChecksStillHold, Cleared
    <3>2. PICK n \in Messages : n = Message(q) /\ CanBeRedeemed(n)
      BY <3>1
    <3>3. \A r \in DOMAIN rebates' : rebates'[r].message \in Messages
      <4>1. rebates' \in Seq(Rebate)
        BY DEF TypeOK
      <4>2. \A r \in DOMAIN rebates' : rebates'[r] \in Rebate
        BY <4>1
      <4> QED
        BY <4>2 DEF Rebate
    <3>4. SUFFICES ASSUME NEW r \in DOMAIN rebates', NEW m \in Messages, m = rebates'[r].message,
                          RedemptionLimit[m.rebateCriteriaId] # 0
                   PROVE  Cardinality(Redeemed(m)') <= RedemptionLimit[m.rebateCriteriaId]
      BY <3>3 DEF RedemptionLimitRespected, Redeemed, SameLimit
    <3>5. RedemptionLimit[m.rebateCriteriaId] \in Nat /\ RedemptionLimit[m.rebateCriteriaId] # 0
      BY <3>4, ConstantsAssumption
    <3>6. /\ IsFiniteSet(Redeemed(m)) /\ Cardinality(Redeemed(m)) \in Nat
          /\ new \notin Redeemed(m)
      <4>1. Redeemed(m) \subseteq DOMAIN rebates
        BY DEF Redeemed
      <4> QED
        BY <2>2, <4>1, RebateSetsAreFinite DEF IInv
    <3>7. CASE SameLimit(m, n)
      <4>1. Redeemed(m)' = Redeemed(m) \cup {new}
        BY <1>1, <2>2, <3>2, <3>7 DEF Redeemed, SameLimit
      <4>2. Redeemed(m) = RebatesForLimit(n) /\ m.rebateCriteriaId = n.rebateCriteriaId
        BY <3>7 DEF Redeemed, RebatesForLimit, SameLimit
      <4>3. Cardinality(Redeemed(m)) < RedemptionLimit[m.rebateCriteriaId]
        BY <3>2, <3>5, <4>2 DEF CanBeRedeemed
      <4>4. Cardinality(Redeemed(m) \cup {new}) = Cardinality(Redeemed(m)) + 1
        BY <3>6, FS_AddElement
      <4> QED
        BY <3>5, <3>6, <4>1, <4>3, <4>4
    <3>8. CASE ~SameLimit(m, n)
      <4>1. Redeemed(m)' = Redeemed(m)
        BY <1>1, <2>2, <3>2, <3>8 DEF Redeemed, SameLimit
      <4>2. r \in DOMAIN rebates /\ rebates[r].message = m
        BY <1>1, <2>2, <3>2, <3>4, <3>8 DEF SameLimit
      <4>3. Cardinality(Redeemed(m)) <= RedemptionLimit[m.rebateCriteriaId]
        BY <3>5, <4>2 DEF IInv, RedemptionLimitRespected
      <4> QED
        BY <4>1, <4>3
    <3> QED
      BY <3>7, <3>8
  <2> QED
    BY <1>3, <2>1, <2>2, IssueAddsOne DEF IInv
<1> QED
  BY <1>2, <1>3, OnlyIssueAdds DEF IInv

(* A row's status is changed by a processor that marks it, on good grounds.*)
LEMMA JustStep ==
  IInv /\ TypeOK' /\ [Next]_vars => RejectionsAreJustified'
<1> SUFFICES ASSUME IInv, TypeOK', [Next]_vars PROVE RejectionsAreJustified'
  OBVIOUS
<1>1. ASSUME NEW m \in Messages, NEW status, JustlyRejected(m, status)
      PROVE  JustlyRejected(m, status)'
  BY <1>1, TablesKeep, JustifiedStays DEF IInv
<1>2. \A i \in DOMAIN transactions : transactions[i] \in Row
  BY DEF IInv, TypeOK
\* Every row keeps the status it had, is new, or has been given one on good grounds.
<1>3. SUFFICES ASSUME NEW i \in DOMAIN transactions', NEW m, NEW status,
                      m = transactions'[i].message, status = transactions'[i].status
               PROVE  JustlyRejected(m, status)'
  BY DEF RejectionsAreJustified, JustlyRejected, Redeemed, SameLimit
<1>4. ASSUME i \in DOMAIN transactions, status = transactions[i].status
      PROVE  JustlyRejected(m, status)'
  <2>1. m = transactions[i].message
    BY <1>3, <1>4, TablesKeep DEF IInv
  <2>2. m \in Messages /\ JustlyRejected(m, status)
    BY <1>2, <1>4, <2>1 DEF IInv, RejectionsAreJustified, Row
  <2> QED
    BY <1>1, <2>2
<1>5. ASSUME NEW n \in Messages, Arrive(n) PROVE JustlyRejected(m, status)'
  <2> DEFINE row == [message |-> n, status |-> "Pending", processed |-> FALSE,
                     processorId |-> Unassigned]
  <2>1. /\ transactions \in Seq(Row) /\ row \in Row /\ transactions' = Append(transactions, row)
        /\ row.status = "Pending"
    BY <1>5 DEF Arrive, Row, Unassigned, Processors, NoNumber, IInv, TypeOK
  <2> HIDE DEF row
  <2>2. \/ i \in DOMAIN transactions /\ transactions'[i] = transactions[i]
        \/ i = Len(transactions) + 1 /\ transactions'[i] = row
    BY <2>1, AppendRow
  <2>3. CASE status = "Pending"
    BY <2>3 DEF JustlyRejected
  <2>4. CASE i \in DOMAIN transactions /\ transactions'[i] = transactions[i]
    BY <1>3, <1>4, <2>4
  <2> QED
    BY <1>3, <2>1, <2>2, <2>3, <2>4
<1>6. ASSUME StartRun PROVE JustlyRejected(m, status)'
  <2>1. PICK h \in Hashes : transactions' = Assigned(h)
    BY <1>6 DEF StartRun
  <2>2. i \in DOMAIN transactions /\ Assigned(h)[i].status = transactions[i].status
    BY <1>2, <2>1 DEF Assigned, Row
  <2> QED
    BY <1>3, <1>4, <2>1, <2>2
<1>7. ASSUME NEW p \in Processors, MarkAsProcessed(p) PROVE JustlyRejected(m, status)'
  <2>1. /\ current[p] \in DOMAIN transactions /\ transactions[current[p]] \in Row
        /\ Message(p) \in Messages
    BY <1>7, HeldRow DEF MarkAsProcessed, IInv
  <2>2. JustlyRejected(Message(p), verdict[p])
    BY <1>7 DEF MarkAsProcessed, IInv, ChecksStillHold
  <2>3. i \in DOMAIN transactions
    BY <1>7, <2>1 DEF MarkAsProcessed
  <2>4. CASE transactions'[i] = transactions[i]
    BY <1>3, <1>4, <2>3, <2>4
  <2>5. CASE i = current[p] /\ status = verdict[p]
    <3>1. m = Message(p)
      BY <1>3, <2>3, <2>5, TablesKeep DEF IInv, Message
    <3> QED
      BY <1>1, <2>1, <2>2, <2>5, <3>1
  <2>6. transactions'[i] = transactions[i] \/ (i = current[p] /\ status = verdict[p])
    BY <1>3, <1>7, <2>1, <2>3 DEF MarkAsProcessed, Row
  <2> QED
    BY <2>4, <2>5, <2>6
<1>8. ASSUME UNCHANGED transactions PROVE JustlyRejected(m, status)'
  BY <1>3, <1>4, <1>8
<1>9. ASSUME \/ SeeNonePending \/ MCExport \/ ExportCommand \/ StartUnnumbered \/ KillMaster
              \/ UNCHANGED vars
              \/ \E p \in Processors :
                   \/ Load(p) \/ Pick(p) \/ Finish(p) \/ CheckLimit(p) \/ CheckUsed(p)
                   \/ IssueRebate(p) \/ Disconnect(p) \/ Crash(p)
       PROVE  UNCHANGED transactions
  BY <1>9 DEF SeeNonePending, MCExport, ExportCommand, StartUnnumbered, KillMaster, vars, tables,
               Load, Pick, Finish, CheckLimit, CheckUsed, IssueRebate, Disconnect, Crash
<1> QED
  BY <1>5, <1>6, <1>7, <1>8, <1>9 DEF Next, Step

----------------------------------------------------------------------------
(* The theorems.                                                           *)

LEMMA IInvStep == "overlap" \notin Faults /\ IInv /\ [Next]_vars => IInv'
<1> SUFFICES ASSUME "overlap" \notin Faults, IInv, [Next]_vars PROVE IInv'
  OBVIOUS
<1>1. TypeOK'
  BY TypeStep DEF IInv
<1>2. IdleHoldNothing'
  BY IdleStep DEF IInv
<1>3. UnnumberedAlone'
  BY AloneStep DEF IInv
<1>4. OwnUsers'
  BY OwnUsersStep DEF IInv
<1>5. HeldArePending'
  BY HeldStep DEF IInv
<1>6. ChecksStillHold'
  BY <1>1, ChecksStep
<1>7. OneRebatePerTransaction' /\ RedemptionLimitRespected' /\ RejectionsAreJustified'
  BY <1>1, OneStep, LimitStep, JustStep
<1> QED
  BY <1>1, <1>2, <1>3, <1>4, <1>5, <1>6, <1>7 DEF IInv

(* Whatever fails and whoever starts what, the state keeps its types.      *)
THEOREM TypeCorrect == Spec => []TypeOK
<1>1. Init => TypeOK /\ IdleHoldNothing
  BY InitInv DEF IInv
<1>2. TypeOK /\ IdleHoldNothing /\ [Next]_vars => (TypeOK /\ IdleHoldNothing)'
  BY TypeStep, IdleStep
<1> QED
  BY <1>1, <1>2, PTL DEF Spec

(* The inductive invariant, for any messages, hash, limits and number of   *)
(* workers and any failure, as long as T_P is not started during a run.    *)
THEOREM Invariant == ASSUME "overlap" \notin Faults PROVE Spec => []IInv
<1>1. Init => IInv
  BY InitInv
<1>2. IInv /\ [Next]_vars => IInv'
  BY IInvStep
<1> QED
  BY <1>1, <1>2, PTL DEF Spec

(* Two processes never work for the same user at once.                     *)
THEOREM Sequential == ASSUME "overlap" \notin Faults PROVE Spec => []SequentialPerUser
<1>1. IInv => SequentialPerUser
  BY DistinctUsers DEF IInv, SequentialPerUser
<1> QED
  BY <1>1, Invariant, PTL

(* A transaction earns at most one rebate, over any number of runs,        *)
(* deliveries of its message, crashes and failed statements.               *)
THEOREM OneRebate == ASSUME "overlap" \notin Faults PROVE Spec => []OneRebatePerTransaction
<1>1. IInv => OneRebatePerTransaction
  BY DEF IInv
<1> QED
  BY <1>1, Invariant, PTL

(* No client goes over an offer's redemption limit.                        *)
THEOREM LimitRespected ==
  ASSUME "overlap" \notin Faults PROVE Spec => []RedemptionLimitRespected
<1>1. IInv => RedemptionLimitRespected
  BY DEF IInv
<1> QED
  BY <1>1, Invariant, PTL

(* A row is turned down for the limit or for a used transaction only when  *)
(* the rebates that justify it are there.                                  *)
THEOREM Justified == ASSUME "overlap" \notin Faults PROVE Spec => []RejectionsAreJustified
<1>1. IInv => RejectionsAreJustified
  BY DEF IInv
<1> QED
  BY <1>1, Invariant, PTL

(* No step changes a row that has been processed.                          *)
THEOREM Final == ASSUME "overlap" \notin Faults PROVE Spec => ProcessedIsFinal
<1>1. IInv /\ [Next]_vars =>
        [\A i \in DOMAIN transactions :
           transactions[i].processed => transactions'[i] = transactions[i]]_vars
  BY FinalStep DEF IInv
<1> QED
  BY <1>1, Invariant, PTL DEF Spec, ProcessedIsFinal
=============================================================================
