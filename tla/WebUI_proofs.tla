----------------------------- MODULE WebUI_proofs -----------------------------
(***************************************************************************)
(* The two parts of the web UI that write: the users with their ledger,    *)
(* which the listener of the topic writes as well, and the imports of      *)
(* transactions.  They share nothing, so each has theorems of its own.     *)
(*                                                                         *)
(* Users and ledger, for any users, events, requests side by side and      *)
(* faults: the types, that what the database recorded stays, that a        *)
(* partition comes in time, that the ledger's last word follows the table  *)
(* of users, and that the days that are over are true.  Two facts carry    *)
(* the last two.  A save that changes a user also records it, now, so that *)
(* the user is settled whatever the save had found before (SaveHasEffect). *)
(* And an edit, whose entry gets the time of the request, either still has *)
(* the user as it stored it or finds a later entry in the ledger           *)
(* (EditsAreOvertaken), so that its entry is true or is not the last.      *)
(*                                                                         *)
(* Imports, for any imports, files and number of faults: the types, and    *)
(* what the records of imports say about the rows they stored.             *)
(***************************************************************************)
EXTENDS UserLedger, TransactionImport, TLAPS

----------------------------------------------------------------------------
(* Months.                                                                 *)

(* What \div is.                                                           *)
LEMMA Quotient ==
  ASSUME NEW k \in Nat \ {0}, NEW n \in Nat
  PROVE  n \div k \in Nat /\ (n \div k) * k <= n /\ n < (n \div k) * k + k
OBVIOUS

LEMMA Multiples ==
  ASSUME NEW k \in Nat \ {0}, NEW p \in Int, NEW q \in Int, p < q
  PROVE  p * k + k <= q * k
<1>1. (q - p - 1) * k >= 0
  OBVIOUS
<1>2. (q - p - 1) * k = q * k - p * k - k
  OBVIOUS
<1> QED
  BY <1>1, <1>2

LEMMA NextQuotient ==
  ASSUME NEW k \in Nat \ {0}, NEW n \in Nat
  PROVE  (n + 1) \div k \in {n \div k, n \div k + 1}
<1> DEFINE p == n \div k
           q == (n + 1) \div k
<1>1. p \in Nat /\ p * k <= n /\ n < p * k + k
  BY Quotient
<1>2. q \in Nat /\ q * k <= n + 1 /\ n + 1 < q * k + k
  BY Quotient
<1> HIDE DEF p, q
<1>3. p * k \in Int /\ q * k \in Int /\ (p + 1) * k = p * k + k
  BY <1>1, <1>2
<1>4. ~(q < p) /\ ~(p + 1 < q)
  BY <1>1, <1>2, <1>3, Multiples
<1> QED
  BY <1>1, <1>2, <1>4 DEF p, q

(* From one second to the next the month stays, or is the next one.        *)
LEMMA MonthsPass ==
  ASSUME NEW s \in Nat
  PROVE  MonthOf(s) \in Nat /\ MonthOf(s + 1) \in {MonthOf(s), MonthOf(s) + 1}
<1>1. SecondsPerDay * DaysPerMonth \in Nat \ {0}
  BY ConstantsAssumption
<1> QED
  BY <1>1, Quotient, NextQuotient DEF MonthOf

LEMMA TimeBegins == MonthOf(0) = 0
<1>1. \A k \in Nat \ {0} : 0 \div k = 0
  BY Quotient
<1> QED
  BY <1>1, ConstantsAssumption DEF MonthOf

----------------------------------------------------------------------------
(* Types.                                                                  *)

LEMMA TimeTypes ==
  ASSUME TypeOK
  PROVE  /\ now \in Nat /\ now \in 0 .. LastSecond /\ LastSecond \in Nat
         /\ 2 * now + 1 \in Stamps
         /\ \A s \in Seconds : s \in Nat /\ WholeSecond(s) \in Stamps /\ WholeSecond(s) = 2 * s
         /\ \A t \in Stamps : t \in Nat
         /\ \A d \in Days : d \in Nat /\ EndOfDay(d) \in Int
BY ConstantsAssumption DEF TypeOK, Seconds, Stamps, WholeSecond, Days, EndOfDay

(* The ledger once p of u is e.                                            *)
Entered(u, p, e) ==
  \A v \in Users, t \in Stamps :
    ledger'[v][t] = IF v = u /\ t = p THEN e ELSE ledger[v][t]

LEMMA EnteredIs ==
  ASSUME TypeOK, NEW u \in Users, NEW p \in Stamps, NEW e \in Entries,
         ledger' = [ledger EXCEPT ![u][p] = e]
  PROVE  ledger' \in LedgerTable /\ Entered(u, p, e) /\ e # NoEntry
<1>1. e # NoEntry
  BY ConstantsAssumption
<1>2. /\ ledger \in [Users -> [Stamps -> Entries \cup {NoEntry}]]
      /\ ledger[u] \in [Stamps -> Entries \cup {NoEntry}]
  BY DEF TypeOK, LedgerTable
<1>3. ledger' = [ledger EXCEPT ![u] = [ledger[u] EXCEPT ![p] = e]]
  OBVIOUS
<1>4. [ledger[u] EXCEPT ![p] = e] \in [Stamps -> Entries \cup {NoEntry}]
  BY <1>2
<1>5. \A t \in Stamps : [ledger[u] EXCEPT ![p] = e][t] = IF t = p THEN e ELSE ledger[u][t]
  BY <1>2
<1>6. ledger' \in LedgerTable
  BY <1>2, <1>3, <1>4 DEF LedgerTable
<1>7. ledger'[u] = [ledger[u] EXCEPT ![p] = e] /\ \A v \in Users \ {u} : ledger'[v] = ledger[v]
  BY <1>2, <1>3
<1> QED
  BY <1>1, <1>5, <1>6, <1>7 DEF Entered

(* What a save does: nothing, or it writes the row, and the trigger adds   *)
(* an entry if there is news.                                              *)
SaveDoes(u, row, found, new) ==
  /\ Writes(u, row, found) /\ new = Saved(u, row, found) /\ new \in Rows
  /\ users' = [users EXCEPT ![u] = new]
  /\ \/ ledger' = [ledger EXCEPT ![u][2 * now + 1] = [info |-> new.info, enrolled |-> FALSE]]
     \/ ~HasNews(u, new.info) /\ ledger' = ledger

LEMMA SaveIs ==
  ASSUME TypeOK, NEW u \in Users, NEW row \in Rows, NEW found \in Rows \cup {NoUser},
         SaveUser(u, row, found)
  PROVE  \/ ~Writes(u, row, found) /\ UNCHANGED <<users, ledger>>
         \/ \E new \in Rows : SaveDoes(u, row, found, new)
<1>1. CASE ~Writes(u, row, found)
  BY <1>1 DEF SaveUser
<1>2. CASE Writes(u, row, found)
  <2> DEFINE new == Saved(u, row, found)
  <2>1. users[u] \in Rows \cup {NoUser}
    BY DEF TypeOK, UserTable
  <2>2. new \in Rows
    BY <1>2, <2>1, ConstantsAssumption DEF Saved, Writes, Rows
  <2> HIDE DEF new
  <2>3. /\ users' = [users EXCEPT ![u] = new]
        /\ ledger' = IF HasNews(u, new.info)
                     THEN [ledger EXCEPT ![u][2 * now + 1] =
                             [info |-> new.info, enrolled |-> FALSE]]
                     ELSE ledger
    BY <1>2 DEF SaveUser, new
  <2> QED
    BY <1>2, <2>2, <2>3 DEF SaveDoes, new
<1> QED
  BY <1>1, <1>2

LEMMA SaveType ==
  ASSUME TypeOK, NEW u \in Users, NEW row \in Rows, NEW found \in Rows \cup {NoUser},
         SaveUser(u, row, found)
  PROVE  users' \in UserTable /\ ledger' \in LedgerTable
<1>1. CASE UNCHANGED <<users, ledger>>
  BY <1>1 DEF TypeOK
<1>2. ASSUME NEW new \in Rows, SaveDoes(u, row, found, new)
      PROVE  users' \in UserTable /\ ledger' \in LedgerTable
  <2>1. [info |-> new.info, enrolled |-> FALSE] \in Entries /\ 2 * now + 1 \in Stamps
    BY TimeTypes DEF Entries, Rows
  <2>2. ledger' \in LedgerTable
    BY <1>2, <2>1, EnteredIs DEF SaveDoes, TypeOK
  <2> QED
    BY <1>2, <2>2 DEF SaveDoes, TypeOK, UserTable
<1> QED
  BY <1>1, <1>2, SaveIs

(* What a request becomes when it goes on, and that others stay.           *)
LEMMA GoToIs ==
  ASSUME TypeOK, NEW r \in Requests, NEW stage, GoTo(r, stage)
  PROVE  /\ request'[r].stage = stage
         /\ request'[r].kind = request[r].kind /\ request'[r].user = request[r].user
         /\ request'[r].info = request[r].info /\ request'[r].at = request[r].at
         /\ request'[r].to = request[r].to /\ request'[r].found = request[r].found
         /\ \A q \in Requests \ {r} : request'[q] = request[q]
BY DEF TypeOK, GoTo, RequestRecords

(* The types of what the requests hold.                                    *)
RequestIsTyped(r) ==
  /\ request[r].stage \in {"find", "save", "record"} =>
       request[r].user \in Users /\ request[r].info \in Infos
  /\ request[r].stage \in {"find", "save", "record"} <=> request[r].kind \in {"edit", "create"}
  /\ request[r].stage \in {"move", "remove"} =>
       request[r].user \in Users /\ request[r].info \in Infos
  /\ request[r].stage = "deleting" => request[r].user \in Users

RequestsAreTyped ==
  request \in [Requests -> RequestRecords] /\ \A r \in Requests : RequestIsTyped(r)

LEMMA RequestChanges ==
  ASSUME TypeOK, NEW r \in Requests, NEW new \in RequestRecords,
         request' = [request EXCEPT ![r] = new],
         RequestIsTyped(r)'
  PROVE  RequestsAreTyped'
BY DEF TypeOK, RequestsAreTyped, RequestIsTyped

LEMMA Goes ==
  ASSUME TypeOK, NEW r \in Requests, NEW stage \in Stages, GoTo(r, stage), RequestIsTyped(r)'
  PROVE  RequestsAreTyped'
<1>1. [request[r] EXCEPT !.stage = stage] \in RequestRecords
  BY DEF TypeOK, RequestRecords
<1>2. request' = [request EXCEPT ![r] = [request[r] EXCEPT !.stage = stage]]
  BY DEF GoTo
<1> QED
  BY <1>1, <1>2, RequestChanges

LEMMA IdleIsTyped == Idle \in RequestRecords
BY ConstantsAssumption DEF Idle, RequestRecords, Stages, Seconds

LEMMA Finishes ==
  ASSUME TypeOK, NEW r \in Requests, Finish(r)
  PROVE  /\ RequestsAreTyped'
         /\ request'[r] = Idle
         /\ \A q \in Requests \ {r} : request'[q] = request[q]
<1>1. request'[r] = Idle /\ \A q \in Requests \ {r} : request'[q] = request[q]
  BY DEF Finish, TypeOK
<1>2. RequestIsTyped(r)'
  BY <1>1 DEF RequestIsTyped, Idle
<1> QED
  BY <1>1, <1>2, RequestChanges, IdleIsTyped DEF Finish

(* A new request takes a free place, and leaves the others.                *)
LEMMA Begins ==
  ASSUME TypeOK, NEW r \in Requests, NEW new \in RequestRecords, Begin(r, new),
         new.stage \in {"find", "save", "record"} =>
           new.user \in Users /\ new.info \in Infos,
         new.stage \in {"find", "save", "record"} <=> new.kind \in {"edit", "create"},
         new.stage \in {"move", "remove"} => new.user \in Users /\ new.info \in Infos,
         new.stage = "deleting" => new.user \in Users
  PROVE  /\ RequestsAreTyped' /\ sent' \in 0 .. MaxRequests
         /\ request[r].stage = "idle" /\ request'[r] = new
         /\ \A q \in Requests \ {r} : request'[q] = request[q]
<1>1. request[r].stage = "idle"
  BY DEF Begin
<1>2. request'[r] = new /\ \A q \in Requests \ {r} : request'[q] = request[q]
  BY DEF Begin, TypeOK
<1>3. RequestIsTyped(r)'
  BY <1>2 DEF RequestIsTyped
<1>4. RequestsAreTyped'
  BY <1>3, RequestChanges DEF Begin
<1>5. sent' \in 0 .. MaxRequests
  BY ConstantsAssumption DEF Begin, TypeOK
<1> QED
  BY <1>1, <1>2, <1>4, <1>5

(* What a new request holds.                                               *)
EditOf(u, i) ==
  [stage |-> "find", kind |-> "edit", user |-> u, info |-> i, at |-> now, to |-> now,
   found |-> NoUser]

CreateOf(u, i) ==
  [stage |-> "record", kind |-> "create", user |-> u, info |-> i, at |-> now, to |-> now,
   found |-> NoUser]

CorrectOf(u, s, to) ==
  [stage |-> "move", kind |-> "correct", user |-> u, info |-> FindUserLedgerRecord(u, s).info,
   at |-> s, to |-> to, found |-> NoUser]

DeletionOf(u) == [Idle EXCEPT !.stage = "deleting", !.kind = "delete", !.user = u]

DeletionOfAll == [Idle EXCEPT !.stage = "truncateUsers", !.kind = "delete"]

LEMMA NewRequestsType ==
  ASSUME TypeOK
  PROVE  /\ \A u \in Users, i \in Infos :
              EditOf(u, i) \in RequestRecords /\ CreateOf(u, i) \in RequestRecords
         /\ \A u \in Users, s \in Seconds, to \in NewTimes :
              FindUserLedgerRecord(u, s) # NoEntry =>
                CorrectOf(u, s, to) \in RequestRecords /\ CorrectOf(u, s, to).info \in Infos
         /\ \A u \in Users : DeletionOf(u) \in RequestRecords
         /\ DeletionOfAll \in RequestRecords
<1>1. now \in Seconds /\ 0 \in Seconds
  BY ConstantsAssumption DEF TypeOK, Seconds
<1>2. ASSUME NEW u \in Users, NEW s \in Seconds, FindUserLedgerRecord(u, s) # NoEntry
      PROVE  FindUserLedgerRecord(u, s).info \in Infos
  <2>1. WholeSecond(s) \in Stamps
    BY TimeTypes
  <2>2. FindUserLedgerRecord(u, s) \in Entries
    BY <1>2, <2>1 DEF FindUserLedgerRecord, TypeOK, LedgerTable
  <2> QED
    BY <2>2 DEF Entries
<1> USE DEF RequestRecords, Stages
<1>3. \A u \in Users, i \in Infos :
        EditOf(u, i) \in RequestRecords /\ CreateOf(u, i) \in RequestRecords
  BY <1>1 DEF EditOf, CreateOf
<1>4. \A u \in Users, s \in Seconds, to \in NewTimes :
        FindUserLedgerRecord(u, s) # NoEntry =>
          CorrectOf(u, s, to) \in RequestRecords /\ CorrectOf(u, s, to).info \in Infos
  BY <1>2, ConstantsAssumption DEF CorrectOf
<1>5. \A u \in Users : DeletionOf(u) \in RequestRecords
  BY <1>1 DEF DeletionOf, Idle
<1>6. DeletionOfAll \in RequestRecords
  BY <1>1 DEF DeletionOfAll, Idle
<1> QED
  BY <1>3, <1>4, <1>5, <1>6

(* What a new request does to the requests, and what it leaves.            *)
BeginsWith(r, new) ==
  /\ new \in RequestRecords
  /\ Begin(r, new)
  /\ RequestsAreTyped' /\ sent' \in 0 .. MaxRequests
  /\ request[r].stage = "idle" /\ request'[r] = new
  /\ \A q \in Requests \ {r} : request'[q] = request[q]
  /\ UNCHANGED <<time, users, ledger, kafka, faults, corrected>>

LEMMA NewRequestIs ==
  ASSUME TypeOK, NEW r \in Requests, NewRequest(r)
  PROVE  \/ \E u \in Users, i \in Infos : users[u] # NoUser /\ BeginsWith(r, EditOf(u, i))
         \/ \E u \in Users, i \in Infos : BeginsWith(r, CreateOf(u, i))
         \/ \E u \in Users, s \in Seconds, to \in NewTimes : BeginsWith(r, CorrectOf(u, s, to))
         \/ \E u \in Users : BeginsWith(r, DeletionOf(u))
         \/ BeginsWith(r, DeletionOfAll)
<1>1. ASSUME NEW u \in Users, NEW i \in Infos, Edit(r, u, i)
      PROVE  users[u] # NoUser /\ BeginsWith(r, EditOf(u, i))
  <2>1. Begin(r, EditOf(u, i)) /\ EditOf(u, i) \in RequestRecords
    BY <1>1, NewRequestsType DEF Edit, EditOf
  <2> QED
    BY <1>1, <2>1, Begins DEF Edit, EditOf, BeginsWith
<1>2. ASSUME NEW u \in Users, NEW i \in Infos, Create(r, u, i)
      PROVE  BeginsWith(r, CreateOf(u, i))
  <2>1. Begin(r, CreateOf(u, i)) /\ CreateOf(u, i) \in RequestRecords
    BY <1>2, NewRequestsType DEF Create, CreateOf
  <2> QED
    BY <1>2, <2>1, Begins DEF Create, CreateOf, BeginsWith
<1>3. ASSUME NEW u \in Users, NEW s \in Seconds, NEW to \in NewTimes, Correct(r, u, s, to)
      PROVE  BeginsWith(r, CorrectOf(u, s, to))
  <2>1. /\ Begin(r, CorrectOf(u, s, to)) /\ CorrectOf(u, s, to) \in RequestRecords
        /\ CorrectOf(u, s, to).info \in Infos
    BY <1>3, NewRequestsType DEF Correct, CorrectOf
  <2> QED
    BY <1>3, <2>1, Begins DEF Correct, CorrectOf, BeginsWith
<1>4. ASSUME NEW u \in Users, DeleteHistory(r, u)
      PROVE  BeginsWith(r, DeletionOf(u))
  <2>1. Begin(r, DeletionOf(u)) /\ DeletionOf(u) \in RequestRecords
    BY <1>4, NewRequestsType DEF DeleteHistory, DeletionOf
  <2>2. DeletionOf(u).stage = "deleting" /\ DeletionOf(u).user = u /\ DeletionOf(u).kind = "delete"
    BY DEF DeletionOf, Idle
  <2> QED
    BY <1>4, <2>1, <2>2, Begins DEF DeleteHistory, BeginsWith
<1>5. ASSUME DeleteAll(r)
      PROVE  BeginsWith(r, DeletionOfAll)
  <2>1. Begin(r, DeletionOfAll) /\ DeletionOfAll \in RequestRecords
    BY <1>5, NewRequestsType DEF DeleteAll, DeletionOfAll
  <2>2. DeletionOfAll.stage = "truncateUsers" /\ DeletionOfAll.kind = "delete"
    BY DEF DeletionOfAll, Idle
  <2> QED
    BY <1>5, <2>1, <2>2, Begins DEF DeleteAll, BeginsWith
<1> QED
  BY <1>1, <1>2, <1>3, <1>4, <1>5 DEF NewRequest

(* The types of the listener.                                              *)
TopicIsTyped ==
  /\ fetched \in 0 .. Len(Topic) /\ handled \in 0 .. fetched /\ committed \in 0 .. fetched
  /\ listener \in {"waiting", "save", "hung", "down"} /\ lfound \in Rows \cup {NoUser}
  /\ listener = "save" => handled < fetched
  /\ stored \subseteq DOMAIN Topic /\ lost \subseteq DOMAIN Topic

LEMMA TopicLength == Len(Topic) \in Nat /\ DOMAIN Topic = 1 .. Len(Topic)
BY ConstantsAssumption

(* The event that is handled is one of the topic.                          *)
LEMMA EventType ==
  ASSUME TypeOK, handled < fetched
  PROVE  /\ Event.user \in Users /\ Event.info \in Infos /\ EventRow \in Rows
         /\ handled + 1 \in DOMAIN Topic
<1>1. handled + 1 \in DOMAIN Topic
  BY TopicLength DEF TypeOK
<1> QED
  BY <1>1, ConstantsAssumption DEF Event, EventRow, Rows

LEMMA FaultType == TypeOK /\ Fault => faults' \in 0 .. MaxFaults
BY ConstantsAssumption DEF TypeOK, Fault

LEMMA TypeStep == TypeOK /\ [Next]_vars => TypeOK'
<1> SUFFICES ASSUME TypeOK, [Next]_vars PROVE TypeOK'
  OBVIOUS
<1> USE DEF time, kafka, web
<1>0. RequestsAreTyped /\ TopicIsTyped
  BY DEF TypeOK, RequestsAreTyped, RequestIsTyped, TopicIsTyped
<1>a. ASSUME now' \in Seconds, partitions' \subseteq Int, users' \in UserTable,
             ledger' \in LedgerTable, TopicIsTyped', RequestsAreTyped',
             sent' \in 0 .. MaxRequests, faults' \in 0 .. MaxFaults,
             ran' \in BOOLEAN, skipped' \subseteq Int, corrected' \subseteq Users,
             closing' \in [Days -> UserTable]
      PROVE  TypeOK'
  BY <1>a DEF TypeOK, RequestsAreTyped, RequestIsTyped, TopicIsTyped
<1>b. UNCHANGED <<listener, lfound, fetched, handled, committed, stored, lost>> => TopicIsTyped'
  BY <1>0 DEF TopicIsTyped
<1>c. UNCHANGED request => RequestsAreTyped'
  BY <1>0 DEF RequestsAreTyped, RequestIsTyped
<1>1. CASE CreateNextMonthsTable
  <2>1. MonthOf(now) + 1 \in Int
    BY TimeTypes, MonthsPass
  <2>2. partitions' \subseteq Int /\ ran' \in BOOLEAN
    BY <1>1, <2>1 DEF CreateNextMonthsTable, TypeOK
  <2> QED
    BY <1>a, <1>b, <1>c, <1>1, <2>2 DEF CreateNextMonthsTable, TypeOK
<1>2. CASE Tick
  <2>1. now' \in Seconds /\ MonthOf(now + 1) \in Int
    BY <1>2, TimeTypes, MonthsPass DEF Tick, Seconds
  <2>2. closing' \in [Days -> UserTable]
    BY <1>2 DEF Tick, TypeOK
  <2> QED
    BY <1>a, <1>b, <1>c, <1>2, <2>1, <2>2, FaultType DEF Tick, TypeOK
<1>3. CASE Fetch \/ AutoCommit \/ Process \/ Restart
  <2>1. TopicIsTyped'
    <3>1. CASE Fetch \/ AutoCommit \/ Restart
      BY <1>0, <1>3, <3>1, TopicLength DEF Fetch, AutoCommit, Restart, TopicIsTyped
    <3>2. CASE Process
      <4>1. handled < fetched /\ users[Event.user] \in Rows \cup {NoUser}
        BY <3>2, EventType DEF Process, TypeOK, UserTable
      <4> QED
        BY <1>0, <3>2, <4>1, EventType, TopicLength DEF Process, TopicIsTyped
    <3> QED
      BY <1>3, <3>1, <3>2
  <2>2. UNCHANGED <<time, users, ledger, request, sent, faults, corrected>>
    BY <1>3 DEF Fetch, AutoCommit, Process, Restart
  <2> QED
    BY <1>a, <1>c, <2>1, <2>2 DEF TypeOK
<1>4. CASE StoreUser
  <2>1. handled < fetched /\ lfound \in Rows \cup {NoUser}
    BY <1>4 DEF StoreUser, TypeOK
  <2>2. users' \in UserTable /\ ledger' \in LedgerTable
    BY <1>4, <2>1, EventType, SaveType DEF StoreUser
  <2>3. TopicIsTyped'
    BY <1>0, <1>4, <2>1, EventType, TopicLength DEF StoreUser, TopicIsTyped
  <2> QED
    BY <1>a, <1>c, <1>4, <2>2, <2>3 DEF StoreUser, TypeOK
<1>5. CASE StoreFails \/ Die
  <2>1. /\ lfound' = NoUser
        /\ listener' = "waiting" => listener = "save"
        /\ listener' \in {"waiting", "hung", "down"}
        /\ \/ handled' = handled + 1 /\ lost' = lost \cup {handled + 1} /\ listener = "save"
           \/ UNCHANGED <<handled, lost>>
           \/ UNCHANGED handled /\ lost' = lost \cup (handled + 1 .. committed)
        /\ UNCHANGED <<time, users, ledger, fetched, committed, stored, request, sent, corrected>>
        /\ faults' \in 0 .. MaxFaults
    BY <1>5, FaultType DEF StoreFails, Die, GoDown, TypeOK
  <2>2. TopicIsTyped'
    BY <1>0, <2>1, EventType, TopicLength DEF TopicIsTyped
  <2> QED
    BY <1>a, <1>c, <2>1, <2>2 DEF TypeOK
<1>6. ASSUME NEW r \in Requests, NewRequest(r) PROVE TypeOK'
  <2>1. /\ RequestsAreTyped' /\ sent' \in 0 .. MaxRequests
        /\ UNCHANGED <<time, users, ledger, kafka, faults, corrected>>
    BY <1>6, NewRequestIs DEF BeginsWith
  <2> QED
    BY <1>a, <1>b, <2>1 DEF TypeOK
<1>7. ASSUME NEW r \in Requests, FindUser(r) PROVE TypeOK'
  <2> DEFINE new == [request[r] EXCEPT !.stage = "save", !.found = users[request[r].user]]
  <2>1. request[r] \in RequestRecords /\ RequestIsTyped(r) /\ request[r].stage = "find"
    BY <1>0, <1>7 DEF FindUser, RequestsAreTyped
  <2>2. users[request[r].user] \in Rows \cup {NoUser}
    BY <2>1 DEF RequestIsTyped, TypeOK, UserTable
  <2>3. new \in RequestRecords
    BY <2>1, <2>2 DEF RequestRecords, Stages
  <2>4. /\ new.stage = "save" /\ new.user = request[r].user /\ new.info = request[r].info
        /\ new.kind = request[r].kind
    BY <2>1 DEF RequestRecords
  <2> HIDE DEF new
  <2>5. request' = [request EXCEPT ![r] = new] /\ request'[r] = new
    BY <1>7 DEF FindUser, new, TypeOK
  <2>6. RequestsAreTyped'
    BY <2>1, <2>3, <2>4, <2>5, RequestChanges DEF RequestIsTyped
  <2> QED
    BY <1>a, <1>b, <1>7, <2>6 DEF FindUser, TypeOK
<1>8. ASSUME NEW r \in Requests, WriteUser(r) PROVE TypeOK'
  <2>1. RequestIsTyped(r) /\ request[r].stage = "save" /\ request[r].found \in Rows \cup {NoUser}
    BY <1>0, <1>8 DEF WriteUser, RequestsAreTyped, RequestRecords
  <2>2. RowByHand(r) \in Rows
    BY <2>1 DEF RequestIsTyped, RowByHand, Rows
  <2>3. users' \in UserTable /\ ledger' \in LedgerTable
    BY <1>8, <2>1, <2>2, SaveType DEF WriteUser, RequestIsTyped
  <2>4. RequestsAreTyped'
    <3>1. CASE GoTo(r, "record")
      BY <2>1, <3>1, GoToIs, Goes DEF RequestIsTyped, Stages
    <3> QED
      BY <1>8, <3>1, Finishes DEF WriteUser
  <2> QED
    BY <1>a, <1>b, <1>8, <2>3, <2>4 DEF WriteUser, TypeOK
<1>9. ASSUME NEW r \in Requests, RecordByHand(r) PROVE TypeOK'
  <2>1. RequestIsTyped(r) /\ request[r].stage = "record" /\ request[r].at \in Seconds
    BY <1>0, <1>9 DEF RecordByHand, RequestsAreTyped, RequestRecords
  <2>2. [info |-> request[r].info, enrolled |-> TRUE] \in Entries
    BY <2>1 DEF RequestIsTyped, Entries
  <2>3. ledger' \in LedgerTable
    BY <1>9, <2>1, <2>2, TimeTypes, EnteredIs DEF RecordByHand, RequestIsTyped
  <2>4. RequestsAreTyped'
    <3>1. CASE GoTo(r, "find")
      BY <2>1, <3>1, GoToIs, Goes DEF RequestIsTyped, Stages
    <3> QED
      BY <1>9, <3>1, Finishes DEF RecordByHand
  <2> QED
    BY <1>a, <1>b, <1>9, <2>3, <2>4 DEF RecordByHand, TypeOK
<1>10. ASSUME NEW r \in Requests, MoveEntry(r) PROVE TypeOK'
  <2>1. RequestIsTyped(r) /\ request[r].stage = "move" /\ request[r].to \in Seconds
    BY <1>0, <1>10 DEF MoveEntry, RequestsAreTyped, RequestRecords
  <2>2. [info |-> request[r].info, enrolled |-> TRUE] \in Entries /\ request[r].user \in Users
    BY <2>1 DEF RequestIsTyped, Entries
  <2>3. ledger' \in LedgerTable
    BY <1>10, <2>1, <2>2, TimeTypes, EnteredIs DEF MoveEntry
  <2>4. RequestsAreTyped'
    BY <1>10, <2>1, GoToIs, Goes DEF MoveEntry, RequestIsTyped, Stages
  <2> QED
    BY <1>a, <1>b, <1>10, <2>2, <2>3, <2>4 DEF MoveEntry, TypeOK
<1>11. ASSUME NEW r \in Requests, RemoveOld(r) PROVE TypeOK'
  <2> DEFINE t == WholeSecond(request[r].at)
             u == request[r].user
             hit == {v \in Users : ledger[u][t] # NoEntry /\ ledger[v][t] # NoEntry}
  <2>1. hit \subseteq Users
    OBVIOUS
  <2> HIDE DEF hit
  <2>2. /\ ledger' = [v \in Users |->
                        IF v \in hit THEN [ledger[v] EXCEPT ![t] = NoEntry] ELSE ledger[v]]
        /\ corrected' = corrected \cup hit
    BY <1>11 DEF RemoveOld, hit
  <2>3. \A v \in Users : [ledger[v] EXCEPT ![t] = NoEntry] \in [Stamps -> Entries \cup {NoEntry}]
    BY DEF TypeOK, LedgerTable
  <2>4. ledger' \in LedgerTable
    BY <2>2, <2>3 DEF TypeOK, LedgerTable
  <2> QED
    BY <1>a, <1>b, <1>11, <2>1, <2>2, <2>4, Finishes DEF RemoveOld, TypeOK
<1>12. ASSUME NEW r \in Requests, DeleteEntries(r) PROVE TypeOK'
  <2>1. request[r].user \in Users
    BY <1>0, <1>12 DEF DeleteEntries, RequestsAreTyped, RequestIsTyped
  <2>2. ledger' \in LedgerTable
    BY <1>12 DEF DeleteEntries, TypeOK, LedgerTable
  <2> QED
    BY <1>a, <1>b, <1>c, <1>12, <2>1, <2>2, Finishes DEF DeleteEntries, TypeOK
<1>13. ASSUME NEW r \in Requests, TruncateUsers(r) PROVE TypeOK'
  <2>1. RequestsAreTyped'
    BY <1>0, <1>13, GoToIs, Goes DEF TruncateUsers, RequestsAreTyped, RequestIsTyped, Stages
  <2>2. users' \in UserTable
    BY <1>13 DEF TruncateUsers, UserTable
  <2> QED
    BY <1>a, <1>b, <1>13, <2>1, <2>2 DEF TruncateUsers, TypeOK
<1>14. ASSUME NEW r \in Requests, TruncateLedger(r) PROVE TypeOK'
  <2>1. ledger' \in LedgerTable
    BY <1>14 DEF TruncateLedger, LedgerTable
  <2> QED
    BY <1>a, <1>b, <1>14, <2>1, Finishes DEF TruncateLedger, TypeOK
<1>15. ASSUME NEW r \in Requests, BreakOff(r) PROVE TypeOK'
  <2>1. faults' \in 0 .. MaxFaults
    BY <1>15, FaultType DEF BreakOff, TypeOK
  <2>2. corrected' \subseteq Users
    <3>1. CASE request[r].kind = "create" /\ request[r].stage # "record"
      <4>1. request[r].user \in Users
        BY <1>0, <3>1 DEF RequestsAreTyped, RequestIsTyped
      <4> QED
        BY <1>15, <3>1, <4>1 DEF BreakOff, TypeOK
    <3> QED
      BY <1>15, <3>1 DEF BreakOff, TypeOK
  <2> QED
    BY <1>a, <1>b, <1>15, <2>1, <2>2, Finishes DEF BreakOff, TypeOK
<1>16. CASE UNCHANGED vars
  BY <1>a, <1>b, <1>c, <1>16 DEF vars, TypeOK
<1> QED
  BY <1>1, <1>2, <1>3, <1>4, <1>5, <1>6, <1>7, <1>8, <1>9, <1>10, <1>11, <1>12, <1>13, <1>14,
     <1>15, <1>16
     DEF Next, ListenerStep, RequestStep

LEMMA InitInv == Init => IInv
<1> SUFFICES ASSUME Init PROVE IInv
  OBVIOUS
<1>1. TypeOK
  <2>1. 0 \in Seconds /\ 0 \in 0 .. MaxRequests /\ 0 \in 0 .. MaxFaults
    BY ConstantsAssumption DEF Seconds
  <2>2. \A r \in Requests : request[r] = Idle
    BY DEF Init
  <2>3. \A r \in Requests : request[r].stage = "idle" /\ request[r].kind = "none"
    BY <2>2 DEF Idle
  <2>4. request \in [Requests -> RequestRecords]
    BY IdleIsTyped DEF Init
  <2>5. users \in UserTable /\ ledger \in LedgerTable /\ closing \in [Days -> UserTable]
    BY DEF Init, UserTable, LedgerTable
  <2>6. TopicIsTyped
    BY TopicLength DEF Init, TopicIsTyped
  <2>7. RequestsAreTyped
    BY <2>3, <2>4 DEF RequestsAreTyped, RequestIsTyped
  <2>8. /\ now \in Seconds /\ partitions \subseteq Int
        /\ sent \in 0 .. MaxRequests /\ faults \in 0 .. MaxFaults
    BY <2>1 DEF Init
  <2>9. ran \in BOOLEAN /\ skipped \subseteq Int /\ corrected \subseteq Users
    BY DEF Init
  <2> QED
    BY <2>5, <2>6, <2>7, <2>8, <2>9 DEF TypeOK, RequestsAreTyped, RequestIsTyped, TopicIsTyped
<1>2. MonthsSoFar /\ PartitionsComeInTime
  BY TimeBegins DEF Init, MonthsSoFar, PartitionsComeInTime
<1>3. /\ \A u \in Users : users[u] = NoUser /\ \A t \in Stamps : ledger[u][t] = NoEntry
      /\ \A d \in Days, u \in Users : closing[d][u] = NoUser
  BY DEF Init
<1>4. \A r \in Requests : ~AtWork(r)
  BY DEF Init, AtWork, Idle
<1> QED
  BY <1>1, <1>2, <1>3, <1>4
     DEF IInv, EntriesAreOfThePast, RequestsAreOfThePast, UnstoredWereEntered, LastWordIsStored,
         EditsAreOvertaken, EditIsOvertaken, ClosedDaysAreTrue

----------------------------------------------------------------------------
(* The partitions.                                                         *)

(* The job makes the table of the month to come, and only that one: so the *)
(* months without one are those the job was not run for.                   *)
LEMMA MonthsStep ==
  ASSUME TypeOK, MonthsSoFar, PartitionsComeInTime, [Next]_vars
  PROVE  MonthsSoFar' /\ PartitionsComeInTime'
<1> USE DEF MonthsSoFar, PartitionsComeInTime
<1>0. now \in Nat /\ MonthOf(now) \in Nat /\ MonthOf(now + 1) \in {MonthOf(now), MonthOf(now) + 1}
  BY TimeTypes, MonthsPass
<1>1. CASE CreateNextMonthsTable
  <2>1. MonthOf(now)' = MonthOf(now)
    BY <1>1 DEF CreateNextMonthsTable, MonthOf
  <2> QED
    BY <1>0, <1>1, <2>1 DEF CreateNextMonthsTable
<1>2. CASE Tick
  <2>1. MonthOf(now)' = MonthOf(now + 1) /\ partitions' = partitions
    BY <1>2 DEF Tick, MonthOf
  <2>2. CASE MonthOf(now + 1) = MonthOf(now)
    BY <1>2, <2>1, <2>2 DEF Tick
  <2>3. CASE MonthOf(now + 1) # MonthOf(now)
    <3>1. /\ MonthOf(now + 1) = MonthOf(now) + 1
          /\ partitions \subseteq Int /\ skipped \subseteq Int /\ ran \in BOOLEAN
      BY <1>0, <2>3 DEF TypeOK
    <3>2. CASE ran /\ ran' = FALSE /\ skipped' = skipped
      BY <1>0, <2>1, <3>1, <3>2
    <3>3. CASE ~ran /\ ran' = ran /\ skipped' = skipped \cup {MonthOf(now + 1)}
      BY <1>0, <2>1, <3>1, <3>3
    <3> QED
      BY <1>2, <2>3, <3>2, <3>3 DEF Tick
  <2> QED
    BY <2>2, <2>3
<1>3. CASE UNCHANGED time
  <2>1. MonthOf(now)' = MonthOf(now)
    BY <1>3 DEF time, MonthOf
  <2> QED
    BY <1>3, <2>1 DEF time
<1> QED
  BY <1>1, <1>2, <1>3
     DEF Next, ListenerStep, RequestStep, NewRequest, Fetch, AutoCommit, Process, StoreUser,
         StoreFails, Die, Restart, Edit, Create, Correct, DeleteHistory, DeleteAll, FindUser,
         WriteUser, RecordByHand, MoveEntry, RemoveOld, DeleteEntries, TruncateUsers,
         TruncateLedger, BreakOff, vars

----------------------------------------------------------------------------
(* The last of a user's entries.                                           *)

LEMMA LatestIsOne ==
  ASSUME TypeOK, NEW u \in Users, NEW t \in Latest(u), NEW p \in Latest(u)
  PROVE  t = p
BY TimeTypes DEF Latest

LEMMA LatestStays ==
  ASSUME NEW u \in Users, ledger'[u] = ledger[u]
  PROVE  Latest(u)' = Latest(u)
BY DEF Latest

(* An entry that is later than all others is the last, and one that is not *)
(* does not change which is.                                               *)
LEMMA LatestEntered ==
  ASSUME TypeOK, NEW u \in Users, NEW p \in Stamps, NEW e, e # NoEntry, Entered(u, p, e)
  PROVE  /\ (\A t \in Stamps : t > p => ledger[u][t] = NoEntry) => p \in Latest(u)'
         /\ (\E t \in Stamps : t > p /\ ledger[u][t] # NoEntry) => Latest(u)' = Latest(u)
         /\ \A t \in Stamps : ledger[u][t] # NoEntry => ledger'[u][t] # NoEntry
         /\ ledger'[u][p] = e
         /\ \A v \in Users \ {u} : Latest(v)' = Latest(v)
<1>1. \A t \in Stamps : ledger'[u][t] = IF t = p THEN e ELSE ledger[u][t]
  BY DEF Entered
<1>2. \A v \in Users \ {u}, t \in Stamps : ledger'[v][t] = ledger[v][t]
  BY DEF Entered
<1>3. ASSUME \A t \in Stamps : t > p => ledger[u][t] = NoEntry PROVE p \in Latest(u)'
  BY <1>1, <1>3, TimeTypes DEF Latest
<1>4. ASSUME NEW q \in Stamps, q > p, ledger[u][q] # NoEntry PROVE Latest(u)' = Latest(u)
  BY <1>1, <1>4, TimeTypes DEF Latest
<1>5. \A v \in Users \ {u} : Latest(v)' = Latest(v)
  BY <1>2 DEF Latest
<1> QED
  BY <1>1, <1>3, <1>4, <1>5

----------------------------------------------------------------------------
(* What the database recorded stays.                                       *)

(* RecordedEntriesStay, of one user.                                       *)
RecordedStays(u) ==
  \A s \in Seconds :
    s < now /\ ledger[u][2 * s + 1] # NoEntry =>
      \/ ledger'[u][2 * s + 1] = ledger[u][2 * s + 1]
      \/ \E r \in Requests :
           \/ request[r].stage = "deleting" /\ request[r].user = u
           \/ request[r].stage = "truncateLedger"

(* The listener writes at the second that is not over, and all that is     *)
(* written by hand is at a whole second.                                   *)
LEMMA RecordedStep ==
  ASSUME TypeOK, [Next]_vars, NEW u \in Users
  PROVE  RecordedStays(u)
<1>0. \A s \in Seconds : 2 * s + 1 \in Stamps /\ s \in Nat
  BY ConstantsAssumption DEF Seconds, Stamps
<1>1. CASE ledger'[u] = ledger[u]
  BY <1>1 DEF RecordedStays
<1>2. ASSUME NEW v \in Users, NEW p \in Stamps, NEW e \in Entries,
             ledger' = [ledger EXCEPT ![v][p] = e], \A s \in Seconds : s < now => 2 * s + 1 # p
      PROVE  RecordedStays(u)
  BY <1>0, <1>2, EnteredIs DEF Entered, RecordedStays
<1>3. ASSUME NEW v \in Users, NEW row \in Rows, NEW found \in Rows \cup {NoUser},
             SaveUser(v, row, found)
      PROVE  RecordedStays(u)
  <2>1. ASSUME NEW new \in Rows, SaveDoes(v, row, found, new) PROVE RecordedStays(u)
    <3>1. [info |-> new.info, enrolled |-> FALSE] \in Entries
      BY DEF Entries, Rows
    <3>2. \A s \in Seconds : s < now => 2 * s + 1 # 2 * now + 1
      BY TimeTypes
    <3> QED
      BY <1>1, <1>2, <2>1, <3>1, <3>2, TimeTypes DEF SaveDoes
  <2> QED
    BY <1>1, <1>3, <2>1, SaveIs
<1>4. ASSUME NEW r \in Requests, NEW s \in Seconds, request[r].user \in Users,
             request[r].info \in Infos,
             ledger' = [ledger EXCEPT ![request[r].user][WholeSecond(s)] =
                          [info |-> request[r].info, enrolled |-> TRUE]]
      PROVE  RecordedStays(u)
  <2>1. [info |-> request[r].info, enrolled |-> TRUE] \in Entries
    BY <1>4 DEF Entries
  <2>2. \A o \in Seconds : 2 * o + 1 # WholeSecond(s)
    BY TimeTypes
  <2> QED
    BY <1>2, <1>4, <2>1, <2>2, TimeTypes
<1>5. CASE StoreUser
  BY <1>3, <1>5, EventType DEF StoreUser, TypeOK
<1>6. ASSUME NEW r \in Requests, WriteUser(r) PROVE RecordedStays(u)
  <2>1. /\ request[r].user \in Users /\ request[r].found \in Rows \cup {NoUser}
        /\ RowByHand(r) \in Rows
    BY <1>6 DEF WriteUser, TypeOK, RequestRecords, RowByHand, Rows
  <2> QED
    BY <1>3, <1>6, <2>1 DEF WriteUser
<1>7. ASSUME NEW r \in Requests, RecordByHand(r) PROVE RecordedStays(u)
  <2>1. request[r].user \in Users /\ request[r].info \in Infos /\ request[r].at \in Seconds
    BY <1>7 DEF RecordByHand, TypeOK, RequestRecords
  <2> QED
    BY <1>4, <1>7, <2>1 DEF RecordByHand
<1>8. ASSUME NEW r \in Requests, MoveEntry(r) PROVE RecordedStays(u)
  <2>1. request[r].user \in Users /\ request[r].info \in Infos /\ request[r].to \in Seconds
    BY <1>8 DEF MoveEntry, TypeOK, RequestRecords
  <2> QED
    BY <1>4, <1>8, <2>1 DEF MoveEntry
<1>9. ASSUME NEW r \in Requests, RemoveOld(r) PROVE RecordedStays(u)
  <2> DEFINE p == WholeSecond(request[r].at)
  <2>1. request[r].at \in Seconds
    BY <1>9 DEF TypeOK, RequestRecords
  <2>2. p \in Stamps /\ \A s \in Seconds : 2 * s + 1 # p
    BY <2>1, TimeTypes
  <2> HIDE DEF p
  <2>3. ledger'[u] = ledger[u] \/ ledger'[u] = [ledger[u] EXCEPT ![p] = NoEntry]
    BY <1>9 DEF RemoveOld, p
  <2>4. ledger[u] \in [Stamps -> Entries \cup {NoEntry}]
    BY DEF TypeOK, LedgerTable
  <2>5. \A s \in Seconds : ledger'[u][2 * s + 1] = ledger[u][2 * s + 1]
    BY <1>0, <2>2, <2>3, <2>4
  <2> QED
    BY <2>5 DEF RecordedStays
<1>10. ASSUME NEW r \in Requests, DeleteEntries(r) PROVE RecordedStays(u)
  <2>1. request[r].stage = "deleting" /\ request[r].user \in Users
    BY <1>10 DEF DeleteEntries, TypeOK
  <2>2. CASE request[r].user = u
    BY <2>1, <2>2 DEF RecordedStays
  <2>3. CASE request[r].user # u
    BY <1>1, <1>10, <2>3 DEF DeleteEntries, TypeOK, LedgerTable
  <2> QED
    BY <2>2, <2>3
<1>11. ASSUME NEW r \in Requests, TruncateLedger(r) PROVE RecordedStays(u)
  BY <1>11 DEF TruncateLedger, RecordedStays
<1>12. CASE UNCHANGED ledger
  BY <1>1, <1>12
<1> QED
  BY <1>5, <1>6, <1>7, <1>8, <1>9, <1>10, <1>11, <1>12
     DEF Next, ListenerStep, RequestStep, NewRequest, Fetch, AutoCommit, Process, StoreFails, Die,
         Restart, Edit, Create, Correct, DeleteHistory, DeleteAll, FindUser, TruncateUsers,
         BreakOff, CreateNextMonthsTable, Tick, vars

(* Every variable keeps its type.                                          *)
THEOREM TypeCorrect == Spec => []TypeOK
<1>1. Init => TypeOK
  BY InitInv DEF IInv
<1> QED
  BY <1>1, TypeStep, PTL DEF Spec

(* What the database recorded of a second that is over goes only with the  *)
(* whole history of the user: edits and corrections know whole seconds.    *)
THEOREM Stays == Spec => RecordedEntriesStay
<1>1. TypeOK /\ [Next]_vars =>
        [\A u \in Users, s \in Seconds :
           s < now /\ ledger[u][2 * s + 1] # NoEntry =>
             \/ ledger'[u][2 * s + 1] = ledger[u][2 * s + 1]
             \/ \E r \in Requests :
                  \/ request[r].stage = "deleting" /\ request[r].user = u
                  \/ request[r].stage = "truncateLedger"]_vars
  BY RecordedStep DEF RecordedStays
<1> QED
  BY <1>1, TypeCorrect, PTL DEF Spec, RecordedEntriesStay

----------------------------------------------------------------------------
(* Steps that leave alone the users whom nobody corrected.                 *)

LEMMA RequestStays ==
  ASSUME NEW q \in Requests, request'[q] = request[q]
  PROVE  /\ \A u, i : WillStore(q, u, i)' = WillStore(q, u, i)
         /\ AtWork(q)' = AtWork(q)
BY DEF WillStore, RowByHand, AtWork

LEMMA AtWorkIs ==
  ASSUME TypeOK, NEW r \in Requests, AtWork(r)
  PROVE  /\ request[r].user \in Users /\ request[r].info \in Infos
         /\ request[r].kind \in {"edit", "create"} /\ request[r].at \in Seconds
         /\ request[r].found \in Rows \cup {NoUser} /\ RowByHand(r) \in Rows
BY DEF TypeOK, AtWork, RequestRecords, RowByHand, Rows

(* Time stands still, and only the users corrected by hand have changed.   *)
Untouched ==
  /\ UNCHANGED <<now, closing>> /\ corrected \subseteq corrected'
  /\ \A u \in Users \ corrected' : users'[u] = users[u] /\ ledger'[u] = ledger[u]

(* What is said of the tables stays.                                       *)
LEMMA UntouchedTables ==
  ASSUME IInv, Untouched
  PROVE  EntriesAreOfThePast' /\ UnstoredWereEntered' /\ ClosedDaysAreTrue'
<1> USE DEF IInv, Untouched
<1>1. EntriesAreOfThePast' /\ UnstoredWereEntered'
  BY DEF EntriesAreOfThePast, UnstoredWereEntered
<1>2. \A u \in Users \ corrected', d \in Days : StateAtDate(u, d)' = StateAtDate(u, d)
  BY DEF StateAtDate
<1>3. ClosedDaysAreTrue'
  BY <1>2 DEF ClosedDaysAreTrue
<1> QED
  BY <1>1, <1>3

LEMMA EditStays ==
  ASSUME IInv, Untouched, NEW q \in Requests, request'[q] = request[q]
  PROVE  EditIsOvertaken(q)'
<1> SUFFICES ASSUME request[q].kind = "edit", AtWork(q), request[q].user \notin corrected'
             PROVE  EditIsOvertaken(q)'
  BY RequestStays DEF EditIsOvertaken
<1> DEFINE u == request[q].user
<1>1. u \in Users \ corrected'
  BY AtWorkIs DEF IInv
<1>2. users'[u] = users[u] /\ ledger'[u] = ledger[u] /\ u \notin corrected
  BY <1>1 DEF Untouched
<1>3. EditIsOvertaken(q)
  BY DEF IInv, EditsAreOvertaken
<1> QED
  BY <1>2, <1>3 DEF EditIsOvertaken, EntryAfter, AtWork

(* r is the request that goes on, if one does.                             *)
LEMMA UntouchedRequests ==
  ASSUME IInv, Untouched, NEW r \in Requests,
         \A q \in Requests \ {r} : request'[q] = request[q],
         \A u \in Users \ corrected' : \A i : WillStore(r, u, i) => WillStore(r, u, i)',
         EditIsOvertaken(r)',
         AtWork(r)' => request'[r].at <= now
  PROVE  RequestsAreOfThePast' /\ LastWordIsStored' /\ EditsAreOvertaken'
<1>1. RequestsAreOfThePast'
  BY DEF IInv, Untouched, RequestsAreOfThePast, AtWork
<1>2. LastWordIsStored'
  <2> SUFFICES ASSUME NEW u \in Users \ corrected', users'[u] # NoUser
               PROVE  \E t \in Latest(u)' :
                        \/ ledger'[u][t].info = users'[u].info
                        \/ /\ ledger'[u][t].enrolled
                           /\ \E q \in Requests : WillStore(q, u, ledger[u][t].info)'
    BY DEF LastWordIsStored
  <2>1. u \in Users \ corrected /\ users'[u] = users[u] /\ ledger'[u] = ledger[u]
    BY DEF Untouched
  <2>2. Latest(u)' = Latest(u)
    BY <2>1, LatestStays
  <2>3. \A q \in Requests : \A i : WillStore(q, u, i) => WillStore(q, u, i)'
    BY RequestStays
  <2> QED
    BY <2>1, <2>2, <2>3 DEF IInv, LastWordIsStored
<1>3. EditsAreOvertaken'
  BY EditStays DEF EditsAreOvertaken
<1> QED
  BY <1>1, <1>2, <1>3

(* No request goes on.                                                     *)
LEMMA UntouchedAll ==
  ASSUME IInv, Untouched, UNCHANGED request
  PROVE  RequestsAreOfThePast' /\ LastWordIsStored' /\ EditsAreOvertaken'
<1>1. RequestsAreOfThePast'
  BY DEF IInv, Untouched, RequestsAreOfThePast, AtWork
<1>2. LastWordIsStored'
  BY RequestStays, LatestStays DEF IInv, Untouched, LastWordIsStored
<1>3. EditsAreOvertaken'
  BY EditStays DEF EditsAreOvertaken
<1> QED
  BY <1>1, <1>2, <1>3

----------------------------------------------------------------------------
(* A save.                                                                 *)

(* The user has a last entry with what is stored.                          *)
Settled(u) == \E t \in Latest(u) : ledger[u][t].info = users[u].info

(* A save changes nothing, or settles its user; what it changes, it records *)
(* now.                                                                    *)
SaveEffect(u, writes) ==
  /\ \A v \in Users \ {u} : users'[v] = users[v] /\ ledger'[v] = ledger[v]
  /\ ~writes => UNCHANGED <<users, ledger>>
  /\ writes => users'[u] # NoUser /\ Settled(u)'
  /\ users[u] # NoUser =>
       /\ users'[u] # NoUser
       /\ \/ users'[u].info = users[u].info
          \/ ledger'[u][2 * now + 1] # NoEntry
  /\ \A t \in Stamps : ledger[u][t] # NoEntry => ledger'[u][t] # NoEntry
  /\ \A t \in Stamps : t # 2 * now + 1 => ledger'[u][t] = ledger[u][t]

(* What changes is news: so a user who is stored differently gets an       *)
(* entry, and the last word.                                               *)
LEMMA SaveHasEffect ==
  ASSUME IInv, NEW u \in Users \ corrected, NEW row \in Rows, NEW found \in Rows \cup {NoUser},
         SaveUser(u, row, found)
  PROVE  SaveEffect(u, Writes(u, row, found))
<1> USE DEF IInv
<1>1. CASE ~Writes(u, row, found) /\ UNCHANGED <<users, ledger>>
  BY <1>1 DEF SaveEffect
<1>2. ASSUME NEW new \in Rows, SaveDoes(u, row, found, new)
      PROVE  SaveEffect(u, Writes(u, row, found))
  <2>1. /\ users'[u] = new /\ new # NoUser
        /\ \A v \in Users \ {u} : users'[v] = users[v]
    BY <1>2, ConstantsAssumption DEF SaveDoes, TypeOK, UserTable
  <2>2. CASE ledger' = [ledger EXCEPT ![u][2 * now + 1] = [info |-> new.info, enrolled |-> FALSE]]
    <3> DEFINE e == [info |-> new.info, enrolled |-> FALSE]
               p == 2 * now + 1
    <3>1. e \in Entries /\ p \in Stamps /\ e.info = new.info
      BY TimeTypes DEF Entries, Rows
    <3> HIDE DEF e, p
    <3>2. Entered(u, p, e) /\ e # NoEntry
      BY <2>2, <3>1, EnteredIs DEF e, p
    <3>3. \A t \in Stamps : t > p => ledger[u][t] = NoEntry
      BY TimeTypes DEF EntriesAreOfThePast, p
    <3>4. p \in Latest(u)' /\ ledger'[u][p] = e
      BY <3>1, <3>2, <3>3, LatestEntered
    <3>5. Settled(u)'
      BY <2>1, <3>1, <3>4 DEF Settled
    <3>6. \A v \in Users \ {u} : ledger'[v] = ledger[v]
      BY <2>2 DEF TypeOK, LedgerTable
    <3>7. \A t \in Stamps : ledger'[u][t] = IF t = p THEN e ELSE ledger[u][t]
      BY <3>2 DEF Entered
    <3> QED
      BY <1>2, <2>1, <3>1, <3>2, <3>5, <3>6, <3>7 DEF SaveEffect, SaveDoes, p
  <2>3. CASE ~HasNews(u, new.info) /\ ledger' = ledger
    <3>1. PICK t \in Latest(u) : ledger[u][t].info = new.info /\ ~ledger[u][t].enrolled
      BY <2>3 DEF HasNews
    <3>2. Latest(u)' = Latest(u)
      BY <2>3, LatestStays
    <3>3. Settled(u)'
      BY <2>1, <2>3, <3>1, <3>2 DEF Settled
    <3>4. users[u] # NoUser => users[u].info = new.info
      <4>1. users[u] # NoUser =>
              \E p \in Latest(u) : ledger[u][p].info = users[u].info \/ ledger[u][p].enrolled
        BY DEF LastWordIsStored
      <4> QED
        BY <3>1, <4>1, LatestIsOne
    <3> QED
      BY <1>2, <2>1, <2>3, <3>3, <3>4 DEF SaveEffect, SaveDoes
  <2> QED
    BY <1>2, <2>2, <2>3 DEF SaveDoes
<1> QED
  BY <1>1, <1>2, SaveIs

(* A save adds an entry of now, which no day that is over looks at.        *)
LEMMA SaveTables ==
  ASSUME IInv, NEW u \in Users \ corrected, NEW writes \in BOOLEAN, SaveEffect(u, writes),
         UNCHANGED <<now, closing, corrected>>
  PROVE  EntriesAreOfThePast' /\ UnstoredWereEntered' /\ ClosedDaysAreTrue'
<1> USE DEF IInv
<1>0. /\ \A t \in Stamps : t = 2 * now + 1 \/ ledger'[u][t] = ledger[u][t]
      /\ users'[u] = NoUser => ledger'[u] = ledger[u] /\ users[u] = NoUser
  BY DEF SaveEffect
<1>1. EntriesAreOfThePast'
  BY <1>0, TimeTypes DEF EntriesAreOfThePast, SaveEffect
<1>2. UnstoredWereEntered'
  BY <1>0 DEF UnstoredWereEntered, SaveEffect
<1>3. \A v \in Users \ {u}, d \in Days : StateAtDate(v, d)' = StateAtDate(v, d)
  BY DEF StateAtDate, SaveEffect
<1>4. \A d \in Days : EndOfDay(d) <= now =>
        /\ StateAtDate(u, d)' = StateAtDate(u, d)
        /\ \A t \in StateAtDate(u, d) : ledger'[u][t] = ledger[u][t]
  <2> SUFFICES ASSUME NEW d \in Days, EndOfDay(d) <= now
               PROVE  /\ StateAtDate(u, d)' = StateAtDate(u, d)
                      /\ \A t \in StateAtDate(u, d) : ledger'[u][t] = ledger[u][t]
    OBVIOUS
  <2>1. \A t \in Stamps : t <= WholeSecond(EndOfDay(d)) => ledger'[u][t] = ledger[u][t]
    BY <1>0, TimeTypes DEF WholeSecond
  <2>2. {t \in Stamps : t <= WholeSecond(EndOfDay(d)) /\ ledger[u][t] # NoEntry}'
          = {t \in Stamps : t <= WholeSecond(EndOfDay(d)) /\ ledger[u][t] # NoEntry}
    BY <2>1
  <2> QED
    BY <2>1, <2>2 DEF StateAtDate
<1>5. ClosedDaysAreTrue'
  BY <1>3, <1>4 DEF ClosedDaysAreTrue, SaveEffect
<1> QED
  BY <1>1, <1>2, <1>5

(* The edits of the other requests, and the last words.                    *)
LEMMA SaveOthers ==
  ASSUME IInv, NEW u \in Users \ corrected, NEW writes \in BOOLEAN, SaveEffect(u, writes),
         UNCHANGED <<now, corrected>>
  PROVE  /\ \A q \in Requests : request'[q] = request[q] => EditIsOvertaken(q)'
         /\ \A s \in Seconds : EntryAfter(u, s) => EntryAfter(u, s)'
         /\ writes => Settled(u)'
<1> USE DEF IInv
<1>1. \A v \in Users, s \in Seconds : EntryAfter(v, s) => EntryAfter(v, s)'
  BY DEF EntryAfter, SaveEffect
<1>2. ASSUME NEW q \in Requests, request'[q] = request[q]
      PROVE  EditIsOvertaken(q)'
  <2> SUFFICES ASSUME request[q].kind = "edit", AtWork(q), request[q].user \notin corrected
               PROVE  EditIsOvertaken(q)'
    BY <1>2, RequestStays DEF EditIsOvertaken
  <2> DEFINE v == request[q].user
  <2>1. v \in Users /\ request[q].at \in Seconds /\ request[q].at <= now
    BY AtWorkIs DEF RequestsAreOfThePast
  <2>2. EditIsOvertaken(q)
    BY DEF EditsAreOvertaken
  <2>3. CASE v # u
    BY <1>1, <1>2, <2>1, <2>2, <2>3 DEF EditIsOvertaken, AtWork, SaveEffect
  <2>4. CASE v = u
    <3>1. ledger'[u][2 * now + 1] # NoEntry => EntryAfter(u, request[q].at)'
      <4>1. 2 * now + 1 \in Stamps /\ 2 * now + 1 > WholeSecond(request[q].at)
        BY <2>1, TimeTypes
      <4> QED
        BY <1>2, <4>1 DEF EntryAfter, WholeSecond
    <3>2. users[u] # NoUser
      BY <2>2, <2>4 DEF EditIsOvertaken
    <3>3. users'[u] # NoUser
          /\ (users'[u].info = users[u].info \/ EntryAfter(u, request[q].at)')
      BY <3>1, <3>2 DEF SaveEffect
    <3> QED
      BY <1>1, <1>2, <2>1, <2>2, <2>4, <3>3 DEF EditIsOvertaken, AtWork
  <2> QED
    BY <2>3, <2>4
<1> QED
  BY <1>1, <1>2 DEF SaveEffect

(* The last words, if the saving request had none to keep or has kept it.  *)
LEMMA SaveLastWord ==
  ASSUME IInv, NEW u \in Users \ corrected, NEW writes \in BOOLEAN, SaveEffect(u, writes),
         UNCHANGED corrected,
         ~writes => \A q \in Requests : \A i : WillStore(q, u, i) => WillStore(q, u, i)',
         \A q \in Requests, v \in Users \ {u} : \A i : WillStore(q, v, i) => WillStore(q, v, i)'
  PROVE  LastWordIsStored'
<1> SUFFICES ASSUME NEW v \in Users \ corrected, users'[v] # NoUser
             PROVE  \E t \in Latest(v)' :
                      \/ ledger'[v][t].info = users'[v].info
                      \/ /\ ledger'[v][t].enrolled
                         /\ \E q \in Requests : WillStore(q, v, ledger[v][t].info)'
  BY DEF LastWordIsStored
<1>1. CASE v = u /\ writes
  BY <1>1 DEF SaveEffect, Settled
<1>2. CASE v # u \/ ~writes
  <2>1. users'[v] = users[v] /\ ledger'[v] = ledger[v]
    BY <1>2 DEF SaveEffect
  <2>2. Latest(v)' = Latest(v)
    BY <2>1, LatestStays
  <2>3. \A q \in Requests : \A i : WillStore(q, v, i) => WillStore(q, v, i)'
    BY <1>2
  <2> QED
    BY <2>1, <2>2, <2>3 DEF IInv, LastWordIsStored
<1> QED
  BY <1>1, <1>2

(* The part of the invariant that is about users.                          *)
UserInv ==
  /\ EntriesAreOfThePast /\ RequestsAreOfThePast /\ UnstoredWereEntered
  /\ LastWordIsStored /\ EditsAreOvertaken /\ ClosedDaysAreTrue

(* A save of a user whom somebody corrected.                               *)
LEMMA SaveOfCorrected ==
  ASSUME IInv, NEW u \in Users, u \in corrected, NEW row \in Rows,
         NEW found \in Rows \cup {NoUser}, SaveUser(u, row, found),
         UNCHANGED <<now, closing, corrected>>
  PROVE  Untouched
<1>1. TypeOK /\ users \in [Users -> Rows \cup {NoUser}]
      /\ ledger \in [Users -> [Stamps -> Entries \cup {NoEntry}]]
  BY DEF IInv, TypeOK, UserTable, LedgerTable
<1>2. \/ UNCHANGED <<users, ledger>>
      \/ \E new \in Rows : SaveDoes(u, row, found, new)
  BY <1>1, SaveIs
<1>3. \A v \in Users \ {u} : users'[v] = users[v] /\ ledger'[v] = ledger[v]
  BY <1>1, <1>2 DEF SaveDoes
<1> QED
  BY <1>3 DEF Untouched

(* The save of the listener.                                               *)
LEMMA StoreUserStep ==
  ASSUME IInv, StoreUser
  PROVE  UserInv'
<1> USE DEF time, web
<1>0. UNCHANGED <<now, closing, corrected, request>>
  BY DEF StoreUser
<1>1. /\ Event.user \in Users /\ EventRow \in Rows /\ lfound \in Rows \cup {NoUser}
      /\ SaveUser(Event.user, EventRow, lfound)
  BY EventType DEF IInv, TypeOK, StoreUser
<1>2. CASE Event.user \in corrected
  BY <1>0, <1>1, <1>2, SaveOfCorrected, UntouchedTables, UntouchedAll DEF UserInv
<1>3. CASE Event.user \notin corrected
  <2> DEFINE u == Event.user
             writes == Writes(u, EventRow, lfound)
  <2>1. SaveEffect(u, writes) /\ writes \in BOOLEAN
    BY <1>1, <1>3, SaveHasEffect DEF Writes
  <2> HIDE DEF u, writes
  <2>2. EntriesAreOfThePast' /\ UnstoredWereEntered' /\ ClosedDaysAreTrue'
    BY <1>0, <1>1, <1>3, <2>1, SaveTables DEF u
  <2>3. EditsAreOvertaken'
    BY <1>0, <1>1, <1>3, <2>1, SaveOthers DEF EditsAreOvertaken, u
  <2>4. LastWordIsStored'
    BY <1>0, <1>1, <1>3, <2>1, SaveLastWord, RequestStays DEF u
  <2>5. RequestsAreOfThePast'
    BY <1>0 DEF IInv, RequestsAreOfThePast, AtWork
  <2> QED
    BY <2>2, <2>3, <2>4, <2>5 DEF UserInv
<1> QED
  BY <1>2, <1>3

(* An edit that has saved its user, and a creation that is done.           *)
LEMMA WriteUserStep ==
  ASSUME IInv, NEW r \in Requests, WriteUser(r)
  PROVE  UserInv'
<1> USE DEF time, kafka
<1>0. UNCHANGED <<now, closing, corrected>> /\ TypeOK
  BY DEF WriteUser, IInv
<1> DEFINE u == request[r].user
           row == RowByHand(r)
           found == request[r].found
           writes == Writes(u, row, found)
<1>1. /\ AtWork(r) /\ request[r].stage = "save" /\ u \in Users
      /\ request[r].info \in Infos /\ row \in Rows /\ found \in Rows \cup {NoUser}
      /\ request[r].kind \in {"edit", "create"} /\ request[r].at \in Seconds
      /\ request[r].at <= now
  BY <1>0, AtWorkIs DEF IInv, WriteUser, AtWork, RequestsAreOfThePast
<1>2. SaveUser(u, row, found)
  BY DEF WriteUser
<1>3. /\ \A q \in Requests \ {r} : request'[q] = request[q]
      /\ \/ /\ request[r].kind = "edit" /\ request'[r].stage = "record"
            /\ request'[r].kind = "edit" /\ request'[r].user = u
            /\ request'[r].info = request[r].info /\ request'[r].at = request[r].at
         \/ request[r].kind = "create" /\ request'[r] = Idle
  BY <1>0, <1>1, GoToIs, Finishes DEF WriteUser
<1>4. RequestsAreOfThePast'
  BY <1>0, <1>1, <1>3 DEF IInv, RequestsAreOfThePast, AtWork, Idle
<1>5. CASE u \in corrected
  <2>1. Untouched
    BY <1>0, <1>1, <1>2, <1>5, SaveOfCorrected
  <2>2. \A v \in Users \ corrected' : \A i : ~WillStore(r, v, i)
    BY <1>0, <1>5 DEF WillStore
  <2>3. EditIsOvertaken(r)'
    BY <1>0, <1>3, <1>5 DEF EditIsOvertaken, Idle
  <2>4. AtWork(r)' => request'[r].at <= now
    BY <1>0, <1>4 DEF RequestsAreOfThePast
  <2> QED
    BY <1>3, <2>1, <2>2, <2>3, <2>4, UntouchedTables, UntouchedRequests DEF UserInv
<1>6. CASE u \notin corrected
  <2>1. SaveEffect(u, writes) /\ writes \in BOOLEAN
    BY <1>1, <1>2, <1>6, SaveHasEffect DEF Writes
  <2>2. EntriesAreOfThePast' /\ UnstoredWereEntered' /\ ClosedDaysAreTrue'
    BY <1>0, <1>1, <1>6, <2>1, SaveTables
  <2>3. ~writes /\ users[u] # NoUser => found = row
    BY <1>1, <1>2 DEF Writes, SaveUser, SaveThrows
  <2>4. EditIsOvertaken(r)'
    <3> SUFFICES ASSUME request[r].kind = "edit"
                 PROVE  /\ users'[u] # NoUser
                        /\ users'[u].info = request[r].info \/ EntryAfter(u, request[r].at)'
      BY <1>3 DEF EditIsOvertaken, Idle
    <3>1. /\ users[u] # NoUser /\ found # NoUser
          /\ users[u].info = found.info \/ EntryAfter(u, request[r].at)
      BY <1>1, <1>6 DEF IInv, EditsAreOvertaken, EditIsOvertaken
    <3>2. EntryAfter(u, request[r].at) => EntryAfter(u, request[r].at)'
      <4>1. \A t \in Stamps : ledger[u][t] # NoEntry => ledger'[u][t] # NoEntry
        BY <2>1 DEF SaveEffect
      <4>2. request'[r].user = u /\ request'[r].at = request[r].at
        BY <1>3
      <4> QED
        BY <4>1, <4>2 DEF EntryAfter, WholeSecond
    <3>3. row.info = request[r].info
      BY DEF RowByHand
    <3>4. CASE ~writes
      BY <2>1, <2>3, <3>1, <3>2, <3>3, <3>4 DEF SaveEffect
    <3>5. CASE writes
      <4>1. users'[u].info = IF row.info = found.info THEN users[u].info ELSE row.info
        <5>1. PICK new \in Rows : SaveDoes(u, row, found, new)
          BY <1>0, <1>1, <1>2, <3>5, SaveIs
        <5>2. users'[u] = Saved(u, row, found)
          BY <1>0, <1>1, <5>1 DEF SaveDoes, TypeOK, UserTable
        <5> QED
          BY <3>1, <5>2 DEF Saved
      <4> QED
        BY <2>1, <3>1, <3>2, <3>3, <3>5, <4>1 DEF SaveEffect
    <3> QED
      BY <3>4, <3>5
  <2>5. EditsAreOvertaken'
    BY <1>0, <1>1, <1>3, <1>6, <2>1, <2>4, SaveOthers DEF EditsAreOvertaken
  <2>6. LastWordIsStored'
    <3>1. \A v \in Users \ {u} : \A i : ~WillStore(r, v, i)
      BY DEF WillStore
    <3>2. CASE writes \/ users[u] # NoUser
      <4>1. ~writes => \A i : ~WillStore(r, u, i)
        BY <1>1, <2>3, <3>2 DEF WillStore
      <4> QED
        BY <1>0, <1>1, <1>3, <1>6, <2>1, <3>1, <4>1, SaveLastWord, RequestStays
    <3>3. CASE ~writes /\ users[u] = NoUser
      <4>1. UNCHANGED <<users, ledger>>
        BY <2>1, <3>3 DEF SaveEffect
      <4>2. \A v \in Users \ {u}, q \in Requests : \A i : WillStore(q, v, i) => WillStore(q, v, i)'
        BY <1>3, <3>1, RequestStays
      <4> QED
        BY <1>0, <3>3, <4>1, <4>2, LatestStays DEF IInv, LastWordIsStored
    <3> QED
      BY <2>1, <3>2, <3>3
  <2> QED
    BY <1>4, <2>2, <2>5, <2>6 DEF UserInv
<1> QED
  BY <1>5, <1>6

----------------------------------------------------------------------------
(* An entry by hand.                                                       *)

(* It is the last word of a creation that stores the user next, or of an   *)
(* edit that has stored it and was not overtaken.                          *)
LEMMA RecordByHandStep ==
  ASSUME IInv, NEW r \in Requests, RecordByHand(r),
         NEW u, NEW s, NEW i, u = request[r].user, s = request[r].at, i = request[r].info
  PROVE  UserInv'
<1> USE DEF time, kafka
<1>0. UNCHANGED <<now, users, closing, corrected>> /\ TypeOK
  BY DEF RecordByHand, IInv
<1> DEFINE p == WholeSecond(s)
           e == [info |-> i, enrolled |-> TRUE]
<1>1. /\ AtWork(r) /\ request[r].stage = "record" /\ u \in Users /\ i \in Infos
      /\ request[r].kind \in {"edit", "create"} /\ s \in Seconds /\ s <= now
  BY <1>0, AtWorkIs DEF IInv, RecordByHand, AtWork, RequestsAreOfThePast
<1>2. p \in Stamps /\ p <= 2 * now + 1 /\ e \in Entries /\ e.enrolled /\ e.info = i
  BY <1>0, <1>1, TimeTypes DEF Entries
<1>3. ledger' = [ledger EXCEPT ![u][p] = e]
  BY DEF RecordByHand
<1>4. Entered(u, p, e) /\ e # NoEntry
  BY <1>0, <1>1, <1>2, <1>3, EnteredIs
<1>5. /\ \A q \in Requests \ {r} : request'[q] = request[q]
      /\ \/ /\ request[r].kind = "create" /\ request'[r].stage = "find"
            /\ request'[r].kind = "create" /\ request'[r].user = u
            /\ request'[r].info = i /\ request'[r].at = s
         \/ request[r].kind = "edit" /\ request'[r] = Idle
  BY <1>0, <1>1, GoToIs, Finishes DEF RecordByHand
<1>6. EditIsOvertaken(r)' /\ \A v, j : ~WillStore(r, v, j)
  BY <1>1, <1>5 DEF EditIsOvertaken, Idle, WillStore
<1>7. RequestsAreOfThePast'
  BY <1>0, <1>1, <1>5 DEF IInv, RequestsAreOfThePast, AtWork, Idle
<1> HIDE DEF p, e
<1>8. CASE u \in corrected
  <2>1. Untouched
    BY <1>0, <1>3, <1>8 DEF Untouched, TypeOK, LedgerTable
  <2>2. AtWork(r)' => request'[r].at <= now
    BY <1>0, <1>7 DEF RequestsAreOfThePast
  <2> QED
    BY <1>5, <1>6, <2>1, <2>2, UntouchedTables, UntouchedRequests DEF UserInv
<1>9. CASE u \notin corrected
  <2> USE DEF IInv
  <2>0. \A v \in Users, t \in Stamps : ledger'[v][t] = IF v = u /\ t = p THEN e ELSE ledger[v][t]
    BY <1>4 DEF Entered
  <2>1. EntriesAreOfThePast' /\ UnstoredWereEntered'
    BY <1>0, <1>2, <2>0 DEF EntriesAreOfThePast, UnstoredWereEntered
  <2>2. ClosedDaysAreTrue'
    <3> SUFFICES ASSUME NEW d \in Days, NEW v \in Users \ corrected, EndOfDay(d) <= now,
                        closing[d][v] # NoUser
                 PROVE  \E t \in StateAtDate(v, d)' :
                          ledger'[v][t].info = closing[d][v].info \/ ledger'[v][t].enrolled
      BY <1>0 DEF ClosedDaysAreTrue
    <3>1. PICK t \in StateAtDate(v, d) :
                 ledger[v][t].info = closing[d][v].info \/ ledger[v][t].enrolled
      BY DEF ClosedDaysAreTrue
    <3>2. /\ t \in Stamps /\ t <= WholeSecond(EndOfDay(d)) /\ ledger[v][t] # NoEntry
          /\ \A later \in Stamps :
               later <= WholeSecond(EndOfDay(d)) /\ ledger[v][later] # NoEntry => later <= t
      BY <3>1 DEF StateAtDate
    <3>3. CASE v = u /\ t <= p /\ p <= WholeSecond(EndOfDay(d))
      <4>1. p \in StateAtDate(v, d)'
        BY <1>0, <1>2, <1>4, <2>0, <3>2, <3>3, TimeTypes DEF StateAtDate
      <4> QED
        BY <1>2, <2>0, <3>3, <4>1
    <3>4. CASE ~(v = u /\ t <= p /\ p <= WholeSecond(EndOfDay(d)))
      <4>1. ledger'[v][t] = ledger[v][t]
        BY <1>0, <2>0, <3>2, <3>4, TimeTypes
      <4>2. t \in StateAtDate(v, d)'
        BY <1>0, <1>2, <2>0, <3>2, <3>4, <4>1, TimeTypes DEF StateAtDate
      <4> QED
        BY <3>1, <4>1, <4>2
    <3> QED
      BY <3>3, <3>4
  <2>3. EditsAreOvertaken'
    <3> SUFFICES ASSUME NEW q \in Requests \ {r} PROVE EditIsOvertaken(q)'
      BY <1>6 DEF EditsAreOvertaken
    <3>1. request'[q] = request[q] /\ EditIsOvertaken(q)
      BY <1>5 DEF EditsAreOvertaken
    <3>2. AtWork(q) => request[q].user \in Users
      BY <1>0, AtWorkIs
    <3>3. \A v \in Users, t \in Stamps : ledger[v][t] # NoEntry => ledger'[v][t] # NoEntry
      BY <1>4, <2>0
    <3> QED
      BY <1>0, <3>1, <3>2, <3>3 DEF EditIsOvertaken, EntryAfter, AtWork
  <2>4. LastWordIsStored'
    <3> SUFFICES ASSUME NEW v \in Users \ corrected, users[v] # NoUser
                 PROVE  \E t \in Latest(v)' :
                          \/ ledger'[v][t].info = users[v].info
                          \/ /\ ledger'[v][t].enrolled
                             /\ \E q \in Requests : WillStore(q, v, ledger[v][t].info)'
      BY <1>0 DEF LastWordIsStored
    <3>1. PICK t \in Latest(v) :
                 \/ ledger[v][t].info = users[v].info
                 \/ /\ ledger[v][t].enrolled
                    /\ \E q \in Requests : WillStore(q, v, ledger[v][t].info)
      BY DEF LastWordIsStored
    <3>2. \A q \in Requests : \A j : WillStore(q, v, j) => WillStore(q, v, j)'
      BY <1>5, <1>6, RequestStays
    <3>3. CASE t \in Latest(v)' /\ ledger'[v][t] = ledger[v][t]
      BY <3>1, <3>2, <3>3
    <3>4. CASE v = u /\ \A later \in Stamps : later > p => ledger[u][later] = NoEntry
      <4>1. p \in Latest(u)' /\ ledger'[u][p] = e
        BY <1>0, <1>1, <1>2, <1>4, <3>4, LatestEntered
      <4>2. CASE request[r].kind = "create"
        <5>1. WillStore(r, u, e.info)'
          BY <1>2, <1>5, <4>2 DEF WillStore, e
        <5> QED
          BY <1>2, <3>4, <4>1, <5>1
      <4>3. CASE request[r].kind = "edit"
        <5>1. users[u].info = i \/ EntryAfter(u, s)
          BY <1>1, <1>9, <4>3 DEF EditsAreOvertaken, EditIsOvertaken
        <5>2. users[u].info = e.info
          BY <1>2, <3>4, <5>1 DEF EntryAfter, p
        <5> QED
          BY <3>4, <4>1, <5>2
      <4> QED
        BY <1>1, <4>2, <4>3
    <3>5. CASE v # u
      BY <1>0, <1>1, <1>2, <1>4, <2>0, <3>1, <3>3, <3>5, LatestEntered DEF Latest
    <3>6. CASE v = u /\ \E later \in Stamps : later > p /\ ledger[u][later] # NoEntry
      <4>1. Latest(u)' = Latest(u)
        BY <1>0, <1>1, <1>2, <1>4, <3>6, LatestEntered
      <4>2. t \in Stamps /\ t # p
        BY <1>0, <1>2, <3>1, <3>6, TimeTypes DEF Latest
      <4> QED
        BY <2>0, <3>3, <3>6, <4>1, <4>2
    <3> QED
      BY <3>4, <3>5, <3>6
  <2> QED
    BY <1>7, <2>1, <2>2, <2>3, <2>4 DEF UserInv
<1> QED
  BY <1>8, <1>9

----------------------------------------------------------------------------
(* The other steps.                                                        *)

(* As the last second of a day begins, the last word on a user, which is   *)
(* what is stored or was entered by hand, is the state of that day.        *)
LEMMA TickStep ==
  ASSUME IInv, Tick
  PROVE  UserInv'
<1> USE DEF IInv, time, kafka, web
<1>0. /\ TypeOK /\ now' = now + 1 /\ now \in Nat
      /\ UNCHANGED <<users, ledger, corrected, request>>
      /\ closing' = [d \in Days |-> IF EndOfDay(d) = now + 1 THEN users ELSE closing[d]]
  BY TimeTypes DEF Tick
<1>1. EntriesAreOfThePast'
  BY <1>0, TimeTypes DEF EntriesAreOfThePast
<1>2. RequestsAreOfThePast'
  BY <1>0, AtWorkIs, TimeTypes DEF RequestsAreOfThePast, AtWork
<1>3. UnstoredWereEntered'
  BY <1>0 DEF UnstoredWereEntered
<1>4. LastWordIsStored'
  BY <1>0, RequestStays, LatestStays DEF LastWordIsStored
<1>5. EditsAreOvertaken'
  BY <1>0 DEF EditsAreOvertaken, EditIsOvertaken, EntryAfter, AtWork
<1>6. ClosedDaysAreTrue'
  <2> SUFFICES ASSUME NEW d \in Days, NEW u \in Users \ corrected, EndOfDay(d) <= now + 1,
                      closing'[d][u] # NoUser
               PROVE  \E t \in StateAtDate(u, d) :
                        ledger[u][t].info = closing'[d][u].info \/ ledger[u][t].enrolled
    BY <1>0 DEF ClosedDaysAreTrue, StateAtDate
  <2>1. CASE EndOfDay(d) = now + 1
    <3>1. closing'[d] = users
      BY <1>0, <2>1
    <3>2. PICK t \in Latest(u) : ledger[u][t].info = users[u].info \/ ledger[u][t].enrolled
      BY <3>1 DEF LastWordIsStored
    <3>3. t <= WholeSecond(EndOfDay(d))
      BY <1>0, <2>1, TimeTypes DEF Latest, EntriesAreOfThePast, WholeSecond
    <3>4. t \in StateAtDate(u, d)
      BY <1>0, <3>3, TimeTypes DEF Latest, StateAtDate
    <3> QED
      BY <3>1, <3>2, <3>4
  <2>2. CASE EndOfDay(d) # now + 1
    <3>1. EndOfDay(d) <= now /\ closing'[d] = closing[d]
      BY <1>0, <2>2, TimeTypes
    <3> QED
      BY <3>1 DEF ClosedDaysAreTrue
  <2> QED
    BY <2>1, <2>2
<1> QED
  BY <1>1, <1>2, <1>3, <1>4, <1>5, <1>6 DEF UserInv

(* A creation finds its user: if it is not stored as it is to be, the      *)
(* statement that comes next will write.                                   *)
LEMMA FindUserStep ==
  ASSUME IInv, NEW r \in Requests, FindUser(r)
  PROVE  UserInv'
<1> USE DEF time, kafka
<1>0. TypeOK /\ UNCHANGED <<now, users, ledger, closing, corrected>> /\ Untouched
  BY DEF FindUser, IInv, Untouched
<1>1. AtWork(r) /\ request[r].stage = "find" /\ request[r].user \in Users
  BY <1>0, AtWorkIs DEF FindUser, AtWork
<1>2. /\ \A q \in Requests \ {r} : request'[q] = request[q]
      /\ request'[r].stage = "save" /\ request'[r].found = users[request[r].user]
      /\ request'[r].kind = request[r].kind /\ request'[r].user = request[r].user
      /\ request'[r].info = request[r].info /\ request'[r].at = request[r].at
  BY <1>0 DEF FindUser, TypeOK, RequestRecords
<1>3. RequestsAreOfThePast'
  BY <1>0, <1>1, <1>2 DEF IInv, RequestsAreOfThePast, AtWork
<1>4. EditIsOvertaken(r)'
  BY <1>0, <1>1, <1>2 DEF IInv, EditsAreOvertaken, EditIsOvertaken
<1>5. EditsAreOvertaken'
  BY <1>0, <1>2, <1>4, EditStays DEF EditsAreOvertaken
<1>6. ASSUME NEW u \in Users, NEW i, WillStore(r, u, i), users[u].info # i
      PROVE  WillStore(r, u, i)'
  <2>1. request'[r].found.info # RowByHand(r)'.info
    BY <1>1, <1>2, <1>6 DEF WillStore, RowByHand
  <2> QED
    BY <1>2, <1>6, <2>1 DEF WillStore
<1>7. LastWordIsStored'
  <2> SUFFICES ASSUME NEW u \in Users \ corrected, users[u] # NoUser
               PROVE  \E t \in Latest(u)' :
                        \/ ledger'[u][t].info = users[u].info
                        \/ /\ ledger'[u][t].enrolled
                           /\ \E q \in Requests : WillStore(q, u, ledger[u][t].info)'
    BY <1>0 DEF LastWordIsStored
  <2>1. PICK t \in Latest(u) :
               \/ ledger[u][t].info = users[u].info
               \/ /\ ledger[u][t].enrolled
                  /\ \E q \in Requests : WillStore(q, u, ledger[u][t].info)
    BY DEF IInv, LastWordIsStored
  <2>2. Latest(u)' = Latest(u) /\ ledger' = ledger
    BY <1>0, LatestStays
  <2>3. ASSUME NEW q \in Requests, WillStore(q, u, ledger[u][t].info),
               ledger[u][t].info # users[u].info
        PROVE  WillStore(q, u, ledger[u][t].info)'
    BY <1>2, <1>6, <2>2, <2>3, RequestStays
  <2> QED
    BY <2>1, <2>2, <2>3
<1> QED
  BY <1>0, <1>3, <1>5, <1>7, UntouchedTables DEF UserInv

(* What is at work neither before nor after.                               *)
LEMMA OtherRequests ==
  ASSUME IInv, Untouched, NEW r \in Requests,
         \A q \in Requests \ {r} : request'[q] = request[q],
         ~AtWork(r), ~AtWork(r)'
  PROVE  UserInv'
<1>1. \A u, i : ~WillStore(r, u, i)
  BY DEF WillStore, AtWork
<1>2. EditIsOvertaken(r)'
  BY DEF EditIsOvertaken
<1> QED
  BY <1>1, <1>2, UntouchedTables, UntouchedRequests DEF UserInv

(* What is corrected or deleted by hand.                                   *)
LEMMA CorrectionSteps ==
  ASSUME IInv, NEW r \in Requests,
         MoveEntry(r) \/ RemoveOld(r) \/ DeleteEntries(r) \/ TruncateUsers(r) \/ TruncateLedger(r)
  PROVE  UserInv'
<1> USE DEF time, kafka
<1>0. TypeOK /\ UNCHANGED <<now, closing>>
  BY DEF MoveEntry, RemoveOld, DeleteEntries, TruncateUsers, TruncateLedger, IInv
<1>1. ~AtWork(r)
  BY DEF MoveEntry, RemoveOld, DeleteEntries, TruncateUsers, TruncateLedger, AtWork
<1>2. CASE MoveEntry(r)
  <2>1. Untouched
    BY <1>0, <1>2 DEF MoveEntry, Untouched, TypeOK, LedgerTable
  <2> QED
    BY <1>0, <1>1, <1>2, <2>1, GoToIs, OtherRequests DEF MoveEntry, AtWork
<1>3. CASE RemoveOld(r)
  <2>1. Untouched
    <3> DEFINE t == WholeSecond(request[r].at)
               hit == {v \in Users : ledger[request[r].user][t] # NoEntry /\ ledger[v][t] # NoEntry}
    <3> HIDE DEF hit
    <3>1. /\ UNCHANGED users /\ corrected' = corrected \cup hit
          /\ ledger' = [v \in Users |->
                          IF v \in hit THEN [ledger[v] EXCEPT ![t] = NoEntry] ELSE ledger[v]]
      BY <1>3 DEF RemoveOld, hit
    <3> QED
      BY <1>0, <3>1 DEF Untouched
  <2> QED
    BY <1>0, <1>1, <1>3, <2>1, Finishes, OtherRequests DEF RemoveOld, AtWork, Idle
<1>4. CASE DeleteEntries(r)
  <2>1. Untouched
    BY <1>0, <1>4 DEF DeleteEntries, Untouched, TypeOK, LedgerTable
  <2>2. \A q \in Requests \ {r} : request'[q] = request[q]
    BY <1>0, <1>4, Finishes DEF DeleteEntries
  <2>3. ~AtWork(r)'
    BY <1>0, <1>1, <1>4, Finishes DEF DeleteEntries, AtWork, Idle
  <2> QED
    BY <1>1, <2>1, <2>2, <2>3, OtherRequests
<1>5. CASE TruncateUsers(r)
  <2>1. Untouched
    BY <1>0, <1>5 DEF TruncateUsers, Untouched, TypeOK
  <2> QED
    BY <1>0, <1>1, <1>5, <2>1, GoToIs, OtherRequests DEF TruncateUsers, AtWork
<1>6. CASE TruncateLedger(r)
  <2>1. Untouched
    BY <1>0, <1>6 DEF TruncateLedger, Untouched, TypeOK
  <2> QED
    BY <1>0, <1>1, <1>6, <2>1, Finishes, OtherRequests DEF TruncateLedger, AtWork, Idle
<1> QED
  BY <1>2, <1>3, <1>4, <1>5, <1>6

(* A creation that breaks off once it has made its entry is a correction   *)
(* by hand: its entry stays, and no user may follow.                       *)
LEMMA BreakOffStep ==
  ASSUME IInv, NEW r \in Requests, BreakOff(r)
  PROVE  UserInv'
<1> USE DEF time, kafka
<1>1. /\ TypeOK /\ Untouched /\ request'[r] = Idle
      /\ \A q \in Requests \ {r} : request'[q] = request[q]
  BY Finishes DEF BreakOff, IInv, Untouched
<1>2. \A u \in Users \ corrected' : \A i : ~WillStore(r, u, i)
  BY DEF BreakOff, WillStore
<1>3. EditIsOvertaken(r)' /\ ~AtWork(r)'
  BY <1>1 DEF EditIsOvertaken, AtWork, Idle
<1> QED
  BY <1>1, <1>2, <1>3, UntouchedTables, UntouchedRequests DEF UserInv

LEMMA NewRequestStep ==
  ASSUME IInv, NEW r \in Requests, NewRequest(r)
  PROVE  UserInv'
<1> USE DEF time, kafka
<1>1. ASSUME NEW new, BeginsWith(r, new),
             new.stage \notin {"find", "save", "record"}
      PROVE  UserInv'
  <2>1. Untouched /\ ~AtWork(r) /\ ~AtWork(r)'
    BY <1>1 DEF BeginsWith, Untouched, AtWork
  <2> QED
    BY <1>1, <2>1, OtherRequests DEF BeginsWith
<1>2. ASSUME NEW new, BeginsWith(r, new), new.at = now,
             new.kind = "edit" => new.stage = "find" /\ users[new.user] # NoUser
      PROVE  UserInv'
  <2>1. Untouched /\ now \in Int /\ UNCHANGED users
    BY <1>2, TimeTypes DEF BeginsWith, Untouched, IInv
  <2>2. \A u, i : ~WillStore(r, u, i)
    BY <1>2 DEF BeginsWith, WillStore
  <2>3. EditIsOvertaken(r)'
    BY <1>2, <2>1 DEF BeginsWith, EditIsOvertaken
  <2> QED
    BY <1>2, <2>1, <2>2, <2>3, UntouchedTables, UntouchedRequests DEF UserInv, BeginsWith
<1>3. ASSUME NEW u \in Users, NEW i \in Infos, users[u] # NoUser, BeginsWith(r, EditOf(u, i))
      PROVE  UserInv'
  BY <1>2, <1>3 DEF EditOf
<1>4. ASSUME NEW u \in Users, NEW i \in Infos, BeginsWith(r, CreateOf(u, i))
      PROVE  UserInv'
  BY <1>2, <1>4 DEF CreateOf
<1>5. ASSUME NEW u \in Users, NEW s \in Seconds, NEW to \in NewTimes,
             BeginsWith(r, CorrectOf(u, s, to))
      PROVE  UserInv'
  BY <1>1, <1>5 DEF CorrectOf
<1>6. ASSUME NEW u \in Users, BeginsWith(r, DeletionOf(u)) PROVE UserInv'
  BY <1>1, <1>6 DEF DeletionOf, Idle
<1>7. ASSUME BeginsWith(r, DeletionOfAll) PROVE UserInv'
  BY <1>1, <1>7 DEF DeletionOfAll, Idle
<1> QED
  BY <1>3, <1>4, <1>5, <1>6, <1>7, NewRequestIs DEF IInv

LEMMA StepInv == IInv /\ [Next]_vars => IInv'
<1> SUFFICES ASSUME IInv, [Next]_vars PROVE IInv'
  OBVIOUS
<1>1. TypeOK' /\ MonthsSoFar' /\ PartitionsComeInTime'
  BY TypeStep, MonthsStep DEF IInv
<1>2. UserInv'
  <2>1. CASE Tick
    BY <2>1, TickStep
  <2>2. CASE StoreUser
    BY <2>2, StoreUserStep
  <2>3. ASSUME UNCHANGED <<now, closing, users, ledger, corrected, request>>
        PROVE  UserInv'
    BY <2>3, UntouchedTables, UntouchedAll DEF Untouched, UserInv
  <2>4. CASE \/ CreateNextMonthsTable \/ Fetch \/ AutoCommit \/ Process \/ StoreFails \/ Restart
             \/ Die \/ UNCHANGED vars
    BY <2>3, <2>4
       DEF CreateNextMonthsTable, Fetch, AutoCommit, Process, StoreFails, Restart, Die, vars,
           time, web
  <2>5. ASSUME NEW r \in Requests, RequestStep(r) PROVE UserInv'
    BY <2>5, FindUserStep, WriteUserStep, RecordByHandStep, CorrectionSteps DEF RequestStep
  <2>6. ASSUME NEW r \in Requests, NewRequest(r) \/ BreakOff(r) PROVE UserInv'
    BY <2>6, NewRequestStep, BreakOffStep
  <2> QED
    BY <2>1, <2>2, <2>4, <2>5, <2>6 DEF Next, ListenerStep
<1> QED
  BY <1>1, <1>2 DEF IInv, UserInv

----------------------------------------------------------------------------
(* The theorems.                                                           *)

(* What was found, entered and stored agrees, at every point between the   *)
(* statements of the listener and of the requests.                         *)
THEOREM Inductive == Spec => []IInv
BY InitInv, StepInv, PTL DEF Spec

(* A month has a partition when it begins if the job was run in the month  *)
(* before: createNextMonthsTable.                                          *)
THEOREM InTime == Spec => []PartitionsComeInTime
<1>1. IInv => PartitionsComeInTime
  BY DEF IInv
<1> QED
  BY <1>1, Inductive, PTL

(* The ledger's last word on a user is what the table of users has, for    *)
(* every interleaving of the listener's saves with edits and creations.    *)
THEOREM Follows == Spec => []LedgerFollowsUsers
<1>1. \A r \in Requests : \A u, i : WillStore(r, u, i) =>
        /\ request[r].kind = "create" /\ request[r].user = u
        /\ request[r].stage \in {"find", "save"}
  BY DEF WillStore
<1>2. IInv => LedgerFollowsUsers
  BY <1>1, Zenon DEF IInv, LastWordIsStored, LedgerFollowsUsers
<1> QED
  BY <1>2, Inductive, PTL

(* getStateAtDate answers for a day that is over with what was stored as   *)
(* its last second began, or what was entered by hand.                     *)
THEOREM DaysAreTrue == Spec => []ClosedDaysAreTrue
<1>1. IInv => ClosedDaysAreTrue
  BY DEF IInv
<1> QED
  BY <1>1, Inductive, PTL

----------------------------------------------------------------------------
(* The imports of transactions.                                            *)

USE DEF TransferStatuses, Opened, Ended

LEMMA ImportInit == TIInit => TIInv
BY TIConstantsAssumption
   DEF TIInit, TIInv, TITypeOK, StoredWasParsed, ParsedWasAsked, AboutToSucceed, RecordedAreOver,
       At, FailingStoredNothing, CompleteIsWhole, FailedCanBeRepeated, UploadsHaveNoConnection,
       ConnectionsAreClosed

LEMMA ImportTypeStep == TITypeOK /\ [TINext]_TIvars => TITypeOK'
<1> SUFFICES ASSUME TITypeOK, [TINext]_TIvars PROVE TITypeOK'
  OBVIOUS
<1> USE TIConstantsAssumption DEF TITypeOK, records, connections, Clients, Proceed, Contents
<1>1. CASE Publish
  BY <1>1 DEF Publish
<1>2. CASE Crash
  BY <1>2 DEF Crash, AllEnd, Failure
<1>3. ASSUME NEW i \in Imports, DeleteDetails(i) PROVE TITypeOK'
  BY <1>3 DEF DeleteDetails
<1>4. ASSUME NEW i \in Imports, Start(i) PROVE TITypeOK'
  BY <1>4 DEF Start
<1>5. ASSUME NEW i \in Imports, Find(i) PROVE TITypeOK'
  BY <1>5 DEF Find, Leave, Write, UsingZip
<1>6. ASSUME NEW i \in Imports, Downloaded(i) PROVE TITypeOK'
  BY <1>6 DEF Downloaded, Write, Unzipping
<1>7. ASSUME NEW i \in Imports, ParseCSV(i) PROVE TITypeOK'
  BY <1>7 DEF ParseCSV, EntriesOf, Leave
<1>8. ASSUME NEW i \in Imports, UnzipError(i) PROVE TITypeOK'
  BY <1>8 DEF UnzipError, AllEnd
<1>9. ASSUME NEW i \in Imports, ImportEntries(i) PROVE TITypeOK'
  BY <1>9 DEF ImportEntries
<1>10. ASSUME NEW i \in Imports, Disconnect(i) PROVE TITypeOK'
  BY <1>10 DEF Disconnect
<1>11. ASSUME NEW i \in Imports, Succeed(i) \/ Failed(i) PROVE TITypeOK'
  BY <1>11 DEF Succeed, Failed, FinishAs
<1>12. ASSUME NEW i \in Imports, Throw(i) PROVE TITypeOK'
  BY <1>12 DEF Throw, Failure, Leave, LeaveAtOnce
<1>13. ASSUME NEW i \in Imports, Connect(i) PROVE TITypeOK'
  BY <1>13 DEF Connect
<1>14. CASE UNCHANGED TIvars
  BY <1>14 DEF TIvars
<1> QED
  BY <1>1, <1>2, <1>3, <1>4, <1>5, <1>6, <1>7, <1>8, <1>9, <1>10, <1>11, <1>12, <1>13, <1>14
     DEF TINext, Step, Unzipped, Parse

(* Every variable keeps its type, whatever the imports share.              *)
THEOREM ImportTypeCorrect == TISpec => []TITypeOK
<1>1. TIInit => TITypeOK
  BY ImportInit DEF TIInv
<1> QED
  BY <1>1, ImportTypeStep, PTL DEF TISpec

LEMMA ImportStep == TIInv /\ [TINext]_TIvars => TIInv'
<1> SUFFICES ASSUME TIInv, [TINext]_TIvars PROVE TIInv'
  OBVIOUS
<1>0. TITypeOK' /\ TITypeOK
  BY ImportTypeStep DEF TIInv
<1> USE DEF TIInv, StoredWasParsed, ParsedWasAsked, AboutToSucceed, RecordedAreOver, At, Proceed,
            records, connections, FailingStoredNothing, CompleteIsWhole, FailedCanBeRepeated,
            UploadsHaveNoConnection, ConnectionsAreClosed
<1>1. CASE Publish
  BY <1>0, <1>1 DEF Publish
<1>2. ASSUME AllEnd, failures' \in Nat, failures' = 0 => failures = 0 PROVE TIInv'
  BY <1>0, <1>2 DEF AllEnd, TITypeOK
<1>3. CASE Crash
  BY <1>0, <1>2, <1>3 DEF Crash, Failure, TITypeOK
<1>4. ASSUME NEW i \in Imports, UnzipError(i) PROVE TIInv'
  BY <1>0, <1>2, <1>4 DEF UnzipError, TITypeOK
<1>5. ASSUME NEW i \in Imports, DeleteDetails(i) PROVE TIInv'
  BY <1>0, <1>5 DEF DeleteDetails, TITypeOK
<1>6. ASSUME NEW i \in Imports, Start(i) PROVE TIInv'
  BY <1>0, <1>6 DEF Start, TITypeOK
<1>7. ASSUME NEW i \in Imports, Find(i) PROVE TIInv'
  <2>1. touched \subseteq touched'
    BY <1>7 DEF Find, Leave, Write
  <2> QED
    BY <1>0, <1>7, <2>1 DEF Find, ExistsOnFtp, Leave, TITypeOK
<1>8. ASSUME NEW i \in Imports, Downloaded(i) PROVE TIInv'
  <2>1. touched \subseteq touched'
    BY <1>8 DEF Downloaded, Write
  <2> QED
    BY <1>0, <1>8, <2>1 DEF Downloaded, TITypeOK
<1>9. ASSUME NEW i \in Imports, ParseCSV(i), pc[i] \in {"unzip", "parse"} PROVE TIInv'
  BY <1>0, <1>9, TIConstantsAssumption DEF ParseCSV, EntriesOf, Leave, TITypeOK
<1>10. ASSUME NEW i \in Imports, ImportEntries(i) PROVE TIInv'
  BY <1>0, <1>10 DEF ImportEntries, TITypeOK
<1>11. ASSUME NEW i \in Imports, Disconnect(i) PROVE TIInv'
  BY <1>0, <1>11 DEF Disconnect, TITypeOK
<1>12. ASSUME NEW i \in Imports, Succeed(i) PROVE TIInv'
  BY <1>0, <1>12 DEF Succeed, FinishAs, TITypeOK
<1>13. ASSUME NEW i \in Imports, Failed(i) PROVE TIInv'
  BY <1>0, <1>13 DEF Failed, FinishAs, TITypeOK
<1>14. ASSUME NEW i \in Imports, Throw(i) PROVE TIInv'
  <2>1. failures' # 0
    BY <1>0, <1>14 DEF Throw, Failure, TITypeOK
  <2>2. UNCHANGED <<remote, records, imported, asked, parsed, touched, connected>>
    BY <1>14 DEF Throw
  <2>3. CASE pc[i] \in {"off", "fail"} /\ Proceed(i, "over") /\ UNCHANGED <<failing, unclosed>>
    BY <1>0, <2>1, <2>2, <2>3 DEF TITypeOK
  <2>4. CASE /\ pc[i] \in {"connect", "find", "download", "unzip", "insert"}
             /\ Leave(i) /\ UNCHANGED unclosed
    BY <1>0, <2>1, <2>2, <2>4 DEF Leave, TITypeOK
  <2>5. CASE /\ pc[i] \in {"close", "record"}
             /\ LeaveAtOnce(i)
             /\ unclosed' = IF At(i, "close") THEN unclosed \cup {i} ELSE unclosed
    BY <1>0, <2>1, <2>2, <2>5 DEF LeaveAtOnce, TITypeOK
  <2> QED
    BY <1>14, <2>3, <2>4, <2>5 DEF Throw
<1>15. ASSUME NEW i \in Imports, Connect(i) PROVE TIInv'
  BY <1>0, <1>15 DEF Connect, TITypeOK
<1>16. CASE UNCHANGED TIvars
  BY <1>0, <1>16 DEF TIvars
<1> QED
  BY <1>1, <1>3, <1>4, <1>5, <1>6, <1>7, <1>8, <1>9, <1>10, <1>11, <1>12, <1>13, <1>14, <1>15, <1>16
     DEF TINext, Step, Unzipped, Parse

(* The inductive invariant.                                                *)
THEOREM ImportInductive == TISpec => []TIInv
<1> QED
  BY ImportInit, ImportStep, PTL DEF TISpec

(* An import recorded as complete has stored what it counted: all of its   *)
(* file, unless another import wrote the same temporary files.             *)
THEOREM ImportWhole == TISpec => []CompleteIsWhole
<1>1. TIInv => CompleteIsWhole
  BY DEF TIInv
<1> QED
  BY <1>1, ImportInductive, PTL

(* An import recorded as failed can be repeated, if no call threw.         *)
THEOREM ImportRepeatable == TISpec => []FailedCanBeRepeated
<1>1. TIInv => FailedCanBeRepeated
  BY DEF TIInv
<1> QED
  BY <1>1, ImportInductive, PTL

(* A sync leaves no connection open, unless it could not close one.        *)
THEOREM ImportCloses == TISpec => []ConnectionsAreClosed
<1>1. TIInv => ConnectionsAreClosed
  BY DEF TIInv
<1> QED
  BY <1>1, ImportInductive, PTL
=============================================================================
