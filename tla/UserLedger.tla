------------------------------ MODULE UserLedger ------------------------------
(***************************************************************************)
(* The users, and the ledger of what they were targeted and linked to: the *)
(* listener stores a user for every event, a trigger of the database adds  *)
(* to the ledger, the web UI writes users and ledger by hand, corrects and *)
(* deletes history, and a monthly job makes the next partition.            *)
(*                                                                         *)
(* One step is one database statement with the code up to the next one.    *)
(* Repository.insert and upsert are TypeORM's save: a select, and then an  *)
(* insert, or an update of the columns that differ from what was selected. *)
(*                                                                         *)
(* Time is seconds.  A whole second s is the timestamp 2 * s; the          *)
(* microseconds within it, which only the database uses, are 2 * s + 1.    *)
(***************************************************************************)
EXTENDS Integers, Sequences

CONSTANTS
  Users,
  Infos,          \* what can be said of a user's targeted and linked offers
  Topic,          \* the user events of the topic, in order
  Requests,       \* the requests the web UI works on side by side
  NewTimes,       \* the timestamps that may be entered for an entry
  SecondsPerDay, DaysPerMonth,
  LastSecond, MaxFetched, MaxRequests, MaxFaults,   \* bounds
  NoUser, NoEntry

Seconds == 0 .. LastSecond
Stamps == 0 .. 2 * LastSecond + 1
Days == 0 .. LastSecond \div SecondsPerDay

(* What the database finds for a timestamp that was written out.           *)
WholeSecond(s) == 2 * s

EndOfDay(d) == (d + 1) * SecondsPerDay - 1
MonthOf(s) == s \div (SecondsPerDay * DaysPerMonth)

Rows == [info : Infos, products : BOOLEAN]
Entries == [info : Infos, enrolled : BOOLEAN]

UserTable == [Users -> Rows \cup {NoUser}]
LedgerTable == [Users -> [Stamps -> Entries \cup {NoEntry}]]

ASSUME ConstantsAssumption ==
  /\ \A k \in DOMAIN Topic :
       Topic[k].user \in Users /\ Topic[k].info \in Infos /\ Topic[k].isAnonymous \in BOOLEAN
  /\ Topic \in Seq([user : Users, info : Infos, isAnonymous : BOOLEAN])
  /\ NewTimes \subseteq Seconds
  /\ SecondsPerDay \in Nat \ {0} /\ DaysPerMonth \in Nat \ {0}
  /\ LastSecond \in Nat /\ MaxFetched \in Nat /\ MaxRequests \in Nat /\ MaxFaults \in Nat
  /\ NoUser \notin Rows \cup Users /\ NoEntry \notin Entries \cup Infos

VARIABLES
  now, partitions,
  users,          \* the table; a row has the products of its user or none
  ledger,         \* the entries of each user by timestamp; those written by
                  \* hand also say whether the user is enrolled
  listener,       \* the statement that comes next, or why there is none
  lfound,         \* what its select found
  fetched, handled, committed,   \* positions in the topic
  request,        \* what each request of the web UI is about to do
  sent, faults,   \* counted against the bounds
  \* For the properties only:
  stored, lost,   \* the events that were handled, and those that never will be
  ran, skipped,   \* whether the job was run this month; the months it was
                  \* not run for
  corrected,      \* the users who were deleted, or whose history was changed,
                  \* by hand
  closing         \* the table of users as the last second of each day began

kafka == <<listener, lfound, fetched, handled, committed, stored, lost>>
web == <<request, sent>>
time == <<now, partitions, ran, skipped, closing>>
vars == <<time, users, ledger, kafka, web, faults, corrected>>

Idle == [stage |-> "idle", kind |-> "none", user |-> NoUser, info |-> NoEntry,
         at |-> 0, to |-> 0, found |-> NoUser]

Init ==
  /\ now = 0 /\ partitions = {0}
  /\ users = [u \in Users |-> NoUser]
  /\ ledger = [u \in Users |-> [t \in Stamps |-> NoEntry]]
  /\ listener = "waiting" /\ lfound = NoUser
  /\ fetched = 0 /\ handled = 0 /\ committed = 0
  /\ request = [r \in Requests |-> Idle]
  /\ sent = 0 /\ faults = 0
  /\ stored = {} /\ lost = {} /\ ran = FALSE /\ skipped = {} /\ corrected = {}
  /\ closing = [d \in Days |-> [u \in Users |-> NoUser]]

Fault == faults < MaxFaults /\ faults' = faults + 1

----------------------------------------------------------------------------
(* Time, and the job of every month.                                       *)

CreateThisMonthsTable ==
  /\ partitions' = partitions \cup {MonthOf(now)}
  /\ ran' = TRUE
  /\ UNCHANGED <<now, skipped, closing, users, ledger, kafka, web, faults, corrected>>

(* createNextMonthsTable: a second call of a month fails at the index, and *)
(* leaves what is there.  Months that time does not reach are left out.    *)
CreateNextMonthsTable ==
  /\ MonthOf(now) < MonthOf(LastSecond)
  /\ partitions' = partitions \cup {MonthOf(now) + 1}
  /\ ran' = TRUE
  /\ UNCHANGED <<now, skipped, closing, users, ledger, kafka, web, faults, corrected>>

(* The job is run every month, but for a fault.                            *)
Tick ==
  /\ now < LastSecond
  /\ now' = now + 1
  /\ closing' = [d \in Days |-> IF EndOfDay(d) = now + 1 THEN users ELSE closing[d]]
  /\ \/ MonthOf(now + 1) = MonthOf(now) /\ UNCHANGED <<ran, skipped, faults>>
     \/ /\ MonthOf(now + 1) # MonthOf(now) /\ ran
        /\ ran' = FALSE /\ UNCHANGED <<skipped, faults>>
     \/ /\ MonthOf(now + 1) # MonthOf(now) /\ ~ran
        /\ Fault /\ skipped' = skipped \cup {MonthOf(now + 1)} /\ UNCHANGED ran
  /\ UNCHANGED <<partitions, users, ledger, kafka, web, corrected>>

----------------------------------------------------------------------------
(* The users and the trigger.                                              *)

(* The last of a user's entries, if there is one.                          *)
Latest(u) ==
  {t \in Stamps : /\ ledger[u][t] # NoEntry
                  /\ \A later \in Stamps : later > t => ledger[u][later] = NoEntry}

(* user_ledger_trigger_fn compares with the last entry.  One written by    *)
(* hand never equals what the trigger builds, which has one key less.      *)
HasNews(u, info) ==
  ~\E t \in Latest(u) : ledger[u][t].info = info /\ ~ledger[u][t].enrolled

(* The row that save leaves: it writes the columns that differ from what   *)
(* it found, whatever the row has become.                                  *)
Saved(u, row, found) ==
  IF found = NoUser THEN row
  ELSE [info |-> IF row.info = found.info THEN users[u].info ELSE row.info,
        products |-> IF row.products = found.products THEN users[u].products
                                                      ELSE row.products]

(* Nothing is written to a row that is as it should be, or was deleted.    *)
Writes(u, row, found) ==
  IF found = NoUser THEN users[u] = NoUser ELSE found # row /\ users[u] # NoUser

(* The row was inserted by another in between, or the trigger finds no     *)
(* partition.                                                              *)
SaveThrows(u, row, found) ==
  \/ found = NoUser /\ users[u] # NoUser
  \/ /\ Writes(u, row, found)
     /\ HasNews(u, Saved(u, row, found).info)
     /\ MonthOf(now) \notin partitions

SaveUser(u, row, found) ==
  /\ ~SaveThrows(u, row, found)
  /\ IF Writes(u, row, found)
     THEN LET new == Saved(u, row, found)
          IN  /\ users' = [users EXCEPT ![u] = new]
              /\ ledger' = IF HasNews(u, new.info)
                           THEN [ledger EXCEPT ![u][2 * now + 1] =
                                   [info |-> new.info, enrolled |-> FALSE]]
                           ELSE ledger
     ELSE UNCHANGED <<users, ledger>>

----------------------------------------------------------------------------
(* The listener of the topic.                                              *)

Event == Topic[handled + 1]

(* The stream takes messages ahead of the one that is handled, and the     *)
(* consumer commits what was taken, if it does (ENABLE_AUTO_COMMIT).       *)
Fetch ==
  /\ listener # "down"
  /\ fetched < Len(Topic) /\ fetched - handled < MaxFetched
  /\ fetched' = fetched + 1
  /\ UNCHANGED <<time, users, ledger, listener, lfound, handled, committed, stored, lost,
                 web, faults, corrected>>

AutoCommit ==
  /\ listener # "down"
  /\ committed' = fetched
  /\ UNCHANGED <<time, users, ledger, listener, lfound, fetched, handled, stored, lost,
                 web, faults, corrected>>

(* UserHandler.process: anonymous users are not stored.                    *)
Process ==
  /\ listener = "waiting" /\ handled < fetched
  /\ IF Event.isAnonymous
     THEN /\ handled' = handled + 1 /\ stored' = stored \cup {handled + 1}
          /\ UNCHANGED <<listener, lfound>>
     ELSE /\ listener' = "save" /\ lfound' = users[Event.user]
          /\ UNCHANGED <<handled, stored>>
  /\ UNCHANGED <<time, users, ledger, fetched, committed, lost, web, faults, corrected>>

EventRow == [info |-> Event.info, products |-> TRUE]

StoreUser ==
  /\ listener = "save"
  /\ SaveUser(Event.user, EventRow, lfound)
  /\ handled' = handled + 1 /\ stored' = stored \cup {handled + 1}
  /\ listener' = "waiting" /\ lfound' = NoUser
  /\ UNCHANGED <<time, fetched, committed, lost, web, faults, corrected>>

GoDown == listener' = "down" /\ lost' = lost \cup (handled + 1 .. committed) /\ UNCHANGED handled

(* stream.errors stands before flatMap, so nothing catches a rejected      *)
(* promise of process.  Depending on the streaming library the stream goes *)
(* on, ends in an uncaught exception, which exits, or waits for ever.      *)
StoreFails ==
  /\ listener = "save"
  /\ \/ SaveThrows(Event.user, EventRow, lfound) /\ UNCHANGED faults
     \/ Fault
  /\ \/ /\ listener' = "waiting" /\ handled' = handled + 1
        /\ lost' = lost \cup {handled + 1}
     \/ listener' = "hung" /\ UNCHANGED <<handled, lost>>
     \/ GoDown
  /\ lfound' = NoUser
  /\ UNCHANGED <<time, users, ledger, fetched, committed, stored, web, corrected>>

(* SIGTERM, uncaughtException, or the death of the process.                *)
Die ==
  /\ listener # "down" /\ Fault
  /\ GoDown /\ lfound' = NoUser
  /\ UNCHANGED <<time, users, ledger, fetched, committed, stored, web, corrected>>

RestartWhereItWas ==
  /\ listener = "down"
  /\ listener' = "waiting" /\ handled' = fetched
  /\ UNCHANGED <<time, users, ledger, lfound, fetched, committed, stored, lost, web, faults,
                 corrected>>

(* It resumes at the committed position: what was handled since is handled *)
(* once more.                                                              *)
Restart ==
  /\ listener = "down"
  /\ listener' = "waiting" /\ fetched' = committed /\ handled' = committed
  /\ UNCHANGED <<time, users, ledger, lfound, committed, stored, lost, web, faults, corrected>>

----------------------------------------------------------------------------
(* The web UI.                                                             *)

Begin(r, new) ==
  /\ \E free \in Requests : request[free].stage = "idle"
  /\ r = CHOOSE free \in Requests : request[free].stage = "idle"
  /\ sent < MaxRequests
  /\ sent' = sent + 1
  /\ request' = [request EXCEPT ![r] = new]

GoTo(r, stage) == request' = [request EXCEPT ![r].stage = stage]

Finish(r) == request' = [request EXCEPT ![r] = Idle]

(* POST /clients/edit, as far as its findOrFail; the timestamp of the      *)
(* entry is taken here, without its milliseconds.                          *)
Edit(r, u, i) ==
  /\ users[u] # NoUser
  /\ Begin(r, [stage |-> "find", kind |-> "edit", user |-> u, info |-> i,
               at |-> now, to |-> now, found |-> NoUser])
  /\ UNCHANGED <<time, users, ledger, kafka, faults, corrected>>

(* POST /clients writes the ledger first.                                  *)
Create(r, u, i) ==
  /\ Begin(r, [stage |-> "record", kind |-> "create", user |-> u, info |-> i,
               at |-> now, to |-> now, found |-> NoUser])
  /\ UNCHANGED <<time, users, ledger, kafka, faults, corrected>>

(* UserRepository.insert(updatedUser): the select of the save, and         *)
FindUser(r) ==
  /\ request[r].stage = "find"
  /\ request' = [request EXCEPT ![r].stage = "save", ![r].found = users[request[r].user]]
  /\ UNCHANGED <<time, users, ledger, kafka, sent, faults, corrected>>

(* what it writes.  The form has no products, and they are lost.           *)
RowByHand(r) == [info |-> request[r].info, products |-> FALSE]

WriteUser(r) ==
  /\ request[r].stage = "save"
  /\ SaveUser(request[r].user, RowByHand(r), request[r].found)
  /\ IF request[r].kind = "edit" THEN GoTo(r, "record") ELSE Finish(r)
  /\ UNCHANGED <<time, kafka, sent, faults, corrected>>

RecordNow(r) ==
  /\ request[r].stage = "record" /\ MonthOf(request[r].at) \in partitions
  /\ ledger' = [ledger EXCEPT ![request[r].user][2 * now + 1] =
                  [info |-> request[r].info, enrolled |-> TRUE]]
  /\ IF request[r].kind = "create" THEN GoTo(r, "find") ELSE Finish(r)
  /\ UNCHANGED <<time, users, kafka, sent, faults, corrected>>

(* UserLedgerRepository.insert(ledgerUserRecord): an entry with the same   *)
(* timestamp is replaced.                                                  *)
RecordByHand(r) ==
  /\ request[r].stage = "record" /\ MonthOf(request[r].at) \in partitions
  /\ ledger' = [ledger EXCEPT ![request[r].user][WholeSecond(request[r].at)] =
                  [info |-> request[r].info, enrolled |-> TRUE]]
  /\ IF request[r].kind = "create" THEN GoTo(r, "find") ELSE Finish(r)
  /\ UNCHANGED <<time, users, kafka, sent, faults, corrected>>

FindUserLedgerRecord(u, s) == ledger[u][WholeSecond(s)]

(* POST /clients/edit_history, updateUserLedgerRecord: only entries at a   *)
(* whole second are found; others give a TypeError.                        *)
Correct(r, u, s, to) ==
  /\ FindUserLedgerRecord(u, s) # NoEntry
  /\ Begin(r, [stage |-> "move", kind |-> "correct", user |-> u,
               info |-> FindUserLedgerRecord(u, s).info, at |-> s, to |-> to, found |-> NoUser])
  /\ UNCHANGED <<time, users, ledger, kafka, faults, corrected>>

MoveEntry(r) ==
  /\ request[r].stage = "move" /\ MonthOf(request[r].to) \in partitions
  /\ ledger' = [ledger EXCEPT ![request[r].user][WholeSecond(request[r].to)] =
                  [info |-> request[r].info, enrolled |-> TRUE]]
  /\ corrected' = corrected \cup {request[r].user}
  /\ GoTo(r, "remove")
  /\ UNCHANGED <<time, users, kafka, sent, faults>>

RemoveOfThatSecond(r) ==
  /\ request[r].stage = "remove"
  /\ LET u == request[r].user
         second == {2 * request[r].at, 2 * request[r].at + 1}
     IN  /\ ledger' = [ledger EXCEPT ![u] =
                         [t \in Stamps |-> IF t \in second THEN NoEntry ELSE @[t]]]
         /\ corrected' = corrected \cup {u}
  /\ Finish(r)
  /\ UNCHANGED <<time, users, kafka, sent, faults>>

(* deleteUserLedgerRecord compares timestamps only: the entries that other *)
(* users have at the same second go as well.                               *)
RemoveOld(r) ==
  /\ request[r].stage = "remove"
  /\ LET u == request[r].user
         t == WholeSecond(request[r].at)
         hit == {v \in Users : ledger[u][t] # NoEntry /\ ledger[v][t] # NoEntry}
     IN  /\ ledger' = [v \in Users |->
                         IF v \in hit THEN [ledger[v] EXCEPT ![t] = NoEntry] ELSE ledger[v]]
         /\ corrected' = corrected \cup hit
  /\ Finish(r)
  /\ UNCHANGED <<time, users, kafka, sent, faults>>

(* POST /clients/history/delete-all: deleteAllUsersHistory sends as many   *)
(* deletions as the ledger has entries, and waits for none of them.        *)
DeleteHistory(r, u) ==
  /\ \E v \in Users, t \in Stamps : ledger[v][t] # NoEntry
  /\ Begin(r, [Idle EXCEPT !.stage = "deleting", !.kind = "delete", !.user = u])
  /\ UNCHANGED <<time, users, ledger, kafka, faults, corrected>>

DeleteEntries(r) ==
  /\ request[r].stage = "deleting"
  /\ ledger' = [ledger EXCEPT ![request[r].user] = [t \in Stamps |-> NoEntry]]
  /\ corrected' = corrected \cup {request[r].user}
  /\ Finish(r) \/ UNCHANGED request
  /\ UNCHANGED <<time, users, kafka, sent, faults>>

(* POST /clients/delete-all                                                *)
DeleteAll(r) ==
  /\ Begin(r, [Idle EXCEPT !.stage = "truncateUsers", !.kind = "delete"])
  /\ UNCHANGED <<time, users, ledger, kafka, faults, corrected>>

TruncateUsers(r) ==
  /\ request[r].stage = "truncateUsers"
  /\ users' = [u \in Users |-> NoUser]
  /\ corrected' = Users
  /\ GoTo(r, "truncateLedger")
  /\ UNCHANGED <<time, ledger, kafka, sent, faults>>

TruncateLedger(r) ==
  /\ request[r].stage = "truncateLedger"
  /\ ledger' = [u \in Users |-> [t \in Stamps |-> NoEntry]]
  /\ corrected' = Users
  /\ Finish(r)
  /\ UNCHANGED <<time, users, kafka, sent, faults>>

(* A statement throws, or the process of the web UI dies: what was written *)
(* stays.                                                                  *)
BreakOff(r) ==
  /\ request[r].stage # "idle"
  /\ \/ Fault
     \/ /\ request[r].stage = "save"
        /\ SaveThrows(request[r].user, RowByHand(r), request[r].found)
        /\ UNCHANGED faults
     \/ /\ request[r].stage = "record" /\ MonthOf(request[r].at) \notin partitions
        /\ UNCHANGED faults
     \/ /\ request[r].stage = "move" /\ MonthOf(request[r].to) \notin partitions
        /\ UNCHANGED faults
  /\ corrected' = IF request[r].kind = "create" /\ request[r].stage # "record"
                  THEN corrected \cup {request[r].user} ELSE corrected
  /\ Finish(r)
  /\ UNCHANGED <<time, users, ledger, kafka, sent>>

----------------------------------------------------------------------------
ListenerStep == Fetch \/ Process \/ StoreUser \/ StoreFails \/ Restart

RequestStep(r) ==
  \/ FindUser(r) \/ WriteUser(r) \/ RecordByHand(r)
  \/ MoveEntry(r) \/ RemoveOld(r) \/ DeleteEntries(r) \/ TruncateUsers(r) \/ TruncateLedger(r)

NewRequest(r) ==
  \/ \E u \in Users, i \in Infos : Edit(r, u, i) \/ Create(r, u, i)
  \/ \E u \in Users, s \in Seconds, to \in NewTimes : Correct(r, u, s, to)
  \/ \E u \in Users : DeleteHistory(r, u)
  \/ DeleteAll(r)

Next ==
  \/ CreateNextMonthsTable \/ Tick
  \/ ListenerStep \/ AutoCommit \/ Die
  \/ \E r \in Requests : NewRequest(r) \/ RequestStep(r) \/ BreakOff(r)

Spec == Init /\ [][Next]_vars

(* What was taken is handled, and a process that exits is started again.   *)
FairSpec == Spec /\ WF_vars(ListenerStep)

----------------------------------------------------------------------------
Stages ==
  {"idle", "find", "save", "record", "move", "remove", "deleting", "truncateUsers",
   "truncateLedger"}

RequestRecords ==
  [stage : Stages, kind : {"none", "edit", "create", "correct", "delete"},
   user : Users \cup {NoUser}, info : Infos \cup {NoEntry},
   at : Seconds, to : Seconds, found : Rows \cup {NoUser}]

(* Every variable has the type its comment gives.                          *)
TypeOK ==
  /\ now \in Seconds /\ partitions \subseteq Int
  /\ users \in UserTable
  /\ ledger \in LedgerTable
  /\ listener \in {"waiting", "save", "hung", "down"}
  /\ lfound \in Rows \cup {NoUser}
  /\ fetched \in 0 .. Len(Topic) /\ handled \in 0 .. fetched /\ committed \in 0 .. fetched
  /\ listener = "save" => handled < fetched
  /\ request \in [Requests -> RequestRecords]
  /\ \A r \in Requests :
       /\ request[r].stage \in {"find", "save", "record"} =>
            request[r].user \in Users /\ request[r].info \in Infos
       /\ request[r].stage \in {"find", "save", "record"} <=>
            request[r].kind \in {"edit", "create"}
       /\ request[r].stage \in {"move", "remove"} =>
            request[r].user \in Users /\ request[r].info \in Infos
       /\ request[r].stage = "deleting" => request[r].user \in Users
  /\ sent \in 0 .. MaxRequests /\ faults \in 0 .. MaxFaults
  /\ stored \subseteq DOMAIN Topic /\ lost \subseteq DOMAIN Topic
  /\ ran \in BOOLEAN /\ skipped \subseteq Int /\ corrected \subseteq Users
  /\ closing \in [Days -> UserTable]

StateAtStartOfDay(u, d) ==
  LET upToThen == {t \in Stamps : t <= 2 * d * SecondsPerDay /\ ledger[u][t] # NoEntry}
  IN  {t \in upToThen : \A later \in upToThen : later <= t}

(* getStateAtDate: the last entry up to 23:59:59 of the day.  What the     *)
(* database records within that second comes after it.                     *)
StateAtDate(u, d) ==
  LET upToThen == {t \in Stamps : t <= WholeSecond(EndOfDay(d)) /\ ledger[u][t] # NoEntry}
  IN  {t \in upToThen : \A later \in upToThen : later <= t}

(* The ledger's last word on a user is what the table of users has, unless *)
(* history was corrected or deleted by hand, or the user is just being     *)
(* created by hand.  An edit writes the user before the entry, and events  *)
(* are stored in between; it is the request's own time, which the entry    *)
(* gets, that keeps it from becoming the last word on what was stored      *)
(* since.                                                                  *)
LedgerFollowsUsers ==
  \A u \in Users \ corrected :
    \/ users[u] = NoUser
    \/ \E t \in Latest(u) : ledger[u][t].info = users[u].info
    \/ \E r \in Requests : /\ request[r].kind = "create" /\ request[r].user = u
                           /\ request[r].stage \in {"find", "save"}

(* "Look up the user's information on the given datetime" (getStateAtDate):*)
(* the state of a day that is over is what the table of users had when its *)
(* last second began, or what was entered by hand; what is stored later,   *)
(* a second time, or out of order does not change it.                      *)
ClosedDaysAreTrue ==
  \A d \in Days, u \in Users \ corrected :
    EndOfDay(d) <= now /\ closing[d][u] # NoUser =>
      \E t \in StateAtDate(u, d) :
        ledger[u][t].info = closing[d][u].info \/ ledger[u][t].enrolled

(* What the database recorded goes only with the whole history of a user:  *)
(* edits and corrections, which know whole seconds only, replace and       *)
(* delete entries made by hand, be they of other users.                    *)
RecordedEntriesStay ==
  [][\A u \in Users, s \in Seconds :
       s < now /\ ledger[u][2 * s + 1] # NoEntry =>
         \/ ledger'[u][2 * s + 1] = ledger[u][2 * s + 1]
         \/ \E r \in Requests :
              \/ request[r].stage = "deleting" /\ request[r].user = u
              \/ request[r].stage = "truncateLedger"]_vars

(* "On a monthly basis, partitioned tables need to be created" (README):   *)
(* a month has a partition when it begins if the job was run in the month  *)
(* before; the job of the month itself comes too late.                     *)
PartitionsComeInTime == MonthOf(now) \notin partitions <=> MonthOf(now) \in skipped

(* Every event is handled in the end, or lost by a death after it was      *)
(* committed or by a statement that failed, unless the stream hangs or the *)
(* month has no partition.                                                 *)
EveryEventIsHandled ==
  \A k \in DOMAIN Topic :
    <>(k \in stored \cup lost \/ listener = "hung" \/ MonthOf(now) \notin partitions)
----------------------------------------------------------------------------
(* The inductive invariant, of the users nobody corrected by hand.         *)

(* The job has made no partition further ahead than the next month's.      *)
MonthsSoFar ==
  /\ \A m \in partitions : m <= MonthOf(now) + 1
  /\ \A m \in skipped : m <= MonthOf(now)
  /\ ran <=> MonthOf(now) + 1 \in partitions

EntriesAreOfThePast ==
  \A u \in Users \ corrected, t \in Stamps : ledger[u][t] # NoEntry => t <= 2 * now + 1

(* A request writes a user and an entry.                                   *)
AtWork(r) == request[r].stage \in {"find", "save", "record"}

RequestsAreOfThePast == \A r \in Requests : AtWork(r) => request[r].at <= now

(* A user who was never stored has entries made by hand only, by a request *)
(* that has yet to store the user.                                         *)
UnstoredWereEntered ==
  \A u \in Users \ corrected, t \in Stamps :
    users[u] = NoUser /\ ledger[u][t] # NoEntry => ledger[u][t].enrolled

(* r creates u as i, and its statement will write the row of u.            *)
WillStore(r, u, i) ==
  /\ request[r].kind = "create" /\ request[r].user = u /\ request[r].info = i
  /\ \/ request[r].stage = "find"
     \/ request[r].stage = "save" /\ request[r].found # RowByHand(r)

(* The last entry of a stored user is what is stored, or what is about to  *)
(* be.                                                                     *)
LastWordIsStored ==
  \A u \in Users \ corrected :
    users[u] # NoUser =>
      \E t \in Latest(u) :
        \/ ledger[u][t].info = users[u].info
        \/ /\ ledger[u][t].enrolled
           /\ \E r \in Requests : WillStore(r, u, ledger[u][t].info)

EntryAfter(u, s) == \E t \in Stamps : t > WholeSecond(s) /\ ledger[u][t] # NoEntry

(* While an edit is at work its user has what it found, and then what it   *)
(* saved, or an entry that is later than the edit's will be.               *)
EditIsOvertaken(r) ==
  LET u == request[r].user
  IN  request[r].kind = "edit" /\ AtWork(r) /\ u \notin corrected =>
        /\ users[u] # NoUser
        /\ request[r].stage = "save" =>
             /\ request[r].found # NoUser
             /\ users[u].info = request[r].found.info \/ EntryAfter(u, request[r].at)
        /\ request[r].stage = "record" =>
             users[u].info = request[r].info \/ EntryAfter(u, request[r].at)

EditsAreOvertaken == \A r \in Requests : EditIsOvertaken(r)

IInv ==
  /\ TypeOK
  /\ MonthsSoFar /\ PartitionsComeInTime
  /\ EntriesAreOfThePast /\ RequestsAreOfThePast
  /\ UnstoredWereEntered /\ LastWordIsStored /\ EditsAreOvertaken
  /\ ClosedDaysAreTrue
=============================================================================
