-------------------------- MODULE TransactionImport --------------------------
(***************************************************************************)
(* The import of transactions through the web UI: "sync" fetches a zip     *)
(* file from the SFTP server, unzips it and stores its rows, "upload"      *)
(* stores the rows of a CSV in the request.  Every import keeps a row in   *)
(* transaction_import_details.  Requests are handled side by side in one   *)
(* process, and all of them use the same two temporary files.              *)
(*                                                                         *)
(* The rows of a file are stored in one transaction, so the content of a   *)
(* file stands for its rows: a version the server had, the CSV of a        *)
(* request ("form"), or what is left of a file that two wrote ("torn").    *)
(* A sync has a client of its own, which reads with one SFTP connection    *)
(* and writes with another, and opens and closes one after the other.      *)
(* One step ends at the await that follows it.                             *)
(*                                                                         *)
(* Names that other modules use as well begin with TI.                     *)
(***************************************************************************)
EXTENDS Integers

CONSTANTS
  Imports,      \* the requests
  Uploads,      \* those that bring their own CSV
  Versions,     \* what the server may offer
  Malformed,    \* the contents whose entries do not parse
  MaxFailures   \* bound: exceptions and the death of the process

Contents == Versions \cup {"form", "torn"}

ASSUME TIConstantsAssumption ==
  /\ Uploads \subseteq Imports
  /\ {"none", "form", "torn"} \cap Versions = {}
  /\ Malformed \subseteq Contents
  /\ MaxFailures \in Nat

VARIABLES
  remote,       \* the file on the server
  details,      \* status in transaction_import_details, "none" without a row
  items,        \* number_of_items, as the content that was counted; "none" also
                \* stands for the part of a file that did not parse to its end
  imported,     \* the rows in transaction_for_rebate_criteria, of each import
  pc,
  asked,        \* what the import is to store
  parsed,       \* its source.transactions
  failing,      \* the imports on their way out with an exception
  touched,      \* those with a file that another wrote at the same time
  connected,    \* the connections of each import's client
  unclosed,     \* history: the imports that could not close a connection
  failures

records == <<details, items>>
connections == <<connected, unclosed>>
TIvars == <<remote, records, imported, pc, asked, parsed, failing, touched, connections, failures>>

(* The table of imports: a row of it has one of these, and the items.      *)
TransferStatuses == {"in_progress", "complete", "failed"}

Clients == {"read", "write"}

TIInit ==
  /\ remote = "none"
  /\ details = [i \in Imports |-> "none"]
  /\ items = [i \in Imports |-> "none"]
  /\ imported = [i \in Imports |-> "none"]
  /\ pc = [i \in Imports |-> "off"]
  /\ asked = [i \in Imports |-> "none"]
  /\ parsed = [i \in Imports |-> "none"]
  /\ failing = {}
  /\ touched = {}
  /\ connected = [i \in Imports |-> {}]
  /\ unclosed = {}
  /\ failures = 0

At(i, label) == pc[i] = label
Proceed(i, label) == pc' = [pc EXCEPT ![i] = label]
Failure == failures < MaxFailures /\ failures' = failures + 1

(* Watch & Match puts a file on the server.                                *)
Publish ==
  /\ \E v \in Versions \ {remote} : remote' = v
  /\ UNCHANGED <<records, imported, pc, asked, parsed, failing, touched, connections, failures>>

(* The pages of the UI delete the rows of details, at any time.            *)
DeleteDetails(i) ==
  /\ details[i] # "none"
  /\ details' = [details EXCEPT ![i] = "none"]
  /\ items' = [items EXCEPT ![i] = "none"]
  /\ UNCHANGED <<remote, imported, pc, asked, parsed, failing, touched, connections, failures>>

Start(i) ==
  /\ At(i, "off")
  /\ details' = [details EXCEPT ![i] = "in_progress"]
  /\ asked' = [asked EXCEPT ![i] = IF i \in Uploads THEN "form" ELSE "none"]
  /\ Proceed(i, IF i \in Uploads THEN "parse" ELSE "connect")
  /\ UNCHANGED <<remote, items, imported, parsed, failing, touched, connections, failures>>

LeaveAtOnce(i) ==
  /\ failing' = failing \cup {i}
  /\ Proceed(i, "fail")

(* An exception leaves the source; a sync closes its connection first.     *)
Leave(i) ==
  /\ failing' = failing \cup {i}
  /\ Proceed(i, IF i \in Uploads THEN "fail" ELSE "close")

Opened(i, client) == connected' = [connected EXCEPT ![i] = @ \cup {client}]
Ended(i, client) == connected' = [connected EXCEPT ![i] = @ \ {client}]

(* connect, which the sync calls twice, opens what is not open.            *)
Connect(i) ==
  /\ At(i, "connect")
  /\ Opened(i, IF "read" \in connected[i] THEN "write" ELSE "read")
  /\ IF connected'[i] = Clients THEN Proceed(i, "find") ELSE UNCHANGED pc
  /\ UNCHANGED <<remote, records, imported, asked, parsed, failing, touched, unclosed, failures>>

(* i opens a file that the imports of S are writing.                       *)
Write(i, S) ==
  touched' = touched \cup (IF S \ {i} = {} THEN {} ELSE S \cup {i})

Unzipping == {i \in Imports : pc[i] = "unzip"}
UsingZip == {i \in Imports : pc[i] \in {"download", "unzip"}}

ExistsOnFtp == remote # "none"

(* The local zip file is truncated before the remote one is read.          *)
Find(i) ==
  /\ At(i, "find")
  /\ IF ~ExistsOnFtp
       THEN Leave(i) /\ UNCHANGED <<asked, touched>>
       ELSE /\ asked' = [asked EXCEPT ![i] = remote]
            /\ Write(i, UsingZip)
            /\ Proceed(i, "download")
            /\ UNCHANGED failing
  /\ UNCHANGED <<remote, records, imported, parsed, connections, failures>>

(* The download ends, and the CSV file is opened to unzip into it.         *)
Downloaded(i) ==
  /\ At(i, "download")
  /\ Write(i, Unzipping)
  /\ Proceed(i, "unzip")
  /\ UNCHANGED <<remote, records, imported, asked, parsed, failing, connections, failures>>

AnyEntriesOf(i) == {asked[i], "torn"}

EntriesOf(i) == IF i \in touched THEN {asked[i], "torn"} ELSE {asked[i]}

StoreEach(i) ==
  /\ \E c \in EntriesOf(i) :
       /\ imported' = [imported EXCEPT ![i] = c]
       /\ IF c \in Malformed
            THEN Leave(i) /\ UNCHANGED parsed
            ELSE /\ parsed' = [parsed EXCEPT ![i] = c]
                 /\ Proceed(i, "insert")
                 /\ UNCHANGED failing
  /\ UNCHANGED <<remote, records, asked, touched, connections, failures>>

(* The CSV is read and parsed without an await in between; what is torn    *)
(* may parse, or not.                                                      *)
ParseCSV(i) ==
  /\ \/ \E c \in EntriesOf(i) \ Malformed :
          /\ parsed' = [parsed EXCEPT ![i] = c]
          /\ Proceed(i, "insert")
          /\ UNCHANGED failing
     \/ /\ EntriesOf(i) \cap (Malformed \cup {"torn"}) # {}
        /\ Leave(i)
        /\ UNCHANGED parsed
  /\ UNCHANGED <<remote, records, imported, asked, touched, connections, failures>>

Unzipped(i) == At(i, "unzip") /\ ParseCSV(i)
Parse(i) == At(i, "parse") /\ ParseCSV(i)

ImportEntries(i) ==
  /\ At(i, "insert")
  /\ imported' = [imported EXCEPT ![i] = parsed[i]]
  /\ Proceed(i, IF i \in Uploads THEN "record" ELSE "close")
  /\ UNCHANGED <<remote, records, asked, parsed, failing, touched, connections, failures>>

(* The finally of the sync closes what is open; the exception, if there is *)
(* one, goes on.                                                           *)
Disconnect(i) ==
  /\ At(i, "close")
  /\ Ended(i, IF "read" \in connected[i] THEN "read" ELSE "write")
  /\ IF connected'[i] # {} THEN UNCHANGED pc
                          ELSE Proceed(i, IF i \in failing THEN "fail" ELSE "record")
  /\ UNCHANGED <<remote, records, imported, asked, parsed, failing, touched, unclosed, failures>>

(* The update of a row that was deleted changes nothing.                   *)
FinishAs(i, status) ==
  /\ details' = [details EXCEPT ![i] = IF @ = "none" THEN "none" ELSE status]
  /\ items' = [items EXCEPT ![i] = IF details[i] = "none" THEN "none" ELSE parsed[i]]
  /\ Proceed(i, "over")
  /\ UNCHANGED <<remote, imported, asked, parsed, failing, touched, connections, failures>>

Succeed(i) == At(i, "record") /\ FinishAs(i, "complete")

Failed(i) == At(i, "fail") /\ FinishAs(i, "failed")

(* Any await may throw.  One in start or in failed leaves the import; one  *)
(* in succeed is caught like those of the source.                          *)
Throw(i) ==
  /\ Failure
  /\ \/ /\ pc[i] \in {"off", "fail"}
        /\ Proceed(i, "over")
        /\ UNCHANGED <<failing, unclosed>>
     \/ /\ pc[i] \in {"connect", "find", "download", "unzip", "insert"}
        /\ Leave(i)
        /\ UNCHANGED unclosed
     \/ /\ pc[i] \in {"close", "record"}
        /\ LeaveAtOnce(i)
        /\ unclosed' = IF At(i, "close") THEN unclosed \cup {i} ELSE unclosed
  /\ UNCHANGED <<remote, records, imported, asked, parsed, touched, connected>>

AllEnd ==
  /\ pc' = [i \in Imports |-> IF pc[i] = "off" THEN "off" ELSE "over"]
  /\ connected' = [i \in Imports |-> {}]
  /\ UNCHANGED <<remote, records, imported, asked, parsed, failing, touched, unclosed>>

(* The web process ends: by itself (a file of the server that is no zip    *)
(* file is enough), or on a torn one: nothing handles what the unzipper    *)
(* emits as an error.                                                      *)
Crash == AllEnd /\ Failure

UnzipError(i) ==
  /\ At(i, "unzip")
  /\ i \in touched
  /\ AllEnd
  /\ UNCHANGED failures

Step(i) ==
  \/ Connect(i) \/ Find(i) \/ Downloaded(i) \/ Unzipped(i) \/ UnzipError(i)
  \/ Parse(i) \/ ImportEntries(i) \/ Disconnect(i)
  \/ Succeed(i) \/ Failed(i)

TINext ==
  \/ Publish \/ Crash
  \/ \E i \in Imports : DeleteDetails(i) \/ Start(i) \/ Step(i) \/ Throw(i)

TISpec == TIInit /\ [][TINext]_TIvars

(* What is awaited comes back.                                             *)
Fairness == \A i \in Imports : WF_TIvars(Step(i))

TIFairSpec == TISpec /\ Fairness

----------------------------------------------------------------------------
(* Every variable has the type its comment gives.                          *)
TITypeOK ==
  /\ remote \in Versions \cup {"none"}
  /\ details \in [Imports -> TransferStatuses \cup {"none"}]
  /\ items \in [Imports -> Contents \cup {"none"}]
  /\ imported \in [Imports -> Contents \cup {"none"}]
  /\ pc \in [Imports -> {"off", "connect", "find", "download", "unzip", "parse", "insert",
                         "close", "record", "fail", "over"}]
  /\ asked \in [Imports -> Contents \cup {"none"}]
  /\ parsed \in [Imports -> Contents \cup {"none"}]
  /\ failing \subseteq Imports
  /\ touched \subseteq Imports
  /\ connected \in [Imports -> SUBSET Clients]
  /\ unclosed \subseteq Imports
  /\ failures \in 0 .. MaxFailures

(* An import recorded as complete has stored every row it counted, and     *)
(* these are the rows of the file the server had or of the request, unless *)
(* another import wrote the temporary files meanwhile: two that are        *)
(* started at once can both be complete with half a file.                  *)
CompleteIsWhole ==
  \A i \in Imports :
    details[i] = "complete" =>
      /\ imported[i] # "none" /\ items[i] = imported[i]
      /\ imported[i] = asked[i] \/ i \in touched

(* Where no call throws, an import recorded as failed has stored nothing:  *)
(* it can be repeated.  Where the connection cannot be closed or the end   *)
(* cannot be recorded, the rows are there and the import has failed.       *)
FailedCanBeRepeated ==
  failures = 0 => \A i \in Imports : details[i] = "failed" => imported[i] = "none"

(* "Disconnect from the SFTP server" (SFTPClient): a connection is open    *)
(* only between the first statement of a sync and its finally, however the *)
(* sync ends, unless closing one of the two throws.                        *)
ConnectionsAreClosed ==
  \A i \in Imports \ unclosed :
    pc[i] \in {"off", "record", "fail", "over"} => connected[i] = {}

----------------------------------------------------------------------------
(* The invariant behind these.                                             *)

StoredWasParsed ==
  \A i \in Imports : imported[i] # "none" => imported[i] = parsed[i]

ParsedWasAsked ==
  \A i \in Imports :
    parsed[i] # "none" => parsed[i] = asked[i] \/ i \in touched

AboutToSucceed ==
  \A i \in Imports :
    /\ At(i, "record") => imported[i] # "none"
    /\ At(i, "close") /\ i \notin failing => imported[i] # "none"
    /\ At(i, "insert") =>
         parsed[i] # "none" /\ imported[i] = "none" /\ i \notin failing
    /\ pc[i] \in {"download", "unzip", "parse"} => asked[i] # "none"
    /\ pc[i] \in {"off", "connect", "find", "download", "unzip", "parse"} =>
         parsed[i] = "none" /\ imported[i] = "none" /\ i \notin failing

RecordedAreOver ==
  \A i \in Imports : details[i] \in {"complete", "failed"} => At(i, "over")

UploadsHaveNoConnection ==
  \A i \in Imports :
    /\ i \in Uploads \/ pc[i] = "off" => connected[i] = {}
    /\ At(i, "connect") => i \notin Uploads

FailingStoredNothing ==
  failures = 0 =>
    \A i \in Imports : i \in failing \/ At(i, "fail") => imported[i] = "none"

TIInv ==
  /\ TITypeOK
  /\ StoredWasParsed
  /\ ParsedWasAsked
  /\ AboutToSucceed
  /\ RecordedAreOver
  /\ FailingStoredNothing
  /\ UploadsHaveNoConnection
  /\ CompleteIsWhole
  /\ FailedCanBeRepeated
  /\ ConnectionsAreClosed
=============================================================================
