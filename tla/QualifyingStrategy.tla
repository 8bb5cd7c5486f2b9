------------------------- MODULE QualifyingStrategy -------------------------
(***************************************************************************)
(* The eligibility checks of the qualifying strategy, with the offers, the *)
(* users and the ledger that the listener and the web pages change while   *)
(* rows wait and while one is at work.  The strategy reads the offer and   *)
(* the user once, and the ledger at the day of the transaction.            *)
(*                                                                         *)
(* One step is one database statement with the checks that follow it.      *)
(* TransactionProcessing shows that a user's rows are handled one after    *)
(* another; the rows of other users read nothing this one writes, so there *)
(* is one processor here.  The web pages' requests, of which UserLedger    *)
(* has every statement in its place, are here the statements alone, in any *)
(* order, and an entry has a day and its place among those of the day.     *)
(***************************************************************************)
EXTENDS RewardCalculation, SequencesExt

CONSTANTS
  Rows,           \* the transactions that may be sent
  OfferEvents,    \* what the listener may hear of offers, in any order
  EnteredOffers,  \* what may be entered by hand, without the listener's filter
  UserEvents,     \* and of users
  EnteredUsers,
  LastDay, MaxEntries,   \* bounds; MaxEntries is of a user and a day
  MaxDisturbances,       \* bound: exceptions, deaths and changes by hand together
  NoOffer, NoUser, NoRow

Offers == {KafkaOffer(v) : v \in OfferEvents} \cup EnteredOffers
Users == UserEvents \cup EnteredUsers
OfferIds == {v.id : v \in Offers} \cup {m.rebateCriteriaId : m \in Rows}
UserIds == {v.id : v \in Users} \cup {m.userId : m \in Rows}

Days == 1 .. LastDay

(* The table of rebate criteria: of each offer, the terms stored last.     *)
CriteriaTable == [OfferIds -> Offers \cup {NoOffer}]

(* What the ledger says of a user from some moment on.  An entry by hand   *)
(* has a key more than one by the trigger, and a timestamp of choice.      *)
Entries ==
  [targeted : {v.targeted : v \in Users}, linked : {v.linked : v \in Users}, byHand : BOOLEAN]

(* Of each day, a user's entries in the order of their timestamps.         *)
Histories == [Days -> Seq(Entries)]

CardTypes == {"credit", "debit"}

ASSUME ConstantsAssumption ==
  /\ LastDay \in Nat \ {0} /\ MaxEntries \in Nat /\ MaxDisturbances \in Nat
  /\ NoOffer \notin Offers /\ NoUser \notin Users /\ NoRow \notin Rows
  /\ \A m \in Rows : m.date \in Days /\ m.amount \in Nat /\ m.basePoints \in Nat
  /\ \A v \in Offers : /\ v.rebateAmount \in Int /\ v.benefit \in Benefits
                       /\ v.validFromDate \in Int /\ v.validToDate \in Int
                       /\ DOMAIN v.eligibleProducts \subseteq Nat
  /\ \A v \in Users : \A kind \in CardTypes : DOMAIN v.products[kind] \subseteq Nat

VARIABLES
  today,
  offers,       \* the table of rebate criteria
  users,
  ledger,       \* the history of each user
  rowStatus,    \* of each transaction; "none" before it arrives
  rebates,      \* each with its row and, for the properties only, what it was
                \* decided with and on which day
  faults, edits,    \* counted against MaxDisturbances
  pc, current,
  criteria, user,   \* what the strategy has cached
  verdict,          \* the status to give to the row
  \* For the properties only:
  takenOn,      \* the day on which each row was last taken
  unanswered,   \* the rows refused since the ledger could not be read
  corrected     \* of each user, the day on which what the ledger said of
                \* earlier days was last changed by hand, or the user deleted

world == <<today, offers, users, ledger, edits, corrected>>
strategy == <<pc, current, criteria, user, verdict>>
asked == <<takenOn, unanswered>>
processing == <<rowStatus, rebates, asked, faults, strategy>>
vars == <<world, processing>>

Init ==
  /\ today = 1
  /\ offers = [o \in OfferIds |-> NoOffer]
  /\ users = [u \in UserIds |-> NoUser]
  /\ ledger = [u \in UserIds |-> [d \in Days |-> <<>>]]
  /\ rowStatus = [m \in Rows |-> "none"]
  /\ rebates = {}
  /\ faults = 0 /\ edits = 0
  /\ pc = "idle" /\ current = NoRow /\ criteria = NoOffer /\ user = NoUser /\ verdict = "none"
  /\ takenOn = [m \in Rows |-> 0] /\ unanswered = {}
  /\ corrected = [u \in UserIds |-> 0]

----------------------------------------------------------------------------
(* The world around.                                                       *)

NextDay ==
  /\ today < LastDay
  /\ today' = today + 1
  /\ UNCHANGED <<offers, users, ledger, edits, corrected, processing>>

(* OfferHandler: an offer that is withdrawn is not stored, and so stays as *)
(* it was.                                                                 *)
ReceiveOffer(v) ==
  /\ v.isRedeemable /\ v.wasActive
  /\ LET c == KafkaOffer(v) IN offers' = [offers EXCEPT ![c.id] = c]
  /\ UNCHANGED <<today, users, ledger, edits, corrected, processing>>

(* A change by hand, counted.                                              *)
Edit == faults + edits < MaxDisturbances /\ edits' = edits + 1

EditOffers == Edit /\ UNCHANGED <<today, users, ledger, corrected, processing>>

(* POST /offers stores whatever was entered; delete-all empties the table, *)
(* and the offer is found no more, except by the row that is at work.      *)
EnterOffer(v) ==
  /\ offers' = [offers EXCEPT ![v.id] = v]
  /\ EditOffers

DeleteOffers ==
  /\ offers' = [o \in OfferIds |-> NoOffer]
  /\ EditOffers

(* The last entry of all, which the trigger looks at.                      *)
LatestState(history, date) ==
  {Last(history[d]) : d \in {d \in Days : /\ history[d] # <<>>
                                         /\ \A e \in Days : e > d => history[e] = <<>>}}

(* getStateAtDate: the last entry up to the end of the day, if there is    *)
(* one.                                                                    *)
StateAtDate(history, date) ==
  {Last(history[d]) : d \in {d \in Days : /\ d <= date /\ history[d] # <<>>
                                         /\ \A e \in d + 1 .. date : history[e] = <<>>}}

EntryOf(v, byHand) == [targeted |-> v.targeted, linked |-> v.linked, byHand |-> byHand]

(* user_ledger_trigger: the database adds an entry of now when a user is   *)
(* stored who is not as the last entry says.  Entries by hand may be of    *)
(* later, and are never equal to what the trigger builds.                  *)
Recorded(history, v) ==
  LET entry == EntryOf(v, FALSE)
      places == {i \in 1 .. Len(history[today]) + 1 :
                   \A j \in i .. Len(history[today]) : history[today][j].byHand}
  IN  IF entry \in LatestState(history, today) THEN {history}
      ELSE {[history EXCEPT ![today] = InsertAt(@, i, entry)] : i \in places}

WithinBounds(history) == \A d \in Days : Len(history[d]) <= MaxEntries

(* Nothing is written, and no trigger fires, when the row is as it was.    *)
StoreUser(v) ==
  /\ users' = [users EXCEPT ![v.id] = v]
  /\ \/ users[v.id] = v /\ UNCHANGED ledger
     \/ /\ users[v.id] # v
        /\ \E history \in Recorded(ledger[v.id], v) :
             WithinBounds(history) /\ ledger' = [ledger EXCEPT ![v.id] = history]

(* UserHandler                                                             *)
ReceiveUser(v) ==
  /\ ~v.isAnonymous
  /\ StoreUser(v)
  /\ UNCHANGED <<today, offers, edits, corrected, processing>>

Arrive(m) ==
  /\ rowStatus[m] = "none"
  /\ m.date <= today
  /\ rowStatus' = [rowStatus EXCEPT ![m] = "Pending"]
  /\ UNCHANGED <<world, rebates, asked, faults, strategy>>

----------------------------------------------------------------------------
(* The web pages.                                                          *)

EditUsers == Edit /\ UNCHANGED <<today, offers, processing>>

(* A change of what the ledger says of a day that is over is remembered.   *)
Corrected(u, d) == IF d < today THEN [corrected EXCEPT ![u] = today] ELSE corrected

(* POST /clients and /clients/edit store the user and write an entry, of   *)
(* the time of the request: in this order, or the other.                   *)
EnterUser(v) == StoreUser(v) /\ EditUsers /\ UNCHANGED corrected

WriteEntry(u, d, entry) ==
  /\ \E i \in 1 .. Len(ledger[u][d]) + 1 :
       ledger' = [ledger EXCEPT ![u][d] = InsertAt(@, i, entry)]
  /\ WithinBounds(ledger'[u])
  /\ corrected' = Corrected(u, d)
  /\ UNCHANGED users

(* The day may have ended since the request came.  Not counted, MaxEntries *)
(* being bound enough.                                                     *)
RecordByHand(v) ==
  /\ \E d \in {today - 1, today} \cap Days : WriteEntry(v.id, d, EntryOf(v, TRUE))
  /\ UNCHANGED <<today, offers, edits, processing>>

(* POST /clients/edit_history writes an entry once more, under any time,   *)
(* and then deletes it where it was; the trigger's entries, which are not  *)
(* of a whole second, it does not find.                                    *)
ByHand(u, d) == {i \in 1 .. Len(ledger[u][d]) : ledger[u][d][i].byHand}

CopyEntry(u) ==
  /\ \E from, to \in Days : \E i \in ByHand(u, from) : WriteEntry(u, to, ledger[u][from][i])
  /\ EditUsers

(* The entries of every user that are of the same second are deleted.      *)
RemoveEntries(d) ==
  \E at \in [UserIds -> 0 .. MaxEntries] :
    /\ \A u \in UserIds : at[u] \in ByHand(u, d) \cup {0}
    /\ \E u \in UserIds : at[u] # 0
    /\ ledger' = [u \in UserIds |->
                    IF at[u] = 0 THEN ledger[u]
                    ELSE [ledger[u] EXCEPT ![d] = RemoveAt(@, at[u])]]
    /\ corrected' = [u \in UserIds |-> IF at[u] = 0 THEN corrected[u] ELSE Corrected(u, d)[u]]
    /\ EditUsers /\ UNCHANGED users

(* POST /clients/history/delete-all                                        *)
DeleteHistory(u) ==
  /\ ledger' = [ledger EXCEPT ![u] = [d \in Days |-> <<>>]]
  /\ corrected' = [corrected EXCEPT ![u] = today]
  /\ EditUsers /\ UNCHANGED users

(* POST /clients/delete-all: first the users, then the ledger.             *)
DeleteUsers ==
  /\ users' = [u \in UserIds |-> NoUser]
  /\ corrected' = [u \in UserIds |-> today]
  /\ EditUsers /\ UNCHANGED ledger

DeleteLedgers ==
  /\ ledger' = [u \in UserIds |-> [d \in Days |-> <<>>]]
  /\ corrected' = [u \in UserIds |-> today]
  /\ EditUsers /\ UNCHANGED users

----------------------------------------------------------------------------
(* The checks.                                                             *)

(* findProduct: the products of the kind of card that was used with the    *)
(* transaction's code and account; the first counts.                       *)
Products(m, u) ==
  {i \in DOMAIN u.products[m.cardType] :
     LET p == u.products[m.cardType][i]
     IN  p.code = m.productCode /\ p.accountId = m.accountId}

Product(m, u) == u.products[m.cardType][Min(Products(m, u))]

(* The offer's products with the code of the client's; the first counts.   *)
EligibleProducts(c, product) ==
  {i \in DOMAIN c.eligibleProducts : c.eligibleProducts[i].code = product.code}

EligibleProduct(c, product) == c.eligibleProducts[Min(EligibleProducts(c, product))]

StartedAlready(m, c) == c.wasActive /\ c.isRedeemable /\ c.validFromDate <= m.date

WithinRedemptionPeriod(m, c) ==
  c.wasActive /\ c.isRedeemable /\ c.validFromDate <= m.date /\ m.date <= c.validToDate

NotBlacklisted(u) == ~u.isBlacklisted

KnownCard(m) == m.cardType \in CardTypes

HasProduct(m, u) == KnownCard(m) /\ Products(m, u) # {}

NotBlocked(m, u) == HasProduct(m, u) /\ Product(m, u).isEligible = "1"

AcceptsOwnership(m, c, u) ==
  c.redemptionBasedOn = "ProductOwnership" =>
    LET product == Product(m, u)
    IN  /\ EligibleProducts(c, product) # {}
        /\ product.ownershipType \in EligibleProduct(c, product).redeemable

AcceptsOptIn(m, c, u) ==
  c.redemptionBasedOn = "OptInFile" =>
    \E r \in u.optInFileOffers :
      /\ c.id \in r.offers
      /\ r.tsysAccountId = m.accountId
      /\ m.cardType = "credit" => r.tsysCustomerId = m.tsysCustomerId

Check(passes, status) == [passes |-> passes, status |-> status]

(* The first check that fails gives its status; "throws" stands for an     *)
(* exception.                                                              *)
FirstFailed(checks) ==
  LET failed == {k \in DOMAIN checks : ~checks[k].passes}
  IN  IF failed = {} THEN "none" ELSE checks[Min(failed)].status

ChecksOfTheUser(m, c, u) ==
  << Check(WithinRedemptionPeriod(m, c), "OfferNotWithinRedemptionPeriod"),
     Check(NotBlacklisted(u), "ClientBlacklisted"),
     Check(KnownCard(m), "throws"),
     Check(HasProduct(m, u), "UserProductForOfferNotFound"),
     Check(NotBlocked(m, u), "ProductHasBlockCode") >>

LastChecks(m, c, u) ==
  << Check(AcceptsOwnership(m, c, u),
           IF m.cardType = "credit" THEN "CreditCardOwnerNotAuthorized"
                                    ELSE "DebitCardOwnerNotAuthorized"),
     Check(AcceptsOptIn(m, c, u), "ClientNotInOptInFile") >>

(* OfferLinking.shouldCheckLinkingToPrimary: an authorized user may redeem *)
(* an offer that only the primary owner was shown.  A product the offer    *)
(* does not have makes it throw.                                           *)
AsksForPrimary(c, product) ==
  /\ c.redemptionBasedOn = "ProductOwnership"
  /\ product.ownershipType = "AuthorizedUser"

LinkingThrows(m, c, u) ==
  LET product == Product(m, u)
  IN  AsksForPrimary(c, product) /\ EligibleProducts(c, product) = {}

ChecksPrimary(c, product) ==
  /\ AsksForPrimary(c, product)
  /\ LET e == EligibleProduct(c, product)
     IN  /\ "AuthorizedUser" \in e.redeemable
         /\ "Primary" \in e.presentable /\ "AuthorizedUser" \notin e.presentable

LinkedUser(m, c, u) ==
  LET product == Product(m, u)
  IN  IF ChecksPrimary(c, product) THEN product.primaryAccountHashSRF ELSE m.userId

Entry(u, date) == IF u \in UserIds THEN StateAtDate(ledger[u], date) ELSE {}

IsTargeted(m, c) == \E e \in Entry(m.userId, m.date) : c.id \in e.targeted

IsLinked(m, c, u) == \E e \in Entry(LinkedUser(m, c, u), m.date) : c.id \in e.linked

SameLimit(m, n, c) ==
  /\ m.userId = n.userId /\ m.rebateCriteriaId = n.rebateCriteriaId
  /\ c.redemptionLimitType = "per card" => m.card = n.card

RebatesForLimit(m, c) == {b \in rebates : SameLimit(b.row, m, c)}

CanBeRedeemed(m, c) ==
  Cardinality(RebatesForLimit(m, c)) < c.redemptionLimit \/ c.redemptionLimit = 0

NotUsed(m) == \A b \in rebates : b.row.transactionId # m.transactionId

----------------------------------------------------------------------------
(* The strategy.                                                           *)

Release ==
  /\ pc' = "idle" /\ current' = NoRow /\ criteria' = NoOffer /\ user' = NoUser
  /\ verdict' = "none"

GoTo(stage) == pc' = stage /\ UNCHANGED <<current, criteria, user, verdict>>

Decide(status) == pc' = "mark" /\ verdict' = status /\ UNCHANGED <<current, criteria, user>>

Fault == faults + edits < MaxDisturbances /\ faults' = faults + 1

(* An exception is logged, and the row stays as it is; so does the death   *)
(* of the process leave it.                                                *)
Throw == pc # "idle" /\ Fault /\ Release /\ UNCHANGED <<world, rowStatus, rebates, asked>>

FindCriteria(m) ==
  /\ pc = "idle"
  /\ rowStatus[m] = "Pending"
  /\ current' = m
  /\ takenOn' = [takenOn EXCEPT ![m] = today] /\ unanswered' = unanswered \ {m}
  /\ criteria' = offers[m.rebateCriteriaId]
  /\ IF offers[m.rebateCriteriaId] = NoOffer
     THEN pc' = "mark" /\ verdict' = "OfferNotFound"
     ELSE pc' = "findUser" /\ UNCHANGED verdict
  /\ UNCHANGED <<world, rowStatus, rebates, faults, user>>

(* findUser and the checks up to the block code.  A card that is neither a *)
(* credit nor a debit card leaves the row pending.                         *)
FindUser ==
  /\ pc = "findUser"
  /\ \/ users[current.userId] = NoUser /\ Decide("CannotFindClient")
     \/ /\ users[current.userId] # NoUser
        /\ \E failed \in {FirstFailed(ChecksOfTheUser(current, criteria, users[current.userId]))} :
             \/ failed \notin {"none", "throws"} /\ Decide(failed)
             \/ failed = "throws" /\ Release
             \/ /\ failed = "none"
                /\ user' = users[current.userId] /\ pc' = "targeting"
                /\ UNCHANGED <<current, criteria, verdict>>
  /\ UNCHANGED <<world, rowStatus, rebates, asked, faults>>

(* OfferTargeting looks for the user once more.  Whatever is thrown while  *)
(* the ledger is read, the client counts as one who is not targeted.       *)
AsksForTargeting(c) == c.requiresCustomerToBeTargeted /\ c.redemptionBasedOn # "OptInFile"

Targeting ==
  /\ pc = "targeting"
  /\ \/ /\ ~AsksForTargeting(criteria)
        /\ GoTo("linking") /\ UNCHANGED <<unanswered, faults>>
     \/ /\ AsksForTargeting(criteria) /\ users[current.userId] = NoUser
        /\ Decide("ClientIsNotTargeted") /\ UNCHANGED <<unanswered, faults>>
     \/ /\ AsksForTargeting(criteria) /\ users[current.userId] # NoUser
        /\ IF IsTargeted(current, criteria) THEN GoTo("linking") ELSE Decide("ClientIsNotTargeted")
        /\ UNCHANGED <<unanswered, faults>>
     \/ /\ AsksForTargeting(criteria) /\ users[current.userId] # NoUser
        /\ Decide("ClientIsNotTargeted")
        /\ Fault /\ unanswered' = unanswered \cup {current}
  /\ UNCHANGED <<world, rowStatus, rebates, takenOn>>

(* OfferLinking does the same, but for what throws before it reads.        *)
Linking ==
  /\ pc = "linking"
  /\ \/ ~criteria.requiresCustomerToBeLinked /\ GoTo("limit") /\ UNCHANGED faults
     \/ /\ criteria.requiresCustomerToBeLinked
        /\ ~LinkingThrows(current, criteria, user)
        /\ IF IsLinked(current, criteria, user) THEN GoTo("limit") ELSE Decide("ClientIsNotLinked")
        /\ UNCHANGED faults
     \/ /\ criteria.requiresCustomerToBeLinked
        /\ ~LinkingThrows(current, criteria, user)
        /\ Decide("ClientIsNotLinked")
        /\ Fault
     \/ /\ criteria.requiresCustomerToBeLinked
        /\ LinkingThrows(current, criteria, user)
        /\ Release /\ UNCHANGED faults
  /\ UNCHANGED <<world, rowStatus, rebates, asked>>

CheckLimit ==
  /\ pc = "limit"
  /\ IF CanBeRedeemed(current, criteria)
     THEN GoTo("used")
     ELSE Decide(IF criteria.redemptionLimitType = "per card" THEN "ClientReachedCardRedLimit"
                                                     ELSE "ClientReachedOverallRedLimit")
  /\ UNCHANGED <<world, rowStatus, rebates, asked, faults>>

Reward == Interpretation(criteria)

(* TransactionUsed, then ownership, opt-in file and the calculation.       *)
CheckUsed ==
  /\ pc = "used"
  /\ LET failed == FirstFailed(LastChecks(current, criteria, user))
     IN  CASE ~NotUsed(current) -> Decide("QualifiedTransUsedAlready")
           [] NotUsed(current) /\ failed # "none" -> Decide(failed)
           [] NotUsed(current) /\ failed = "none" /\ Calculation(current, Reward) = 0
                -> Decide("RebateNotDue")
           [] OTHER -> Decide("RebateCreated")
  /\ UNCHANGED <<world, rowStatus, rebates, asked, faults>>

MarkIssuedOnly ==
  /\ pc = "mark"
  /\ \/ /\ verdict = "RebateCreated" /\ GoTo("insert")
        /\ rowStatus' = [rowStatus EXCEPT ![current] = verdict]
     \/ verdict # "RebateCreated" /\ Release /\ UNCHANGED rowStatus
  /\ UNCHANGED <<world, rebates, asked, faults>>

(* markAsProcessed, whose exceptions are swallowed.                        *)
MarkAsProcessed ==
  /\ pc = "mark"
  /\ \/ rowStatus' = [rowStatus EXCEPT ![current] = verdict] /\ UNCHANGED faults
     \/ Fault /\ UNCHANGED rowStatus
  /\ \/ verdict = "RebateCreated" /\ GoTo("insert")
     \/ verdict # "RebateCreated" /\ Release
  /\ UNCHANGED <<world, rebates, asked>>

(* The row of rebates: what the property needs of its columns, and what    *)
(* was decided with.                                                       *)
IssuedRebate ==
  [row |-> current, amount |-> Rounded(Calculation(current, Reward), Reward),
   rewardType |-> Reward.unit,
   criteria |-> criteria, user |-> user, takenOn |-> takenOn[current]]

(* PendingRebateIssuance                                                   *)
IssueRebate ==
  /\ pc = "insert"
  /\ rebates' = rebates \cup {IssuedRebate}
  /\ Release
  /\ UNCHANGED <<world, rowStatus, asked, faults>>

Step ==
  \/ FindUser \/ Targeting \/ Linking \/ CheckLimit \/ CheckUsed
  \/ MarkAsProcessed \/ IssueRebate

Next ==
  \/ NextDay
  \/ \E v \in OfferEvents : ReceiveOffer(v)
  \/ \E v \in EnteredOffers : EnterOffer(v)
  \/ DeleteOffers
  \/ \E v \in UserEvents : ReceiveUser(v)
  \/ \E v \in EnteredUsers : EnterUser(v) \/ RecordByHand(v)
  \/ \E u \in UserIds : CopyEntry(u) \/ DeleteHistory(u)
  \/ \E d \in Days : RemoveEntries(d)
  \/ DeleteUsers \/ DeleteLedgers
  \/ \E m \in Rows : Arrive(m) \/ FindCriteria(m)
  \/ Step
  \/ Throw

Spec == Init /\ [][Next]_vars

(* Every run takes every pending row, and finishes what it takes.          *)
Fairness == WF_vars(Step) /\ \A m \in Rows : SF_vars(FindCriteria(m))

FairSpec == Spec /\ Fairness

----------------------------------------------------------------------------
Statuses ==
  {"OfferNotFound", "CannotFindClient", "OfferNotWithinRedemptionPeriod", "ClientBlacklisted",
   "UserProductForOfferNotFound", "ProductHasBlockCode", "ClientIsNotTargeted",
   "ClientIsNotLinked", "ClientReachedCardRedLimit", "ClientReachedOverallRedLimit",
   "QualifiedTransUsedAlready", "CreditCardOwnerNotAuthorized", "DebitCardOwnerNotAuthorized",
   "ClientNotInOptInFile", "RebateNotDue", "RebateCreated"}

(* Every variable has the type its comment gives.                          *)
TypeOK ==
  /\ today \in Days
  /\ offers \in CriteriaTable
  /\ users \in [UserIds -> Users \cup {NoUser}]
  /\ ledger \in [UserIds -> Histories]
  /\ rowStatus \in [Rows -> Statuses \cup {"none", "Pending"}]
  /\ \A b \in rebates : b.row \in Rows /\ b.amount \in Int /\ b.takenOn \in Days
  /\ faults \in 0 .. MaxDisturbances /\ edits \in 0 .. MaxDisturbances
  /\ pc \in {"idle", "findUser", "targeting", "linking", "limit", "used", "mark", "insert"}
  /\ current \in Rows \cup {NoRow}
  /\ criteria \in Offers \cup {NoOffer}
  /\ user \in Users \cup {NoUser}
  /\ verdict \in Statuses \cup {"none"}
  /\ takenOn \in [Rows -> 0 .. LastDay] /\ unanswered \subseteq Rows
  /\ corrected \in [UserIds -> 0 .. LastDay]

(* What README and tests ask of a transaction that earns a rebate, as one  *)
(* condition: the offer was on, the client is not blacklisted and used an  *)
(* unblocked product of theirs, which the offer allows, or is in the file. *)
Deserves(m, c, u) ==
  /\ c.isRedeemable /\ c.wasActive
  /\ m.date \in c.validFromDate .. c.validToDate
  /\ ~u.isBlacklisted
  /\ \E i \in DOMAIN u.products[m.cardType] :
       LET p == u.products[m.cardType][i]
       IN  /\ p.code = m.productCode /\ p.accountId = m.accountId /\ p.isEligible = "1"
           /\ c.redemptionBasedOn = "ProductOwnership" =>
                \E j \in DOMAIN c.eligibleProducts :
                  /\ c.eligibleProducts[j].code = p.code
                  /\ p.ownershipType \in c.eligibleProducts[j].redeemable
  /\ c.redemptionBasedOn = "OptInFile" =>
       \E r \in u.optInFileOffers : c.id \in r.offers /\ r.tsysAccountId = m.accountId

(* Every rebate was deserved, by an offer and a user that were stored.     *)
RebatesAreDeserved ==
  \A b \in rebates :
    b.criteria \in Offers /\ b.user \in Users /\ Deserves(b.row, b.criteria, b.user)

TargetedIfRequired(m, c) == AsksForTargeting(c) => IsTargeted(m, c)

LinkedIfRequired(m, c, u) == c.requiresCustomerToBeLinked => IsLinked(m, c, u)

NotTargeted(m) == \A e \in Entry(m.userId, m.date) : m.rebateCriteriaId \notin e.targeted

(* No web page changed the past of the user on that day or later.          *)
UncorrectedSince(u, day) == u \in UserIds => corrected[u] < day

(* "who have been targeted to the offer by the transaction date", "who     *)
(* have been linked ..." (targeted_rebates.spec, linked_rebates.spec): for *)
(* a row that is handled after its day, what the ledger says of that day   *)
(* decides, whatever is written later and however often the row is tried:  *)
(* of its client, and of the primary owner where it asks for that one.     *)
(* The web pages may change the past, and a client may be refused whose    *)
(* ledger could not be read; else what decided is still there to be read.  *)
SettledDaysDecide ==
  /\ \A b \in rebates :
       b.takenOn > b.row.date =>
         /\ UncorrectedSince(b.row.userId, b.takenOn) => TargetedIfRequired(b.row, b.criteria)
         /\ UncorrectedSince(LinkedUser(b.row, b.criteria, b.user), b.takenOn) =>
              LinkedIfRequired(b.row, b.criteria, b.user)
  /\ \A m \in Rows \ unanswered :
       /\ rowStatus[m] = "ClientIsNotTargeted"
       /\ takenOn[m] > m.date /\ UncorrectedSince(m.userId, takenOn[m])
       => NotTargeted(m)

(* What the terms of an offer promise, in millionths.                      *)
Promise(m, c) ==
  CASE c.benefit = "DollarsOff" -> 100 * c.rebateAmount
    [] c.benefit = "PercentageOffForDollars" -> c.rebateAmount * m.amount
    [] c.benefit = "PointsTopUp" -> 100 * c.rebateAmount
    [] c.benefit = "MultiplierForPoints" -> 100 * c.rebateAmount * m.basePoints

(* "calculates a rebate with a percentage discount", "calculates a point   *)
(* multiplier" and their like (calculating_rebates.spec): what is exported *)
(* for a rebate is what the offer promises, to the nearest cent or point   *)
(* (which may be zero), and half a unit is rounded away from zero.  An     *)
(* amount below zero, which only the web page takes, is charged.           *)
PaidAsPromised ==
  \A b \in rebates :
    LET promise == Promise(b.row, b.criteria)
        paid == 10000 * Exported(b.amount, b.rewardType)
        step == IF b.criteria.benefit \in DollarBenefits THEN 10000 ELSE 1000000
    IN  /\ promise # 0
        /\ promise > 0 => 2 * paid - step <= 2 * promise /\ 2 * promise < 2 * paid + step
        /\ promise < 0 => 2 * paid - step < 2 * promise /\ 2 * promise <= 2 * paid + step
        /\ (b.rewardType = "dollars") = (b.criteria.benefit \in DollarBenefits)

(* A row on which the linking check throws, its product not being one of   *)
(* the offer's, or its unknown card, with what is stored now.              *)
ThrowsNow(m) ==
  LET c == offers[m.rebateCriteriaId]
      u == users[m.userId]
  IN  \/ ~KnownCard(m)
      \/ /\ c # NoOffer /\ u # NoUser
         /\ c.requiresCustomerToBeLinked /\ c.redemptionBasedOn = "ProductOwnership"
         /\ \A i \in DOMAIN c.eligibleProducts : c.eligibleProducts[i].code # m.productCode
         /\ Products(m, u) # {} /\ Product(m, u).ownershipType = "AuthorizedUser"

(* "Scans for unprocessed transactions and processes them"                 *)
(* (TransactionProcessing): whatever throws or dies on the way, a row that *)
(* waits is decided, unless offer and user come to be such that it throws. *)
EveryRowDecided ==
  \A m \in Rows : rowStatus[m] = "Pending" ~> rowStatus[m] # "Pending" \/ ThrowsNow(m)

----------------------------------------------------------------------------
(* The inductive invariant: what was checked still holds.                  *)

Cleared(stages) ==
  \/ pc \in stages \cup {"insert"}
  \/ pc = "mark" /\ verdict = "RebateCreated"

StoredUnderTheirIds == \A o \in OfferIds : offers[o] # NoOffer => offers[o].id = o

(* The days that decide are over when a row is taken later than its own.   *)
TakenByNow ==
  /\ \A b \in rebates : b.takenOn <= today
  /\ \A m \in Rows : takenOn[m] <= today
  /\ \A u \in UserIds : corrected[u] <= today
  /\ pc # "idle" => takenOn[current] \in Days

(* A user who was found is there until all are deleted.                    *)
FoundUnlessDeleted ==
  pc = "targeting" /\ users[current.userId] = NoUser =>
    ~UncorrectedSince(current.userId, takenOn[current])

(* What the strategy has cached passed the checks up to the block code.    *)
CachedPasses ==
  /\ pc # "idle" => current \in Rows
  /\ pc = "mark" => verdict \in Statuses
  /\ pc \notin {"idle", "mark"} => criteria \in Offers /\ criteria.id = current.rebateCriteriaId
  /\ Cleared({"targeting", "linking", "limit", "used"}) =>
       /\ criteria \in Offers /\ user \in Users
       /\ criteria.id = current.rebateCriteriaId
       /\ FirstFailed(ChecksOfTheUser(current, criteria, user)) = "none"
  /\ Cleared({}) => FirstFailed(LastChecks(current, criteria, user)) = "none"

(* What the ledger said of a day that is over, it still says.              *)
LedgerStillSays ==
  pc # "idle" /\ takenOn[current] > current.date =>
    /\ UncorrectedSince(current.userId, takenOn[current]) =>
         /\ Cleared({"linking", "limit", "used"}) => TargetedIfRequired(current, criteria)
         /\ pc = "mark" /\ verdict = "ClientIsNotTargeted" /\ current \notin unanswered =>
              NotTargeted(current)
    /\ Cleared({"limit", "used"}) =>
         (UncorrectedSince(LinkedUser(current, criteria, user), takenOn[current]) =>
            LinkedIfRequired(current, criteria, user))

(* A row whose rebate would be nothing was refused.                        *)
AmountIsDue == Cleared({}) => Calculation(current, Reward) # 0

IInv ==
  /\ TypeOK
  /\ StoredUnderTheirIds
  /\ TakenByNow
  /\ FoundUnlessDeleted
  /\ CachedPasses
  /\ LedgerStillSays
  /\ RebatesAreDeserved
  /\ SettledDaysDecide
=============================================================================
