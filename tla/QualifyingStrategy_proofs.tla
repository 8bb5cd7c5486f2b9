---------------------- MODULE QualifyingStrategy_proofs ----------------------
(***************************************************************************)
(* For any rows, offers, users and days: the types, that every rebate was  *)
(* deserved, that what the ledger says of a day that is over decides, and  *)
(* that a rebate is worth what its offer promised.                         *)
(*                                                                         *)
(* The strategy works with what it has cached, so each check it passed     *)
(* holds until the rebate is issued (CachedPasses).  The trigger and the   *)
(* listener only write entries of today, and whatever the web pages do to  *)
(* an earlier day is told by "corrected": but for that, what the ledger    *)
(* says of a day that is over stays (Settled), hence what was read of it   *)
(* is still true when the row is marked (LedgerStillSays).                 *)
(* The row of rebates keeps what was calculated for it, so there the proof *)
(* is one about the four kinds of benefits and the rounding.               *)
(***************************************************************************)
EXTENDS QualifyingStrategy, SequenceTheorems, WellFoundedInduction, TLAPS

USE DEF CriteriaTable, IssuedRebate

----------------------------------------------------------------------------
(* Operators.                                                              *)

LEMMA LessIsWellFounded ==
  \E R : /\ IsWellFoundedOn(R, Nat)
         /\ \A x \in Nat : \A y \in Nat : y < x => <<y, x>> \in R
<1>1. \A x \in Nat : \A y \in Nat : y < x => <<y, x>> \in OpToRel(<, Nat)
  BY DEF OpToRel
<1> QED
  BY <1>1, NatLessThanWellFounded, Zenon

(* A set of numbers that is not empty has a least one.                     *)
LEMMA MinIn ==
  ASSUME NEW S \in SUBSET Nat, S # {}
  PROVE  Min(S) \in S
<1>1. PICK R : /\ IsWellFoundedOn(R, Nat)
               /\ \A x \in Nat : \A y \in Nat : y < x => <<y, x>> \in R
  BY LessIsWellFounded
<1>2. PICK x \in S : \A y \in S : ~(<<y, x>> \in R)
  BY <1>1, WFMin
<1>3. ASSUME NEW y \in S PROVE x <= y
  <2>1. x \in Nat /\ y \in Nat /\ ~(y < x)
    BY <1>1, <1>2
  <2> QED
    BY <2>1
<1> QED
  BY <1>3 DEF Min

(* If no check failed each passes, and otherwise the status is of one.     *)
LEMMA FirstFailedIs ==
  ASSUME NEW checks, NEW n \in Nat, DOMAIN checks = 1 .. n,
         \A k \in 1 .. n : checks[k].status # "none"
  PROVE  /\ FirstFailed(checks) = "none" => \A k \in 1 .. n : checks[k].passes
         /\ FirstFailed(checks) # "none" =>
              \E k \in 1 .. n : FirstFailed(checks) = checks[k].status
<1> DEFINE failed == {k \in DOMAIN checks : ~checks[k].passes}
<1>1. failed \subseteq Nat /\ failed \subseteq 1 .. n
  OBVIOUS
<1>2. failed # {} => Min(failed) \in failed
  BY <1>1, MinIn
<1>3. FirstFailed(checks) = IF failed = {} THEN "none" ELSE checks[Min(failed)].status
  BY DEF FirstFailed
<1> HIDE DEF failed
<1>4. CASE failed = {}
  BY <1>3, <1>4 DEF failed
<1>5. CASE failed # {}
  BY <1>1, <1>2, <1>3, <1>5
<1> QED
  BY <1>4, <1>5

UserStatuses ==
  {"OfferNotWithinRedemptionPeriod", "ClientBlacklisted", "throws",
   "UserProductForOfferNotFound", "ProductHasBlockCode"}

LEMMA ChecksOfTheUserPass ==
  ASSUME NEW m, NEW c, NEW u
  PROVE  /\ FirstFailed(ChecksOfTheUser(m, c, u)) = "none" =>
              /\ WithinRedemptionPeriod(m, c)
              /\ NotBlacklisted(u)
              /\ NotBlocked(m, u)
         /\ FirstFailed(ChecksOfTheUser(m, c, u)) \in UserStatuses \cup {"none"}
<1> DEFINE checks == ChecksOfTheUser(m, c, u)
<1>1. /\ DOMAIN checks = 1 .. 5
      /\ checks[1] = Check(WithinRedemptionPeriod(m, c), "OfferNotWithinRedemptionPeriod")
      /\ checks[2] = Check(NotBlacklisted(u), "ClientBlacklisted")
      /\ checks[3] = Check(KnownCard(m), "throws")
      /\ checks[4] = Check(HasProduct(m, u), "UserProductForOfferNotFound")
      /\ checks[5] = Check(NotBlocked(m, u), "ProductHasBlockCode")
  BY DEF ChecksOfTheUser
<1> HIDE DEF checks
<1>2. \A k \in 1 .. 5 : checks[k].status \in UserStatuses /\ checks[k].status # "none"
  BY <1>1 DEF Check, UserStatuses
<1>3. /\ FirstFailed(checks) = "none" => \A k \in 1 .. 5 : checks[k].passes
      /\ FirstFailed(checks) # "none" => \E k \in 1 .. 5 : FirstFailed(checks) = checks[k].status
  BY <1>1, <1>2, FirstFailedIs
<1>4. FirstFailed(checks) = "none" =>
        WithinRedemptionPeriod(m, c) /\ NotBlacklisted(u) /\ NotBlocked(m, u)
  BY <1>1, <1>3 DEF Check
<1> QED
  BY <1>2, <1>3, <1>4 DEF checks

LastStatuses ==
  {"CreditCardOwnerNotAuthorized", "DebitCardOwnerNotAuthorized", "ClientNotInOptInFile"}

LEMMA LastChecksPass ==
  ASSUME NEW m, NEW c, NEW u
  PROVE  /\ FirstFailed(LastChecks(m, c, u)) = "none" =>
              AcceptsOwnership(m, c, u) /\ AcceptsOptIn(m, c, u)
         /\ FirstFailed(LastChecks(m, c, u)) \in LastStatuses \cup {"none"}
<1> DEFINE checks == LastChecks(m, c, u)
           owner == IF m.cardType = "credit" THEN "CreditCardOwnerNotAuthorized"
                                             ELSE "DebitCardOwnerNotAuthorized"
<1>1. /\ DOMAIN checks = 1 .. 2
      /\ checks[1] = Check(AcceptsOwnership(m, c, u), owner)
      /\ checks[2] = Check(AcceptsOptIn(m, c, u), "ClientNotInOptInFile")
  BY DEF LastChecks
<1>2. owner \in LastStatuses
  BY DEF LastStatuses
<1> HIDE DEF checks, owner
<1>3. \A k \in 1 .. 2 : checks[k].status \in LastStatuses /\ checks[k].status # "none"
  BY <1>1, <1>2 DEF Check, LastStatuses
<1>4. /\ FirstFailed(checks) = "none" => \A k \in 1 .. 2 : checks[k].passes
      /\ FirstFailed(checks) # "none" => \E k \in 1 .. 2 : FirstFailed(checks) = checks[k].status
  BY <1>1, <1>3, FirstFailedIs
<1>5. FirstFailed(checks) = "none" => AcceptsOwnership(m, c, u) /\ AcceptsOptIn(m, c, u)
  BY <1>1, <1>4 DEF Check
<1> QED
  BY <1>3, <1>4, <1>5 DEF checks

(* The checks in the order of the code add up to the condition that is     *)
(* asked for.                                                              *)
LEMMA PassedIsDeserved ==
  ASSUME NEW m \in Rows, NEW c \in Offers, NEW u \in Users,
         FirstFailed(ChecksOfTheUser(m, c, u)) = "none", FirstFailed(LastChecks(m, c, u)) = "none"
  PROVE  Deserves(m, c, u)
<1>1. /\ WithinRedemptionPeriod(m, c) /\ NotBlacklisted(u) /\ NotBlocked(m, u)
      /\ KnownCard(m) /\ Products(m, u) # {}
      /\ AcceptsOwnership(m, c, u) /\ AcceptsOptIn(m, c, u)
  BY ChecksOfTheUserPass, LastChecksPass DEF NotBlocked, HasProduct
<1>2. c.isRedeemable /\ c.wasActive /\ m.date \in c.validFromDate .. c.validToDate
  BY <1>1, ConstantsAssumption DEF WithinRedemptionPeriod, Days
<1>3. Min(Products(m, u)) \in Products(m, u)
  <2>1. Products(m, u) \subseteq Nat
    BY <1>1, ConstantsAssumption DEF KnownCard, Products
  <2> QED
    BY <1>1, <2>1, MinIn
<1>4. c.redemptionBasedOn = "ProductOwnership" =>
        \E j \in DOMAIN c.eligibleProducts :
          /\ c.eligibleProducts[j].code = Product(m, u).code
          /\ Product(m, u).ownershipType \in c.eligibleProducts[j].redeemable
  <2> SUFFICES ASSUME c.redemptionBasedOn = "ProductOwnership"
               PROVE  \E j \in DOMAIN c.eligibleProducts :
                        /\ c.eligibleProducts[j].code = Product(m, u).code
                        /\ Product(m, u).ownershipType \in c.eligibleProducts[j].redeemable
    OBVIOUS
  <2> DEFINE eligible == EligibleProducts(c, Product(m, u))
  <2>1. eligible # {} /\ Product(m, u).ownershipType \in c.eligibleProducts[Min(eligible)].redeemable
    BY <1>1 DEF AcceptsOwnership, EligibleProduct
  <2>2. eligible \subseteq Nat
    BY ConstantsAssumption DEF EligibleProducts
  <2>3. Min(eligible) \in eligible
    BY <2>1, <2>2, MinIn
  <2> QED
    BY <2>1, <2>3 DEF EligibleProducts
<1>5. \E i \in DOMAIN u.products[m.cardType] :
        LET p == u.products[m.cardType][i]
        IN  /\ p.code = m.productCode /\ p.accountId = m.accountId /\ p.isEligible = "1"
            /\ c.redemptionBasedOn = "ProductOwnership" =>
                 \E j \in DOMAIN c.eligibleProducts :
                   /\ c.eligibleProducts[j].code = p.code
                   /\ p.ownershipType \in c.eligibleProducts[j].redeemable
  BY <1>1, <1>3, <1>4 DEF Products, Product, NotBlocked
<1>6. c.redemptionBasedOn = "OptInFile" =>
        \E r \in u.optInFileOffers : c.id \in r.offers /\ r.tsysAccountId = m.accountId
  BY <1>1 DEF AcceptsOptIn
<1> QED
  BY <1>1, <1>2, <1>5, <1>6 DEF Deserves, NotBlacklisted

----------------------------------------------------------------------------
(* Types.                                                                  *)

LEMMA NoHistory == [d \in Days |-> <<>>] \in Histories
<1>1. <<>> \in Seq(Entries)
  OBVIOUS
<1> QED
  BY <1>1 DEF Histories

LEMMA InitInv == Init => IInv
<1> SUFFICES ASSUME Init PROVE IInv
  OBVIOUS
<1>1. TypeOK
  BY NoHistory, ConstantsAssumption DEF Init, TypeOK, Days
<1>2. /\ StoredUnderTheirIds /\ TakenByNow /\ FoundUnlessDeleted /\ CachedPasses
      /\ LedgerStillSays /\ RebatesAreDeserved /\ SettledDaysDecide
  BY DEF Init, StoredUnderTheirIds, TakenByNow, FoundUnlessDeleted, CachedPasses,
         LedgerStillSays, Cleared, RebatesAreDeserved, SettledDaysDecide
<1> QED
  BY <1>1, <1>2 DEF IInv

LEMMA FaultType == TypeOK /\ Fault => faults' \in 0 .. MaxDisturbances
BY ConstantsAssumption DEF TypeOK, Fault

LEMMA PartType ==
  ASSUME NEW S, NEW s \in Seq(S), NEW i \in Nat, NEW j \in Int, i >= 1, j <= Len(s)
  PROVE  SubSeq(s, i, j) \in Seq(S)
<1>1. i \in Int /\ j \in Int /\ \A k \in i .. j : s[k] \in S
  OBVIOUS
<1> QED
  BY <1>1, SubSeqProperties, Zenon

LEMMA InsertType ==
  ASSUME NEW S, NEW s \in Seq(S), NEW e \in S, NEW i \in 1 .. Len(s) + 1
  PROVE  InsertAt(s, i, e) \in Seq(S)
<1>1. /\ Len(s) \in Nat /\ i \in Nat /\ i >= 1 /\ i - 1 \in Int /\ i - 1 <= Len(s)
      /\ 1 \in Nat /\ 1 >= 1 /\ Len(s) \in Int /\ Len(s) <= Len(s)
  OBVIOUS
<1>2. SubSeq(s, 1, i - 1) \in Seq(S) /\ SubSeq(s, i, Len(s)) \in Seq(S) /\ <<e>> \in Seq(S)
  BY <1>1, PartType
<1>3. SubSeq(s, 1, i - 1) \o <<e>> \in Seq(S)
  BY <1>2, ConcatProperties
<1> QED
  BY <1>2, <1>3, ConcatProperties DEF InsertAt

LEMMA RemoveType ==
  ASSUME NEW S, NEW s \in Seq(S), NEW i \in 1 .. Len(s)
  PROVE  RemoveAt(s, i) \in Seq(S)
<1>1. /\ Len(s) \in Nat /\ i + 1 \in Nat /\ i + 1 >= 1 /\ i - 1 \in Int /\ i - 1 <= Len(s)
      /\ 1 \in Nat /\ 1 >= 1 /\ Len(s) \in Int /\ Len(s) <= Len(s)
  OBVIOUS
<1>2. SubSeq(s, 1, i - 1) \in Seq(S) /\ SubSeq(s, i + 1, Len(s)) \in Seq(S)
  BY <1>1, PartType
<1> QED
  BY <1>2, ConcatProperties DEF RemoveAt

(* What the trigger writes is of today.                                    *)
LEMMA RecordedType ==
  ASSUME TypeOK, NEW history \in Histories, NEW v \in Users, NEW new \in Recorded(history, v)
  PROVE  /\ new \in Histories
         /\ \A d \in Days : d # today => new[d] = history[d]
<1> DEFINE entry == EntryOf(v, FALSE)
<1>1. entry \in Entries
  BY DEF EntryOf, Entries
<1>2. today \in Days /\ history[today] \in Seq(Entries)
  BY DEF TypeOK, Histories
<1> HIDE DEF entry
<1>3. \/ new = history
      \/ \E i \in 1 .. Len(history[today]) + 1 :
           new = [history EXCEPT ![today] = InsertAt(@, i, entry)]
  BY DEF Recorded, entry
<1>4. \A i \in 1 .. Len(history[today]) + 1 : InsertAt(history[today], i, entry) \in Seq(Entries)
  BY <1>1, <1>2, InsertType
<1> QED
  BY <1>2, <1>3, <1>4 DEF Histories

LEMMA StoreUserIs ==
  ASSUME TypeOK, NEW v \in Users, StoreUser(v)
  PROVE  /\ users' \in [UserIds -> Users \cup {NoUser}]
         /\ ledger' \in [UserIds -> Histories]
         /\ \A u \in UserIds : users'[u] = NoUser => users[u] = NoUser
         /\ \A u \in UserIds, d \in Days : d # today => ledger'[u][d] = ledger[u][d]
<1>1. v.id \in UserIds /\ ledger[v.id] \in Histories
  BY DEF UserIds, TypeOK
<1>2. /\ users' \in [UserIds -> Users \cup {NoUser}]
      /\ \A u \in UserIds : users'[u] = NoUser => users[u] = NoUser
  BY <1>1, ConstantsAssumption DEF StoreUser, TypeOK
<1>3. CASE UNCHANGED ledger
  BY <1>2, <1>3 DEF TypeOK
<1>4. ASSUME NEW history \in Recorded(ledger[v.id], v),
             ledger' = [ledger EXCEPT ![v.id] = history]
      PROVE  /\ ledger' \in [UserIds -> Histories]
             /\ \A u \in UserIds, d \in Days : d # today => ledger'[u][d] = ledger[u][d]
  <2>1. history \in Histories /\ \A d \in Days : d # today => history[d] = ledger[v.id][d]
    BY <1>1, RecordedType
  <2> QED
    BY <1>1, <1>4, <2>1 DEF TypeOK
<1> QED
  BY <1>2, <1>3, <1>4 DEF StoreUser

WebPages ==
  \/ \E v \in EnteredUsers : EnterUser(v) \/ RecordByHand(v)
  \/ \E u \in UserIds : CopyEntry(u) \/ DeleteHistory(u)
  \/ \E d \in Days : RemoveEntries(d)
  \/ DeleteUsers \/ DeleteLedgers

(* What a step of the web pages does to users and ledger.  The past of a   *)
(* user only changes with "corrected".                                     *)
Changed ==
  /\ users' \in [UserIds -> Users \cup {NoUser}]
  /\ ledger' \in [UserIds -> Histories]
  /\ corrected' \in [UserIds -> 0 .. LastDay]
  /\ \A u \in UserIds :
       /\ corrected'[u] = corrected[u] \/ corrected'[u] = today
       /\ users'[u] = NoUser => users[u] = NoUser \/ corrected'[u] = today
       /\ \A d \in Days : d < today /\ corrected'[u] # today => ledger'[u][d] = ledger[u][d]

LEMMA WriteEntryIs ==
  ASSUME TypeOK, NEW u \in UserIds, NEW d \in Days, NEW entry \in Entries, WriteEntry(u, d, entry)
  PROVE  Changed
<1>1. /\ today \in Days /\ today \in 0 .. LastDay /\ ledger[u] \in Histories
      /\ ledger[u][d] \in Seq(Entries)
  BY ConstantsAssumption DEF TypeOK, Histories, Days
<1>2. PICK i \in 1 .. Len(ledger[u][d]) + 1 :
        ledger' = [ledger EXCEPT ![u][d] = InsertAt(@, i, entry)]
  BY DEF WriteEntry
<1>3. InsertAt(ledger[u][d], i, entry) \in Seq(Entries)
  BY <1>1, InsertType
<1>4. ledger' \in [UserIds -> Histories]
  BY <1>1, <1>2, <1>3 DEF TypeOK, Histories
<1>5. \A w \in UserIds, e \in Days : w # u \/ e # d => ledger'[w][e] = ledger[w][e]
  BY <1>1, <1>2 DEF TypeOK, Histories
<1>6. corrected' = Corrected(u, d) /\ UNCHANGED users
  BY DEF WriteEntry
<1>7. /\ corrected' \in [UserIds -> 0 .. LastDay]
      /\ \A w \in UserIds : corrected'[w] = corrected[w] \/ corrected'[w] = today
      /\ d < today => corrected'[u] = today
  BY <1>1, <1>6 DEF TypeOK, Corrected
<1> QED
  BY <1>4, <1>5, <1>6, <1>7 DEF Changed, TypeOK

LEMMA RemoveEntriesIs ==
  ASSUME TypeOK, NEW d \in Days, RemoveEntries(d)
  PROVE  Changed
<1>1. today \in Days /\ today \in 0 .. LastDay
  BY ConstantsAssumption DEF TypeOK, Days
<1>2. PICK at \in [UserIds -> 0 .. MaxEntries] :
        /\ \A u \in UserIds : at[u] \in ByHand(u, d) \cup {0}
        /\ ledger' = [u \in UserIds |->
                        IF at[u] = 0 THEN ledger[u]
                        ELSE [ledger[u] EXCEPT ![d] = RemoveAt(@, at[u])]]
        /\ corrected' = [u \in UserIds |-> IF at[u] = 0 THEN corrected[u] ELSE Corrected(u, d)[u]]
        /\ UNCHANGED users
  BY DEF RemoveEntries
<1>3. ASSUME NEW u \in UserIds
      PROVE  /\ ledger'[u] \in Histories
             /\ corrected'[u] \in 0 .. LastDay
             /\ corrected'[u] = corrected[u] \/ corrected'[u] = today
             /\ \A e \in Days : e < today /\ corrected'[u] # today => ledger'[u][e] = ledger[u][e]
  <2>1. ledger[u] \in Histories /\ ledger[u][d] \in Seq(Entries) /\ corrected[u] \in 0 .. LastDay
    BY DEF TypeOK, Histories
  <2>2. CASE at[u] = 0
    BY <1>2, <2>1, <2>2
  <2>3. CASE at[u] # 0
    <3>1. at[u] \in 1 .. Len(ledger[u][d])
      BY <1>2, <2>3 DEF ByHand
    <3>2. RemoveAt(ledger[u][d], at[u]) \in Seq(Entries)
      BY <2>1, <3>1, RemoveType
    <3>3. ledger'[u] = [ledger[u] EXCEPT ![d] = RemoveAt(ledger[u][d], at[u])]
      BY <1>2, <2>1, <2>3 DEF Histories
    <3>4. ledger'[u] \in Histories /\ \A e \in Days : e # d => ledger'[u][e] = ledger[u][e]
      BY <2>1, <3>2, <3>3 DEF Histories
    <3>5. corrected'[u] = IF d < today THEN today ELSE corrected[u]
      BY <1>2, <2>3 DEF Corrected, TypeOK
    <3> QED
      BY <1>1, <2>1, <3>4, <3>5
  <2> QED
    BY <2>2, <2>3
<1>4. DOMAIN ledger' = UserIds /\ DOMAIN corrected' = UserIds
  BY <1>2
<1>5. ledger' \in [UserIds -> Histories] /\ corrected' \in [UserIds -> 0 .. LastDay]
  BY <1>2, <1>3, <1>4
<1> QED
  BY <1>2, <1>3, <1>5 DEF Changed, TypeOK

LEMMA WebPagesIs ==
  ASSUME TypeOK, WebPages
  PROVE  Changed /\ (EditUsers \/ UNCHANGED <<today, offers, edits, processing>>)
<1> DEFINE Goal == Changed /\ (EditUsers \/ UNCHANGED <<today, offers, edits, processing>>)
<1>1. today \in Days /\ today \in 0 .. LastDay
  BY ConstantsAssumption DEF TypeOK, Days
<1>2. ASSUME NEW v \in EnteredUsers, EnterUser(v) PROVE Goal
  <2>1. v \in Users
    BY DEF Users
  <2>2. StoreUser(v) /\ EditUsers /\ UNCHANGED corrected
    BY <1>2 DEF EnterUser
  <2> QED
    BY <1>1, <2>1, <2>2, StoreUserIs DEF Changed, TypeOK, Days
<1>3. ASSUME NEW v \in EnteredUsers, RecordByHand(v) PROVE Goal
  <2>1. v.id \in UserIds /\ EntryOf(v, TRUE) \in Entries
    BY DEF UserIds, Users, EntryOf, Entries
  <2>2. /\ \E d \in Days : WriteEntry(v.id, d, EntryOf(v, TRUE))
        /\ UNCHANGED <<today, offers, edits, processing>>
    BY <1>3 DEF RecordByHand
  <2> QED
    BY <2>1, <2>2, WriteEntryIs
<1>4. ASSUME NEW u \in UserIds, CopyEntry(u) PROVE Goal
  <2>1. /\ EditUsers
        /\ \E from, to \in Days : \E i \in ByHand(u, from) : WriteEntry(u, to, ledger[u][from][i])
    BY <1>4 DEF CopyEntry
  <2>2. PICK from \in Days, to \in Days :
             \E i \in ByHand(u, from) : WriteEntry(u, to, ledger[u][from][i])
    BY <2>1
  <2>3. PICK i \in ByHand(u, from) : WriteEntry(u, to, ledger[u][from][i])
    BY <2>2
  <2>4. ledger[u][from] \in Seq(Entries) /\ i \in 1 .. Len(ledger[u][from])
    BY DEF TypeOK, Histories, ByHand
  <2>5. ledger[u][from][i] \in Entries
    BY <2>4
  <2> QED
    BY <2>1, <2>3, <2>5, WriteEntryIs
<1>5. ASSUME NEW u \in UserIds, DeleteHistory(u) PROVE Goal
  BY <1>1, <1>5, NoHistory DEF DeleteHistory, Changed, TypeOK
<1>6. ASSUME NEW d \in Days, RemoveEntries(d) PROVE Goal
  BY <1>6, RemoveEntriesIs DEF RemoveEntries
<1>7. CASE DeleteUsers
  BY <1>1, <1>7 DEF DeleteUsers, Changed, TypeOK
<1>8. CASE DeleteLedgers
  BY <1>1, <1>8, NoHistory DEF DeleteLedgers, Changed, TypeOK
<1> QED
  BY <1>2, <1>3, <1>4, <1>5, <1>6, <1>7, <1>8 DEF WebPages

LEMMA AmountType ==
  ASSUME NEW m \in Rows, NEW c \in Offers
  PROVE  Rounded(Calculation(m, Interpretation(c)), Interpretation(c)) \in Int
<1> DEFINE reward == Interpretation(c)
<1>1. reward.operand \in Int
  BY ConstantsAssumption DEF Interpretation
<1> HIDE DEF reward
<1>2. Factor(m, reward) \in Int
  BY ConstantsAssumption DEF Factor
<1>3. Calculation(m, reward) \in Int
  BY <1>1, <1>2 DEF Calculation
<1>4. \A a \in Int : RoundHalfUp(a, 1000000) \in Int /\ RoundHalfUp(a, 10000) \in Int
  BY DEF RoundHalfUp
<1> QED
  BY <1>3, <1>4 DEF Rounded, reward

LEMMA TypeStep == TypeOK /\ TakenByNow /\ CachedPasses /\ [Next]_vars => TypeOK'
<1> SUFFICES ASSUME TypeOK, TakenByNow, CachedPasses, [Next]_vars PROVE TypeOK'
  OBVIOUS
<1> USE DEF world, strategy, asked, processing, Release, GoTo, Decide
<1>1. CASE NextDay
  BY <1>1, ConstantsAssumption DEF NextDay, TypeOK, Days
<1>2. ASSUME NEW v \in OfferEvents, ReceiveOffer(v) PROVE TypeOK'
  <2>1. KafkaOffer(v) \in Offers
    BY DEF Offers
  <2> QED
    BY <1>2, <2>1 DEF ReceiveOffer, TypeOK
<1>3. ASSUME NEW v \in EnteredOffers, EnterOffer(v) PROVE TypeOK'
  <2>1. edits' \in 0 .. MaxDisturbances
    BY <1>3, ConstantsAssumption DEF EnterOffer, EditOffers, Edit, TypeOK
  <2>2. offers' \in CriteriaTable /\ UNCHANGED <<today, users, ledger, corrected, processing>>
    BY <1>3 DEF EnterOffer, EditOffers, TypeOK, Offers
  <2> QED
    BY <2>1, <2>2 DEF TypeOK
<1>4. CASE DeleteOffers
  BY <1>4, ConstantsAssumption DEF DeleteOffers, EditOffers, Edit, TypeOK
<1>5. ASSUME NEW v \in UserEvents, ReceiveUser(v) PROVE TypeOK'
  <2>1. v \in Users /\ StoreUser(v)
    BY <1>5 DEF Users, ReceiveUser
  <2> QED
    BY <1>5, <2>1, StoreUserIs DEF ReceiveUser, TypeOK
<1>6. ASSUME NEW m \in Rows, Arrive(m) PROVE TypeOK'
  BY <1>6 DEF Arrive, TypeOK
<1>7. ASSUME NEW m \in Rows, FindCriteria(m) PROVE TypeOK'
  <2>1. m.rebateCriteriaId \in OfferIds
    BY DEF OfferIds
  <2>2. offers[m.rebateCriteriaId] \in Offers \cup {NoOffer} /\ today \in 0 .. LastDay
    BY <2>1, ConstantsAssumption DEF TypeOK, Days
  <2> QED
    BY <1>7, <2>2 DEF FindCriteria, TypeOK, Statuses
<1>8. CASE FindUser
  <2> DEFINE u == users[current.userId]
             failed == FirstFailed(ChecksOfTheUser(current, criteria, u))
  <2>1. current \in Rows
    BY <1>8 DEF FindUser, CachedPasses
  <2>2. u \in Users \cup {NoUser}
    BY <2>1 DEF TypeOK, UserIds
  <2>3. failed \in UserStatuses \cup {"none"}
    BY ChecksOfTheUserPass
  <2> HIDE DEF u, failed
  <2>4. \/ Decide("CannotFindClient")
        \/ failed # "none" /\ failed # "throws" /\ Decide(failed)
        \/ Release
        \/ u # NoUser /\ user' = u /\ pc' = "targeting" /\ UNCHANGED <<current, criteria, verdict>>
    BY <1>8 DEF FindUser, u, failed
  <2>5. UNCHANGED <<world, rowStatus, rebates, asked, faults>>
    BY <1>8 DEF FindUser
  <2> QED
    BY <2>2, <2>3, <2>4, <2>5 DEF TypeOK, UserStatuses, Statuses
<1>9. CASE Targeting \/ Linking \/ CheckLimit
  <2>1. CASE Targeting
    <3>1. current \in Rows /\ "ClientIsNotTargeted" \in Statuses
      BY <2>1 DEF Targeting, CachedPasses, Statuses
    <3>2. /\ GoTo("linking") \/ Decide("ClientIsNotTargeted")
          /\ UNCHANGED <<world, rowStatus, rebates, takenOn>>
          /\ UNCHANGED <<unanswered, faults>> \/ (Fault /\ unanswered' = unanswered \cup {current})
      BY <2>1 DEF Targeting
    <3> QED
      BY <3>1, <3>2, FaultType DEF TypeOK
  <2>2. CASE Linking
    <3>1. /\ GoTo("limit") \/ Decide("ClientIsNotLinked") \/ Release
          /\ UNCHANGED <<world, rowStatus, rebates, asked>>
          /\ UNCHANGED faults \/ Fault
      BY <2>2 DEF Linking
    <3> QED
      BY <3>1, FaultType DEF TypeOK, Statuses
  <2>3. CASE CheckLimit
    BY <2>3 DEF CheckLimit, TypeOK, Statuses
  <2> QED
    BY <1>9, <2>1, <2>2, <2>3
<1>10. CASE CheckUsed
  <2> DEFINE failed == FirstFailed(LastChecks(current, criteria, user))
  <2>1. failed \in LastStatuses \cup {"none"}
    BY LastChecksPass
  <2> HIDE DEF failed
  <2>2. \/ Decide("QualifiedTransUsedAlready")
        \/ failed # "none" /\ Decide(failed)
        \/ Decide("RebateNotDue")
        \/ Decide("RebateCreated")
    BY <1>10 DEF CheckUsed, failed
  <2>3. UNCHANGED <<world, rowStatus, rebates, asked, faults>>
    BY <1>10 DEF CheckUsed
  <2> QED
    BY <2>1, <2>2, <2>3 DEF TypeOK, LastStatuses, Statuses
<1>11. CASE MarkAsProcessed
  <2>1. verdict \in Statuses /\ current \in Rows
    BY <1>11 DEF MarkAsProcessed, CachedPasses
  <2> QED
    BY <1>11, <2>1, FaultType DEF MarkAsProcessed, TypeOK
<1>12. CASE IssueRebate
  <2>1. current \in Rows /\ criteria \in Offers /\ takenOn[current] \in Days
    BY <1>12 DEF IssueRebate, CachedPasses, TakenByNow
  <2>2. Rounded(Calculation(current, Reward), Reward) \in Int
    BY <2>1, AmountType DEF Reward
  <2> QED
    BY <1>12, <2>1, <2>2 DEF IssueRebate, TypeOK
<1>13. CASE Throw
  BY <1>13, FaultType DEF Throw, TypeOK
<1>14. CASE WebPages
  BY <1>14, WebPagesIs, ConstantsAssumption DEF Changed, EditUsers, Edit, TypeOK
<1>15. CASE UNCHANGED vars
  BY <1>15 DEF vars, TypeOK
<1> QED
  BY <1>1, <1>2, <1>3, <1>4, <1>5, <1>6, <1>7, <1>8, <1>9, <1>10, <1>11, <1>12, <1>13, <1>14,
     <1>15 DEF Next, Step, WebPages

----------------------------------------------------------------------------
(* Days that are over.                                                     *)

Settled ==
  /\ today <= today'
  /\ \A u \in UserIds :
       /\ corrected[u] <= corrected'[u] /\ corrected'[u] <= today'
       /\ users'[u] = NoUser => users[u] = NoUser \/ corrected'[u] = today
       /\ \A d \in Days : d < today /\ corrected'[u] # today => ledger'[u][d] = ledger[u][d]

(* The state at a date depends on the days up to then.                     *)
LEMMA StateStays ==
  ASSUME NEW g, NEW h, NEW date \in Days, \A d \in Days : d <= date => g[d] = h[d]
  PROVE  StateAtDate(g, date) = StateAtDate(h, date)
<1> DEFINE last(f) == {d \in Days : /\ d <= date /\ f[d] # <<>>
                                    /\ \A e \in d + 1 .. date : f[e] = <<>>}
<1>1. \A d \in Days : d <= date => \A e \in d + 1 .. date : e \in Days /\ e <= date
  BY ConstantsAssumption DEF Days
<1>2. last(g) = last(h)
  BY <1>1
<1>3. \A d \in last(h) : Last(g[d]) = Last(h[d])
  OBVIOUS
<1>4. StateAtDate(g, date) = {Last(g[d]) : d \in last(g)}
  BY DEF StateAtDate
<1>5. StateAtDate(h, date) = {Last(h[d]) : d \in last(h)}
  BY DEF StateAtDate
<1> HIDE DEF last
<1> QED
  BY <1>2, <1>3, <1>4, <1>5

LEMMA StepSettled == TypeOK /\ TakenByNow /\ [Next]_vars => Settled
<1> SUFFICES ASSUME TypeOK, TakenByNow, [Next]_vars PROVE Settled
  OBVIOUS
<1>1. /\ today \in Int
      /\ \A u \in UserIds : corrected[u] \in Int /\ corrected[u] <= today
  BY DEF TypeOK, TakenByNow, Days
<1>2. ASSUME UNCHANGED <<users, ledger, corrected>>, today <= today', today' \in Int PROVE Settled
  BY <1>1, <1>2 DEF Settled
<1>3. ASSUME NEW v \in UserEvents, ReceiveUser(v) PROVE Settled
  <2>1. v \in Users /\ StoreUser(v) /\ UNCHANGED <<today, corrected>>
    BY <1>3 DEF ReceiveUser, Users
  <2> QED
    BY <1>1, <2>1, StoreUserIs DEF Settled, Days
<1>4. CASE WebPages
  <2>1. Changed /\ UNCHANGED today
    BY <1>4, WebPagesIs DEF EditUsers
  <2> QED
    BY <1>1, <2>1 DEF Changed, Settled
<1>5. CASE NextDay
  BY <1>1, <1>2, <1>5 DEF NextDay
<1>6. ASSUME UNCHANGED <<today, users, ledger, corrected>> PROVE Settled
  BY <1>1, <1>2, <1>6
<1>7. CASE Step \/ Throw \/ \E m \in Rows : FindCriteria(m)
  <2>1. UNCHANGED world
    BY <1>7
       DEF Step, FindUser, Targeting, Linking, CheckLimit, CheckUsed, MarkAsProcessed, IssueRebate,
           Throw, FindCriteria
  <2> QED
    BY <1>6, <2>1 DEF world
<1>8. CASE \/ \E v \in OfferEvents : ReceiveOffer(v)
           \/ \E v \in EnteredOffers : EnterOffer(v)
           \/ DeleteOffers
           \/ \E m \in Rows : Arrive(m)
           \/ UNCHANGED vars
  <2>1. UNCHANGED <<today, users, ledger, corrected>>
    BY <1>8 DEF ReceiveOffer, EnterOffer, DeleteOffers, EditOffers, Arrive, vars, world
  <2> QED
    BY <1>6, <2>1
<1> QED
  BY <1>3, <1>4, <1>5, <1>7, <1>8 DEF Next, WebPages

(* Of a user who was not corrected since a row was taken, the ledger says  *)
(* of the row's day what it said.                                          *)
LEMMA SettledAt ==
  ASSUME TypeOK, TypeOK', Settled, NEW date \in Days, date < today,
         NEW taken \in 0 .. LastDay, taken <= today,
         NEW u, u \in UserIds => corrected'[u] < taken
  PROVE  /\ UncorrectedSince(u, taken)
         /\ (IF u \in UserIds THEN StateAtDate(ledger'[u], date) ELSE {}) = Entry(u, date)
<1>1. CASE u \notin UserIds
  BY <1>1 DEF UncorrectedSince, Entry
<1>2. CASE u \in UserIds
  <2>0. /\ today \in Int /\ corrected[u] \in Int /\ corrected'[u] \in Int
        /\ taken \in Int /\ date \in Int
    BY <1>2, ConstantsAssumption DEF TypeOK, Days
  <2>1. corrected'[u] < taken /\ corrected[u] <= corrected'[u]
    BY <1>2 DEF Settled
  <2>2. corrected'[u] # today /\ corrected[u] < taken
    BY <2>0, <2>1
  <2>3. \A d \in Days : d <= date => ledger'[u][d] = ledger[u][d]
    BY <1>2, <2>0, <2>2 DEF Settled, Days
  <2>4. StateAtDate(ledger'[u], date) = StateAtDate(ledger[u], date)
    BY <2>3, StateStays
  <2> QED
    BY <1>2, <2>2, <2>4 DEF UncorrectedSince, Entry
<1> QED
  BY <1>1, <1>2

LEMMA SettledForRows ==
  ASSUME TypeOK, TypeOK', Settled, NEW m \in Rows, m.date < today,
         NEW taken \in 0 .. LastDay, taken <= today
  PROVE  \A u : UncorrectedSince(u, taken)' =>
                  UncorrectedSince(u, taken) /\ Entry(u, m.date)' = Entry(u, m.date)
<1> SUFFICES ASSUME NEW u, UncorrectedSince(u, taken)'
             PROVE  UncorrectedSince(u, taken) /\ Entry(u, m.date)' = Entry(u, m.date)
  OBVIOUS
<1>1. m.date \in Days /\ (u \in UserIds => corrected'[u] < taken)
  BY ConstantsAssumption DEF UncorrectedSince
<1> QED
  BY <1>1, SettledAt DEF Entry

----------------------------------------------------------------------------
(* The world goes on.                                                      *)

Around ==
  /\ UNCHANGED <<strategy, rebates, asked>>
  /\ \A m \in Rows : rowStatus'[m] = rowStatus[m] \/ rowStatus'[m] = "Pending"

LEMMA AroundStep ==
  ASSUME IInv, TypeOK', Settled, Around
  PROVE  /\ TakenByNow' /\ FoundUnlessDeleted' /\ CachedPasses' /\ LedgerStillSays'
         /\ RebatesAreDeserved' /\ SettledDaysDecide'
<1> USE DEF IInv, asked
<1>0. /\ today \in Int /\ today' \in Int /\ today <= today' /\ \A m \in Rows : m.date \in Int
      /\ \A u \in UserIds : corrected[u] \in Int /\ corrected'[u] \in Int
      /\ \A m \in Rows : takenOn[m] \in Int /\ takenOn[m] <= today
  BY ConstantsAssumption DEF TypeOK, Settled, TakenByNow, Days
<1>1. TakenByNow'
  <2>1. \A u \in UserIds : corrected'[u] <= today'
    BY DEF Settled
  <2>2. \A b \in rebates : b.takenOn <= today'
    BY <1>0 DEF TakenByNow, TypeOK, Days
  <2>3. pc # "idle" => takenOn[current] \in Days
    BY DEF TakenByNow
  <2> QED
    BY <1>0, <2>1, <2>2, <2>3 DEF TakenByNow, Around, strategy
<1>2. CachedPasses'
  BY DEF CachedPasses, Around, strategy, Cleared
<1>3. FoundUnlessDeleted'
  <2> SUFFICES ASSUME pc = "targeting", users'[current.userId] = NoUser
               PROVE  ~UncorrectedSince(current.userId, takenOn[current])'
    BY DEF FoundUnlessDeleted, Around, strategy
  <2>1. current \in Rows /\ current.userId \in UserIds
    BY DEF CachedPasses, UserIds
  <2>2. CASE users[current.userId] = NoUser
    <3>1. ~(corrected[current.userId] < takenOn[current])
      BY <2>1, <2>2 DEF FoundUnlessDeleted, UncorrectedSince
    <3>2. corrected[current.userId] <= corrected'[current.userId]
      BY <2>1 DEF Settled
    <3> QED
      BY <1>0, <2>1, <3>1, <3>2 DEF UncorrectedSince, Around, strategy
  <2>3. CASE corrected'[current.userId] = today
    BY <1>0, <2>1, <2>3 DEF UncorrectedSince, Around, strategy
  <2> QED
    BY <2>1, <2>2, <2>3 DEF Settled
<1>4. LedgerStillSays'
  <2> SUFFICES ASSUME pc # "idle", takenOn[current] > current.date
               PROVE  LedgerStillSays'
    BY DEF LedgerStillSays, Around, strategy
  <2>1. current \in Rows /\ takenOn[current] \in 0 .. LastDay /\ current.date \in Days
    BY ConstantsAssumption DEF CachedPasses, TypeOK
  <2>2. current.date < today /\ takenOn[current] <= today
    BY <1>0, <2>1
  <2>3. \A u : (u \in UserIds => corrected'[u] < takenOn[current]) =>
           /\ UncorrectedSince(u, takenOn[current])
           /\ (IF u \in UserIds THEN StateAtDate(ledger'[u], current.date) ELSE {})
                = Entry(u, current.date)
    BY <2>1, <2>2, SettledAt
  <2>4. UNCHANGED <<pc, current, criteria, user, verdict, takenOn, unanswered>>
    BY DEF Around, strategy
  <2>5. UncorrectedSince(current.userId, takenOn[current])' =>
          /\ UncorrectedSince(current.userId, takenOn[current])
          /\ Entry(current.userId, current.date)' = Entry(current.userId, current.date)
    BY <2>3, <2>4 DEF UncorrectedSince, Entry
  <2>6. UncorrectedSince(current.userId, takenOn[current])' =>
          /\ Cleared({"linking", "limit", "used"})' => TargetedIfRequired(current, criteria)'
          /\ pc = "mark" /\ verdict = "ClientIsNotTargeted" /\ current \notin unanswered =>
               NotTargeted(current)'
    BY <2>4, <2>5 DEF LedgerStillSays, Cleared, TargetedIfRequired, IsTargeted, NotTargeted
  <2>7. Cleared({"limit", "used"})' =>
          (UncorrectedSince(LinkedUser(current, criteria, user), takenOn[current])' =>
             LinkedIfRequired(current, criteria, user)')
    <3> DEFINE linked == LinkedUser(current, criteria, user)
    <3>1. linked' = linked
      BY <2>4 DEF LinkedUser, ChecksPrimary, AsksForPrimary, EligibleProduct, EligibleProducts,
                  Product, Products
    <3>2. UncorrectedSince(linked, takenOn[current])' <=>
            (linked \in UserIds => corrected'[linked] < takenOn[current])
      BY <2>4, <3>1 DEF UncorrectedSince
    <3>3. IsLinked(current, criteria, user)' =
            \E e \in (IF linked \in UserIds THEN StateAtDate(ledger'[linked], current.date) ELSE {}) :
              criteria.id \in e.linked
      BY <2>4, <3>1 DEF IsLinked, Entry
    <3>4. IsLinked(current, criteria, user) = \E e \in Entry(linked, current.date) : criteria.id \in e.linked
      BY DEF IsLinked
    <3> HIDE DEF linked
    <3>5. UncorrectedSince(linked, takenOn[current])' =>
            /\ UncorrectedSince(linked, takenOn[current])
            /\ (IsLinked(current, criteria, user)' <=> IsLinked(current, criteria, user))
      BY <2>3, <3>2, <3>3, <3>4
    <3>6. Cleared({"limit", "used"})' = Cleared({"limit", "used"})
      BY <2>4 DEF Cleared
    <3> QED
      BY <2>4, <3>5, <3>6 DEF LedgerStillSays, LinkedIfRequired, linked
  <2> QED
    BY <2>4, <2>6, <2>7 DEF LedgerStillSays
<1>5. RebatesAreDeserved'
  BY DEF RebatesAreDeserved, Around
<1>6. SettledDaysDecide'
  <2>1. ASSUME NEW b \in rebates, b.takenOn > b.row.date
        PROVE  /\ UncorrectedSince(b.row.userId, b.takenOn)' => TargetedIfRequired(b.row, b.criteria)'
               /\ UncorrectedSince(LinkedUser(b.row, b.criteria, b.user), b.takenOn)' =>
                    LinkedIfRequired(b.row, b.criteria, b.user)'
    <3>1. b.row \in Rows /\ b.takenOn \in Days /\ b.takenOn <= today
      BY DEF TypeOK, TakenByNow
    <3>2. b.row.date < today /\ b.takenOn \in 0 .. LastDay
      BY <1>0, <2>1, <3>1 DEF Days
    <3> QED
      BY <2>1, <3>1, <3>2, SettledForRows
         DEF SettledDaysDecide, TargetedIfRequired, LinkedIfRequired, IsTargeted, IsLinked
  <2>2. ASSUME NEW m \in Rows, m \notin unanswered, rowStatus'[m] = "ClientIsNotTargeted",
               takenOn[m] > m.date, UncorrectedSince(m.userId, takenOn[m])'
        PROVE  NotTargeted(m)'
    <3>1. rowStatus[m] = "ClientIsNotTargeted"
      BY <2>2 DEF Around
    <3>2. m.date < today /\ takenOn[m] \in 0 .. LastDay /\ takenOn[m] <= today
      BY <1>0, <2>2 DEF TypeOK
    <3>3. \A u : (u \in UserIds => corrected'[u] < takenOn[m]) =>
             /\ UncorrectedSince(u, takenOn[m])
             /\ (IF u \in UserIds THEN StateAtDate(ledger'[u], m.date) ELSE {}) = Entry(u, m.date)
      BY <3>2, ConstantsAssumption, SettledAt
    <3>4. UncorrectedSince(m.userId, takenOn[m]) /\ Entry(m.userId, m.date)' = Entry(m.userId, m.date)
      BY <2>2, <3>3 DEF UncorrectedSince, Entry, Around
    <3>5. NotTargeted(m)
      BY <2>2, <3>1, <3>4 DEF SettledDaysDecide
    <3> QED
      BY <3>4, <3>5 DEF NotTargeted
  <2> QED
    BY <2>1, <2>2 DEF SettledDaysDecide, Around
<1> QED
  BY <1>1, <1>2, <1>3, <1>4, <1>5, <1>6

----------------------------------------------------------------------------
(* The strategy gets on.                                                   *)

(* While the world stays as it is, what is read of it does.                *)
LEMMA WorldStays ==
  ASSUME UNCHANGED world
  PROVE  /\ \A m, c : IsTargeted(m, c)' = IsTargeted(m, c)
         /\ \A m, c, u : IsLinked(m, c, u)' = IsLinked(m, c, u)
         /\ \A m : NotTargeted(m)' = NotTargeted(m)
         /\ \A m, c : TargetedIfRequired(m, c)' = TargetedIfRequired(m, c)
         /\ \A m, c, u : LinkedIfRequired(m, c, u)' = LinkedIfRequired(m, c, u)
         /\ \A u, day : UncorrectedSince(u, day)' = UncorrectedSince(u, day)
BY DEF IsTargeted, IsLinked, NotTargeted, Entry, TargetedIfRequired, LinkedIfRequired,
       UncorrectedSince, world

(* Steps that leave the tables as they are.                                *)
LEMMA TablesStay ==
  ASSUME IInv, UNCHANGED <<world, rowStatus, rebates, takenOn>>, unanswered \subseteq unanswered',
         pc' # "idle" => pc # "idle" /\ current' = current
  PROVE  TakenByNow' /\ RebatesAreDeserved' /\ SettledDaysDecide'
<1> USE DEF IInv
<1>1. TakenByNow'
  BY DEF TakenByNow, world
<1>2. RebatesAreDeserved'
  BY DEF RebatesAreDeserved
<1>3. SettledDaysDecide'
  BY WorldStays DEF SettledDaysDecide
<1> QED
  BY <1>1, <1>2, <1>3

LEMMA Released ==
  ASSUME Release
  PROVE  CachedPasses' /\ LedgerStillSays'
BY DEF Release, CachedPasses, LedgerStillSays, Cleared

LEMMA Decided ==
  ASSUME IInv, pc \notin {"idle", "mark"}, NEW status \in Statuses, Decide(status),
         UNCHANGED <<world, takenOn>>, status # "RebateCreated",
         status = "ClientIsNotTargeted" =>
           \/ current \in unanswered'
           \/ NotTargeted(current)
           \/ ~UncorrectedSince(current.userId, takenOn[current])
  PROVE  CachedPasses' /\ LedgerStillSays'
<1>1. /\ pc' = "mark" /\ verdict' = status /\ UNCHANGED <<current, criteria, user>>
      /\ ~Cleared({"linking", "limit", "used"})' /\ ~Cleared({"limit", "used"})'
      /\ ~Cleared({"targeting", "linking", "limit", "used"})' /\ ~Cleared({})'
  BY DEF Decide, Cleared
<1>2. CachedPasses'
  BY <1>1 DEF IInv, CachedPasses
<1>3. LedgerStillSays'
  BY <1>1, WorldStays DEF LedgerStillSays
<1> QED
  BY <1>2, <1>3

LEMMA StepChecks ==
  ASSUME IInv, Step
  PROVE  CachedPasses' /\ LedgerStillSays'
<1> USE DEF IInv
<1>1. CASE FindUser
  <2> DEFINE u == users[current.userId]
             failed == FirstFailed(ChecksOfTheUser(current, criteria, u))
  <2>1. u \in Users \cup {NoUser}
    BY <1>1 DEF FindUser, CachedPasses, TypeOK, UserIds
  <2>2. failed \in UserStatuses \cup {"none"} /\ UserStatuses \ {"throws"} \subseteq Statuses
    BY ChecksOfTheUserPass DEF UserStatuses, Statuses
  <2>3. failed = "none" => FirstFailed(ChecksOfTheUser(current, criteria, u)) = "none"
    OBVIOUS
  <2> HIDE DEF u, failed
  <2>4. \/ Decide("CannotFindClient")
        \/ failed # "none" /\ failed # "throws" /\ Decide(failed)
        \/ Release
        \/ /\ u # NoUser /\ failed = "none" /\ user' = u /\ pc' = "targeting"
           /\ UNCHANGED <<current, criteria, verdict>>
    BY <1>1 DEF FindUser, u, failed
  <2>5. pc = "findUser" /\ UNCHANGED <<world, takenOn, unanswered>>
    BY <1>1 DEF FindUser, asked
  <2>6. CASE Decide("CannotFindClient")
    BY <2>5, <2>6, Decided DEF Statuses
  <2>7. CASE failed # "none" /\ failed # "throws" /\ Decide(failed)
    BY <2>2, <2>5, <2>7, Decided DEF UserStatuses
  <2>8. CASE /\ u # NoUser /\ failed = "none" /\ user' = u /\ pc' = "targeting"
             /\ UNCHANGED <<current, criteria, verdict>>
    BY <2>1, <2>3, <2>5, <2>8 DEF CachedPasses, LedgerStillSays, Cleared
  <2> QED
    BY <2>4, <2>6, <2>7, <2>8, Released
<1>2. CASE Targeting
  <2>0. /\ pc = "targeting" /\ UNCHANGED <<world, takenOn>> /\ criteria.id = current.rebateCriteriaId
        /\ "ClientIsNotTargeted" \in Statuses
    BY <1>2 DEF Targeting, CachedPasses, Statuses
  <2>1. CASE GoTo("linking") /\ TargetedIfRequired(current, criteria)
    BY <2>0, <2>1, WorldStays DEF GoTo, CachedPasses, LedgerStillSays, Cleared
  <2>2. CASE Decide("ClientIsNotTargeted") /\ AsksForTargeting(criteria)
             /\ users[current.userId] # NoUser /\ ~IsTargeted(current, criteria)
    <3>1. NotTargeted(current)
      BY <2>0, <2>2 DEF IsTargeted, NotTargeted
    <3> QED
      BY <2>0, <2>2, <3>1, Decided
  <2>3. CASE Decide("ClientIsNotTargeted") /\ users[current.userId] = NoUser
    <3>1. ~UncorrectedSince(current.userId, takenOn[current])
      BY <2>0, <2>3 DEF FoundUnlessDeleted
    <3> QED
      BY <2>0, <2>3, <3>1, Decided
  <2>4. CASE Decide("ClientIsNotTargeted") /\ unanswered' = unanswered \cup {current}
    BY <2>0, <2>4, Decided
  <2> QED
    BY <1>2, <2>1, <2>2, <2>3, <2>4 DEF Targeting, TargetedIfRequired
<1>3. CASE Linking
  <2>0. pc = "linking" /\ UNCHANGED <<world, takenOn, unanswered>>
    BY <1>3 DEF Linking, asked
  <2>1. CASE GoTo("limit") /\ LinkedIfRequired(current, criteria, user)
    BY <2>0, <2>1, WorldStays DEF GoTo, CachedPasses, LedgerStillSays, Cleared
  <2>2. CASE Decide("ClientIsNotLinked")
    BY <2>0, <2>2, Decided DEF Statuses
  <2> QED
    BY <1>3, <2>1, <2>2, Released DEF Linking, LinkedIfRequired
<1>4. CASE CheckLimit
  <2>0. pc = "limit" /\ UNCHANGED <<world, takenOn, unanswered>>
    BY <1>4 DEF CheckLimit, asked
  <2>1. CASE GoTo("used")
    BY <2>0, <2>1, WorldStays DEF GoTo, CachedPasses, LedgerStillSays, Cleared
  <2>2. CASE Decide("ClientReachedCardRedLimit") \/ Decide("ClientReachedOverallRedLimit")
    BY <2>0, <2>2, Decided DEF Statuses
  <2> QED
    BY <1>4, <2>1, <2>2 DEF CheckLimit
<1>5. CASE CheckUsed
  <2> DEFINE failed == FirstFailed(LastChecks(current, criteria, user))
  <2>1. failed \in LastStatuses \cup {"none"} /\ LastStatuses \subseteq Statuses
    BY LastChecksPass DEF LastStatuses, Statuses
  <2>2. pc = "used" /\ UNCHANGED <<world, takenOn, unanswered>>
    BY <1>5 DEF CheckUsed, asked
  <2>3. failed = "none" => FirstFailed(LastChecks(current, criteria, user)) = "none"
    OBVIOUS
  <2> HIDE DEF failed
  <2>4. \/ Decide("QualifiedTransUsedAlready")
        \/ failed # "none" /\ Decide(failed)
        \/ Decide("RebateNotDue")
        \/ failed = "none" /\ Decide("RebateCreated")
    BY <1>5 DEF CheckUsed, failed
  <2>5. CASE Decide("QualifiedTransUsedAlready") \/ Decide("RebateNotDue")
    BY <2>2, <2>5, Decided DEF Statuses
  <2>6. CASE failed # "none" /\ Decide(failed)
    BY <2>1, <2>2, <2>6, Decided DEF LastStatuses
  <2>7. CASE failed = "none" /\ Decide("RebateCreated")
    BY <2>2, <2>3, <2>7, WorldStays DEF Decide, CachedPasses, LedgerStillSays, Cleared, Statuses
  <2> QED
    BY <2>4, <2>5, <2>6, <2>7
<1>6. CASE MarkAsProcessed
  <2>0. pc = "mark" /\ UNCHANGED <<world, takenOn, unanswered>>
    BY <1>6 DEF MarkAsProcessed, asked
  <2>1. CASE verdict = "RebateCreated" /\ GoTo("insert")
    <3>1. /\ pc' = "insert" /\ UNCHANGED <<current, criteria, user>>
          /\ Cleared({"targeting", "linking", "limit", "used"}) /\ Cleared({})
          /\ Cleared({"linking", "limit", "used"}) /\ Cleared({"limit", "used"})
      BY <2>0, <2>1 DEF GoTo, Cleared
    <3>2. criteria.id = current.rebateCriteriaId
      BY <3>1 DEF CachedPasses
    <3>3. CachedPasses'
      BY <2>0, <3>1, <3>2 DEF CachedPasses
    <3>4. LedgerStillSays'
      BY <2>0, <3>1, WorldStays DEF LedgerStillSays
    <3> QED
      BY <3>3, <3>4
  <2> QED
    BY <1>6, <2>1, Released DEF MarkAsProcessed
<1>7. CASE IssueRebate
  BY <1>7, Released DEF IssueRebate
<1> QED
  BY <1>1, <1>2, <1>3, <1>4, <1>5, <1>6, <1>7 DEF Step

LEMMA FindCriteriaStep ==
  ASSUME IInv, NEW m \in Rows, FindCriteria(m)
  PROVE  /\ TakenByNow' /\ FoundUnlessDeleted' /\ CachedPasses' /\ LedgerStillSays'
         /\ RebatesAreDeserved' /\ SettledDaysDecide'
<1> USE DEF IInv
<1>0. /\ current' = m /\ pc' \in {"mark", "findUser"} /\ UNCHANGED <<world, rowStatus, rebates>>
      /\ takenOn' = [takenOn EXCEPT ![m] = today] /\ rowStatus[m] = "Pending"
      /\ unanswered' = unanswered \ {m}
      /\ criteria' = offers[m.rebateCriteriaId]
      /\ pc' = "mark" => verdict' = "OfferNotFound"
      /\ pc' = "findUser" => offers[m.rebateCriteriaId] # NoOffer
  BY DEF FindCriteria
<1>1. TakenByNow'
  BY <1>0 DEF TakenByNow, world, TypeOK, Days
<1>2. CachedPasses'
  <2>1. m.rebateCriteriaId \in OfferIds
    BY DEF OfferIds
  <2> QED
    BY <1>0, <2>1 DEF CachedPasses, Cleared, StoredUnderTheirIds, TypeOK, Statuses
<1>3. LedgerStillSays'
  BY <1>0 DEF LedgerStillSays, Cleared
<1>4. RebatesAreDeserved' /\ FoundUnlessDeleted'
  BY <1>0 DEF RebatesAreDeserved, FoundUnlessDeleted
<1>5. SettledDaysDecide'
  <2>1. \A n \in Rows : rowStatus'[n] = "ClientIsNotTargeted" =>
           takenOn'[n] = takenOn[n] /\ (n \notin unanswered' => n \notin unanswered)
    BY <1>0 DEF TypeOK
  <2> QED
    BY <1>0, <2>1, WorldStays DEF SettledDaysDecide
<1> QED
  BY <1>1, <1>2, <1>3, <1>4, <1>5

LEMMA MarkStep ==
  ASSUME IInv, MarkAsProcessed
  PROVE  TakenByNow' /\ RebatesAreDeserved' /\ SettledDaysDecide'
<1> USE DEF IInv
<1>0. /\ pc = "mark"
      /\ pc' # "idle" => current' = current
      /\ UNCHANGED <<world, rebates, takenOn, unanswered>>
      /\ rowStatus' = [rowStatus EXCEPT ![current] = verdict] \/ UNCHANGED rowStatus
  BY DEF MarkAsProcessed, GoTo, Release, asked
<1>1. CASE UNCHANGED rowStatus
  BY <1>0, <1>1, TablesStay
<1>2. CASE rowStatus' = [rowStatus EXCEPT ![current] = verdict]
  <2>1. TakenByNow' /\ RebatesAreDeserved'
    BY <1>0 DEF TakenByNow, RebatesAreDeserved, world
  <2>2. ASSUME NEW m \in Rows, m \notin unanswered, rowStatus'[m] = "ClientIsNotTargeted",
               takenOn[m] > m.date, UncorrectedSince(m.userId, takenOn[m])
        PROVE  NotTargeted(m)
    <3>1. CASE m = current
      BY <1>0, <1>2, <2>2, <3>1 DEF LedgerStillSays, TypeOK
    <3>2. CASE m # current
      BY <1>2, <2>2, <3>2 DEF SettledDaysDecide, TypeOK
    <3> QED
      BY <3>1, <3>2
  <2>3. SettledDaysDecide'
    BY <1>0, <2>2, WorldStays DEF SettledDaysDecide
  <2> QED
    BY <2>1, <2>3
<1> QED
  BY <1>0, <1>1, <1>2

LEMMA IssueStep ==
  ASSUME IInv, IssueRebate
  PROVE  TakenByNow' /\ RebatesAreDeserved' /\ SettledDaysDecide'
<1> USE DEF IInv
<1> DEFINE rebate == [row |-> current, amount |-> Rounded(Calculation(current, Reward), Reward),
                      rewardType |-> Reward.unit,
                      criteria |-> criteria, user |-> user, takenOn |-> takenOn[current]]
<1>0. /\ pc = "insert" /\ pc' = "idle" /\ rebates' = rebates \cup {rebate}
      /\ UNCHANGED <<world, rowStatus, takenOn, unanswered>>
  BY DEF IssueRebate, Release, asked
<1>1. /\ rebate.row = current /\ rebate.criteria = criteria /\ rebate.user = user
      /\ rebate.takenOn = takenOn[current]
  OBVIOUS
<1> HIDE DEF rebate
<1>2. /\ Cleared({"targeting", "linking", "limit", "used"}) /\ Cleared({})
      /\ Cleared({"linking", "limit", "used"}) /\ Cleared({"limit", "used"})
  BY <1>0 DEF Cleared
<1>3. current \in Rows /\ takenOn[current] <= today
  BY <1>0 DEF CachedPasses, TakenByNow
<1>4. TakenByNow'
  BY <1>0, <1>1, <1>3 DEF TakenByNow, world
<1>5. /\ criteria \in Offers /\ user \in Users
      /\ Deserves(current, criteria, user)
  BY <1>2, <1>3, PassedIsDeserved DEF CachedPasses
<1>6. RebatesAreDeserved'
  BY <1>0, <1>1, <1>5 DEF RebatesAreDeserved
<1>7. takenOn[current] > current.date =>
        /\ UncorrectedSince(current.userId, takenOn[current]) => TargetedIfRequired(current, criteria)
        /\ UncorrectedSince(LinkedUser(current, criteria, user), takenOn[current]) =>
             LinkedIfRequired(current, criteria, user)
  BY <1>0, <1>2 DEF LedgerStillSays
<1>8. SettledDaysDecide'
  <2> SUFFICES ASSUME NEW b \in rebates', b.takenOn > b.row.date
               PROVE  /\ UncorrectedSince(b.row.userId, b.takenOn) => TargetedIfRequired(b.row, b.criteria)
                      /\ UncorrectedSince(LinkedUser(b.row, b.criteria, b.user), b.takenOn) =>
                           LinkedIfRequired(b.row, b.criteria, b.user)
    BY <1>0, WorldStays DEF SettledDaysDecide
  <2>1. CASE b \in rebates
    BY <2>1 DEF SettledDaysDecide
  <2>2. CASE b = rebate
    BY <1>1, <1>7, <2>2
  <2> QED
    BY <1>0, <2>1, <2>2
<1> QED
  BY <1>4, <1>6, <1>8

----------------------------------------------------------------------------
LEMMA StepInv == IInv /\ [Next]_vars => IInv'
<1> SUFFICES ASSUME IInv, [Next]_vars PROVE IInv'
  OBVIOUS
<1>1. TypeOK' /\ Settled
  BY TypeStep, StepSettled DEF IInv
<1>2. StoredUnderTheirIds'
  <2>1. CASE UNCHANGED offers
    BY <2>1 DEF IInv, StoredUnderTheirIds
  <2>2. ASSUME NEW v \in Offers, offers' = [offers EXCEPT ![v.id] = v]
        PROVE  StoredUnderTheirIds'
    BY <2>2 DEF IInv, StoredUnderTheirIds, TypeOK
  <2>3. CASE DeleteOffers
    BY <2>3 DEF DeleteOffers, StoredUnderTheirIds
  <2>4. CASE Step \/ Throw \/ (\E m \in Rows : Arrive(m) \/ FindCriteria(m)) \/ UNCHANGED vars
    BY <2>1, <2>4
       DEF Step, FindUser, Targeting, Linking, CheckLimit, CheckUsed, MarkAsProcessed, IssueRebate,
           Throw, Arrive, FindCriteria, vars, world
  <2>5. ASSUME NEW v \in OfferEvents, ReceiveOffer(v) PROVE StoredUnderTheirIds'
    <3>1. KafkaOffer(v) \in Offers
      BY DEF Offers
    <3> QED
      BY <2>2, <2>5, <3>1 DEF ReceiveOffer
  <2>6. ASSUME NEW v \in EnteredOffers, EnterOffer(v) PROVE StoredUnderTheirIds'
    BY <2>2, <2>6 DEF EnterOffer, Offers
  <2>7. CASE NextDay \/ (\E v \in UserEvents : ReceiveUser(v)) \/ WebPages
    <3>1. IInv => TypeOK
      BY DEF IInv
    <3> QED
      BY <2>1, <2>7, <3>1, WebPagesIs DEF NextDay, ReceiveUser, EditUsers
  <2> QED
    BY <2>3, <2>4, <2>5, <2>6, <2>7 DEF Next, WebPages
<1>3. ASSUME Around PROVE IInv'
  BY <1>1, <1>2, <1>3, AroundStep DEF IInv
<1>4. ASSUME NEW m \in Rows, FindCriteria(m) PROVE IInv'
  BY <1>1, <1>2, <1>4, FindCriteriaStep DEF IInv
<1>5. CASE Step
  <2>1. CachedPasses' /\ LedgerStillSays'
    BY <1>5, StepChecks
  <2>2. CASE MarkAsProcessed \/ IssueRebate
    <3>1. pc' \in {"idle", "insert"}
      BY <2>2 DEF MarkAsProcessed, IssueRebate, GoTo, Release
    <3> QED
      BY <1>1, <1>2, <2>1, <2>2, <3>1, MarkStep, IssueStep DEF IInv, FoundUnlessDeleted
  <2>3. CASE FindUser \/ Targeting \/ Linking \/ CheckLimit \/ CheckUsed
    <3>1. /\ UNCHANGED <<world, rowStatus, rebates, takenOn>> /\ pc # "idle"
          /\ unanswered \subseteq unanswered'
          /\ pc' # "idle" => current' = current
          /\ pc' = "targeting" => users[current.userId] # NoUser
      BY <2>3
         DEF FindUser, Targeting, Linking, CheckLimit, CheckUsed, GoTo, Decide, Release, asked
    <3>2. FoundUnlessDeleted'
      BY <3>1 DEF FoundUnlessDeleted, world
    <3> QED
      BY <1>1, <1>2, <2>1, <3>1, <3>2, TablesStay DEF IInv
  <2> QED
    BY <1>5, <2>2, <2>3 DEF Step
<1>6. CASE Throw
  <2>1. UNCHANGED <<world, rowStatus, rebates, takenOn, unanswered>> /\ Release /\ pc' = "idle"
    BY <1>6 DEF Throw, Release, asked
  <2>2. FoundUnlessDeleted'
    BY <2>1 DEF FoundUnlessDeleted
  <2> QED
    BY <1>1, <1>2, <2>1, <2>2, TablesStay, Released DEF IInv
<1>7. CASE \/ NextDay
           \/ \E v \in OfferEvents : ReceiveOffer(v)
           \/ \E v \in EnteredOffers : EnterOffer(v)
           \/ DeleteOffers
           \/ \E v \in UserEvents : ReceiveUser(v)
           \/ WebPages
           \/ \E m \in Rows : Arrive(m)
           \/ UNCHANGED vars
  <2>1. Around
    <3>1. CASE WebPages
      BY <3>1, WebPagesIs DEF IInv, EditUsers, Around, processing
    <3>2. CASE \E m \in Rows : Arrive(m)
      BY <3>2 DEF IInv, TypeOK, Around, Arrive
    <3> QED
      BY <1>7, <3>1, <3>2
         DEF Around, NextDay, ReceiveOffer, EnterOffer, DeleteOffers, EditOffers, ReceiveUser, processing,
             vars
  <2> QED
    BY <1>3, <2>1
<1> QED
  BY <1>4, <1>5, <1>6, <1>7 DEF Next, WebPages

(* The invariant holds in every reachable state.                           *)
THEOREM Inductive == Spec => []IInv
BY InitInv, StepInv, PTL DEF Spec

(* Every variable keeps its type.                                          *)
THEOREM TypeCorrect == Spec => []TypeOK
<1>1. IInv => TypeOK
  BY DEF IInv
<1> QED
  BY <1>1, Inductive, PTL

(* The checks of perform, in their order and with the offer and the user   *)
(* it has cached, let no rebate be issued that README and tests would      *)
(* refuse, whatever is stored or deleted meanwhile.                        *)
THEOREM Deserved == Spec => []RebatesAreDeserved
<1>1. IInv => RebatesAreDeserved
  BY DEF IInv
<1> QED
  BY <1>1, Inductive, PTL

(* A row that is handled after its day is targeted and linked as the       *)
(* ledger said at the end of that day (getStateAtDate), and still says,    *)
(* unless a web page changed the user's past since, or the ledger could    *)
(* not be read.                                                            *)
THEOREM Settles == Spec => []SettledDaysDecide
<1>1. IInv => SettledDaysDecide
  BY DEF IInv
<1> QED
  BY <1>1, Inductive, PTL
----------------------------------------------------------------------------
(* The amount.                                                             *)

(* A factor of points counts hundredths.                                   *)
LEMMA ProductsOfIntegers ==
  ASSUME NEW x \in Int, NEW n \in Nat
  PROVE  /\ x * n \in Int
         /\ x * (100 * n) = 100 * x * n
         /\ x * (100 * n) \in Int
<1>1. x * n \in Int
  OBVIOUS
<1>2. x * (100 * n) = 100 * (x * n) /\ 100 * x * n = 100 * (x * n)
  OBVIOUS
<1> QED
  BY <1>1, <1>2

(* What is calculated is what the terms promise.                           *)
LEMMA CalculationKeepsPromise ==
  ASSUME NEW m \in Rows, NEW c \in Offers
  PROVE  /\ Calculation(m, Interpretation(c)) = Promise(m, c)
         /\ Promise(m, c) \in Int
<1>1. /\ c.rebateAmount \in Int /\ c.benefit \in Benefits
      /\ m.amount \in Nat /\ m.basePoints \in Nat
  BY ConstantsAssumption
<1> DEFINE x == c.rebateAmount
<1>2. -(-x) = x
  BY <1>1
<1>3. CASE c.benefit = "DollarsOff"
  BY <1>1, <1>3 DEF Calculation, Interpretation, Promise, DollarBenefits, AbsoluteBenefits
<1>4. CASE c.benefit = "PercentageOffForDollars"
  <2>1. Calculation(m, Interpretation(c)) = x * m.amount
    BY <1>1, <1>2, <1>4 DEF Calculation, Interpretation, Factor, DollarBenefits, AbsoluteBenefits
  <2> QED
    BY <1>1, <1>4, <2>1, ProductsOfIntegers DEF Promise
<1>5. CASE c.benefit = "PointsTopUp"
  BY <1>1, <1>5 DEF Calculation, Interpretation, Promise, DollarBenefits, AbsoluteBenefits
<1>6. CASE c.benefit = "MultiplierForPoints"
  <2>1. Calculation(m, Interpretation(c)) = x * (100 * m.basePoints)
    BY <1>1, <1>6 DEF Calculation, Interpretation, Factor, DollarBenefits, AbsoluteBenefits
  <2>2. Promise(m, c) = 100 * x * m.basePoints
    BY <1>6 DEF Promise
  <2> QED
    BY <1>1, <2>1, <2>2, ProductsOfIntegers
<1> QED
  BY <1>1, <1>3, <1>4, <1>5, <1>6 DEF Benefits

(* What is paid for an amount, in multiples of the unit, to the nearest.   *)
Nearest(paid, amount, unit) ==
  /\ amount > 0 => 2 * paid - unit <= 2 * amount /\ 2 * amount < 2 * paid + unit
  /\ amount < 0 => 2 * paid - unit < 2 * amount /\ 2 * amount <= 2 * paid + unit

(* Rounding leaves the nearest multiple of the unit, away from zero from   *)
(* a half.                                                                 *)
LEMMA RoundHalfUpIsNearest ==
  ASSUME NEW amount \in Int
  PROVE  LET cents == RoundHalfUp(amount, 10000)
             points == RoundHalfUp(amount, 1000000)
         IN  /\ cents \in Int /\ points \in Int
             /\ Nearest(10000 * cents, amount, 10000)
             /\ Nearest(1000000 * points, amount, 1000000)
<1>1. CASE amount >= 0
  BY <1>1 DEF RoundHalfUp, Nearest
<1>2. CASE amount < 0
  BY <1>2 DEF RoundHalfUp, Nearest
<1> QED
  BY <1>1, <1>2

(* The export rounds up what is whole already.                             *)
LEMMA WholePointsAreExported ==
  ASSUME NEW n \in Int
  PROVE  Exported(100 * n, "points") = 100 * n
BY DEF Exported

LEMMA RebatePays ==
  ASSUME NEW m \in Rows, NEW c \in Offers, Calculation(m, Interpretation(c)) # 0
  PROVE  LET reward == Interpretation(c)
             promise == Promise(m, c)
             paid == 10000 * Exported(Rounded(Calculation(m, reward), reward), reward.unit)
             step == IF c.benefit \in DollarBenefits THEN 10000 ELSE 1000000
         IN  /\ promise # 0
             /\ Nearest(paid, promise, step)
             /\ (reward.unit = "dollars") = (c.benefit \in DollarBenefits)
<1> DEFINE reward == Interpretation(c)
           promise == Promise(m, c)
           amount == Rounded(Calculation(m, reward), reward)
<1>1. Calculation(m, reward) = promise /\ promise \in Int /\ promise # 0
  BY CalculationKeepsPromise
<1>2. reward.unit = IF c.benefit \in DollarBenefits THEN "dollars" ELSE "points"
  BY DEF Interpretation
<1>3. amount = IF reward.unit = "points" THEN 100 * RoundHalfUp(promise, 1000000)
                                         ELSE RoundHalfUp(promise, 10000)
  BY <1>1 DEF Rounded
<1> HIDE DEF reward, promise, amount
<1>4. CASE c.benefit \in DollarBenefits
  <2>1. reward.unit = "dollars" /\ Exported(amount, reward.unit) = RoundHalfUp(promise, 10000)
    BY <1>2, <1>3, <1>4 DEF Exported
  <2>2. Nearest(10000 * RoundHalfUp(promise, 10000), promise, 10000)
    BY <1>1, RoundHalfUpIsNearest
  <2> QED
    BY <1>1, <1>4, <2>1, <2>2 DEF reward, promise, amount
<1>5. CASE c.benefit \notin DollarBenefits
  <2> DEFINE points == RoundHalfUp(promise, 1000000)
  <2>1. reward.unit = "points" /\ amount = 100 * points
    BY <1>2, <1>3, <1>5
  <2>2. points \in Int /\ Nearest(1000000 * points, promise, 1000000)
    BY <1>1, RoundHalfUpIsNearest
  <2> HIDE DEF points
  <2>3. Exported(amount, reward.unit) = 100 * points
    BY <2>1, <2>2, WholePointsAreExported
  <2>4. 10000 * (100 * points) = 1000000 * points
    BY <2>2
  <2> QED
    BY <1>1, <1>5, <2>1, <2>2, <2>3, <2>4 DEF reward, promise, amount
<1> QED
  BY <1>4, <1>5

(* A rebate that is about to be issued is worth something, and those that  *)
(* were issued keep what was calculated when they were.                    *)
LEMMA PaidStep ==
  ASSUME IInv, AmountIsDue, PaidAsPromised, [Next]_vars
  PROVE  AmountIsDue' /\ PaidAsPromised'
<1> USE DEF Reward
<1>0. UNCHANGED rebates => PaidAsPromised'
  BY DEF PaidAsPromised
<1>1. CASE IssueRebate
  <2>1. /\ pc = "insert" /\ Cleared({}) /\ current \in Rows /\ criteria \in Offers
        /\ ~Cleared({})'
        /\ rebates' = rebates \cup {IssuedRebate}
    BY <1>1 DEF IssueRebate, Release, Cleared, IInv, CachedPasses
  <2>2. Calculation(current, Interpretation(criteria)) # 0
    BY <2>1 DEF AmountIsDue
  <2>3. /\ IssuedRebate.row = current /\ IssuedRebate.criteria = criteria
        /\ IssuedRebate.rewardType = Interpretation(criteria).unit
        /\ IssuedRebate.amount = Rounded(Calculation(current, Interpretation(criteria)),
                                         Interpretation(criteria))
    OBVIOUS
  <2> HIDE DEF IssuedRebate
  <2> QED
    BY <2>1, <2>2, <2>3, RebatePays DEF AmountIsDue, PaidAsPromised, Nearest
<1>2. CASE CheckUsed
  <2> DEFINE failed == FirstFailed(LastChecks(current, criteria, user))
             due == Calculation(current, Reward) # 0
  <2>1. failed \in LastStatuses \cup {"none"} /\ "RebateCreated" \notin LastStatuses
    BY LastChecksPass DEF LastStatuses
  <2> HIDE DEF failed, due
  <2>2. \/ Decide("QualifiedTransUsedAlready")
        \/ failed # "none" /\ Decide(failed)
        \/ Decide("RebateNotDue")
        \/ due /\ Decide("RebateCreated")
    BY <1>2 DEF CheckUsed, failed, due
  <2>3. UNCHANGED rebates
    BY <1>2 DEF CheckUsed
  <2> QED
    BY <1>0, <2>1, <2>2, <2>3 DEF Decide, AmountIsDue, Cleared, due
<1>3. CASE MarkAsProcessed
  <2>1. /\ UNCHANGED rebates /\ pc = "mark"
        /\ (verdict = "RebateCreated" /\ GoTo("insert")) \/ Release
    BY <1>3 DEF MarkAsProcessed
  <2> QED
    BY <1>0, <2>1 DEF GoTo, Release, AmountIsDue, Cleared
<1>4. CASE FindUser
  <2>1. "RebateCreated" \notin {"CannotFindClient"} \cup UserStatuses
    BY DEF UserStatuses
  <2>2. /\ UNCHANGED rebates
        /\ \/ pc' \in {"idle", "targeting"}
           \/ pc' = "mark" /\ verdict' \in {"CannotFindClient"} \cup UserStatuses
    BY <1>4, ChecksOfTheUserPass DEF FindUser, Decide, Release
  <2> QED
    BY <1>0, <2>1, <2>2 DEF AmountIsDue, Cleared
<1>5. ASSUME NEW m \in Rows, FindCriteria(m) PROVE AmountIsDue' /\ PaidAsPromised'
  BY <1>0, <1>5 DEF FindCriteria, AmountIsDue, Cleared
<1>6. CASE Targeting \/ Linking \/ CheckLimit
  <2>1. /\ UNCHANGED rebates
        /\ \/ GoTo("linking") \/ GoTo("limit") \/ GoTo("used") \/ Release
           \/ Decide("ClientIsNotTargeted") \/ Decide("ClientIsNotLinked")
           \/ Decide("ClientReachedCardRedLimit") \/ Decide("ClientReachedOverallRedLimit")
    BY <1>6, Zenon DEF Targeting, Linking, CheckLimit
  <2> QED
    BY <1>0, <2>1 DEF GoTo, Decide, Release, AmountIsDue, Cleared
<1>7. CASE Throw
  BY <1>0, <1>7 DEF Throw, Release, AmountIsDue, Cleared
<1>8. CASE UNCHANGED <<rebates, strategy>>
  BY <1>0, <1>8 DEF strategy, AmountIsDue, Cleared
<1>9. CASE WebPages
  BY <1>8, <1>9, WebPagesIs DEF IInv, EditUsers, processing
<1> QED
  BY <1>1, <1>2, <1>3, <1>4, <1>5, <1>6, <1>7, <1>8, <1>9
     DEF Next, Step, WebPages, NextDay, ReceiveOffer, EnterOffer, DeleteOffers, EditOffers, ReceiveUser,
         Arrive, vars, processing

(* A rebate is worth what the offer promised when its row was handled, to  *)
(* the nearest cent or point, in what is stored and in what is exported,   *)
(* and not nothing before it was rounded, whatever the sign of the terms.  *)
THEOREM Pays == Spec => []PaidAsPromised
<1>1. Init => AmountIsDue /\ PaidAsPromised
  BY DEF Init, AmountIsDue, Cleared, PaidAsPromised
<1>2. IInv /\ AmountIsDue /\ PaidAsPromised /\ [Next]_vars => AmountIsDue' /\ PaidAsPromised'
  BY PaidStep
<1> QED
  BY <1>1, <1>2, Inductive, PTL DEF Spec
=============================================================================
