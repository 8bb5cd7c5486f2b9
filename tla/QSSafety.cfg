SPECIFICATION FairSpec
CONSTANTS
  NoOffer = NoOffer
  NoUser = NoUser
  NoRow = NoRow
  Rows <- MCRows
  OfferEvents <- MCOfferEvents
  EnteredOffers <- MCEnteredOffers
  UserEvents <- MCUserEvents
  EnteredUsers <- MCEnteredUsers
  LastDay = 2
  MaxEntries = 1
  MaxDisturbances = 1
INVARIANTS
  RebatesAreDeserved
  PaidAsPromised
  SettledDaysDecide
PROPERTIES
  EveryRowDecided
CHECK_DEADLOCK FALSE
