SPECIFICATION FairSpec

CONSTANTS
  r1 = r1
  r2 = r2
  o1 = o1
  o2 = o2
  s1 = s1
  s2 = s2
  Rebates <- MCRebates
  Offers <- MCOffers
  OfferOf <- MCOfferOf
  MopOffers <- MCMopOffers
  Syncs <- TwoSyncs
  MaxFaults = 2

INVARIANTS
  OnlyLateOnesAreMissing
  CountedOnceAndPerFault
PROPERTIES
  EveryFulfilledIsSynced
