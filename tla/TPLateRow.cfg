CONSTANTS
  Messages <- MCMessages
  Users <- MCUsers
  Workers <- MCWorkers
  Hashes <- MCHashes
  RedemptionLimit <- MCRedemptionLimit
  LimitType <- MCPerCard
  MaxRows = 2
  Faults <- Arrivals
SPECIFICATION FairSpec
PROPERTY RunFinishes
