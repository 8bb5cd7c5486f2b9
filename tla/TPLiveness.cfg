CONSTANTS
  Messages <- MCMessages
  Users <- MCUsers
  Workers <- MCWorkers
  Hashes <- MCHashes
  RedemptionLimit <- MCRedemptionLimit
  LimitType <- MCPerCard
  MaxRows = 2
  Faults <- NoFaults
SPECIFICATION FairSpec
PROPERTIES
  RunFinishes
  EveryRowProcessed
  EveryRebateExported
