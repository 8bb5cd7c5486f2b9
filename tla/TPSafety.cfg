CONSTANTS
  Messages <- MCMessages
  Users <- MCUsers
  Workers <- MCWorkers
  Hashes <- MCHashes
  RedemptionLimit <- MCRedemptionLimit
  LimitType <- MCOverall
  MaxRows = 2
  Faults <- RunFaults
SPECIFICATION Spec
INVARIANTS
  SequentialPerUser
  OneRebatePerTransaction
  RedemptionLimitRespected
  RejectionsAreJustified
PROPERTIES ProcessedIsFinal
