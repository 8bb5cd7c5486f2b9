SPECIFICATION FairSpec
CONSTANTS
  r1 = r1
  r2 = r2
  p1 = p1
  p2 = p2
  NoRebateId = NoRebateId
  NotANumber = NotANumber
  NoMessage = NoMessage
  NoTransaction = NoTransaction
  Rebates <- MCRebates
  Processors <- MCProcessors
  AccountOf <- MCAccountOf
  AmountOf <- MCAmountOf
  KnownUsers <- MCKnownUsers
  Messages <- Contenders
  MaxFaults = 2
INVARIANTS
  FulfilledHasItsRow
  JournalFollows
  SuccessMeansFulfilled
PROPERTIES
  ClaimsSpec
  EveryNumberedRowProcessed
CHECK_DEADLOCK FALSE
