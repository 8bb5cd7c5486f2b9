SPECIFICATION FairSpec
CONSTANTS
  NoUser = NoUser
  NoEntry = NoEntry
  Users = {"ava", "bo"}
  Infos = {"none", "linked"}
  Topic <- MCTopic
  Requests = {"r1"}
  NewTimes = {0, 2}
  SecondsPerDay = 2
  DaysPerMonth = 1
  LastSecond = 2
  MaxFetched = 1
  MaxRequests = 2
  MaxFaults = 1
INVARIANTS
  LedgerFollowsUsers
  ClosedDaysAreTrue
  PartitionsComeInTime
PROPERTIES
  RecordedEntriesStay
  EveryEventIsHandled
CHECK_DEADLOCK FALSE
