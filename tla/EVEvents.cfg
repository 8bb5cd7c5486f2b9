SPECIFICATION FairSpec
CONSTANTS
  NoRebate = NoRebate
  Rebates = {"r1", "r2"}
  Exporters = {"export"}
  Processors = {"worker"}
  MaxFaults = 2
INVARIANTS
  EventsTellWhatWas
  EventsInOrder
PROPERTIES
  EveryUpdateIsTold
CHECK_DEADLOCK FALSE
