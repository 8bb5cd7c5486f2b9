SPECIFICATION FairSpec
CONSTANTS
  r1 = r1
  r2 = r2
  master = master
  web = web
  Rebates <- MCRebates
  Exporters <- MCTwoExporters
  Overlapping = FALSE
  MaxFaults = 2
INVARIANTS
  MarkedAreReported
  OncePerFault
PROPERTIES
  MarkedFromAFile
  DeliverySpec
  EveryIssuedIsMarked
