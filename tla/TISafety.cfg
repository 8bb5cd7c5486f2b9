SPECIFICATION TIFairSpec
CONSTANTS
  i1 = i1
  i2 = i2
  i3 = i3
  Imports <- MCImports
  Uploads <- MCUploads
  Versions <- MCVersions
  Malformed <- MCMalformed
  MaxFailures = 1
INVARIANTS
  CompleteIsWhole
  FailedCanBeRepeated
  ConnectionsAreClosed
CHECK_DEADLOCK FALSE
