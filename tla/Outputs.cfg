SPECIFICATION FairSpec
CONSTANTS
  Refreshes = {60, 144}
  MaxRefresh = 2147483647
  MaxOutputs = 2
  MaxSwitches = 2
  MaxBatons = 2
INVARIANTS TypeOK VsyncOutputConnected BatonConserved MirrorConverges
PROPERTIES BatonReturned
CHECK_DEADLOCK FALSE
