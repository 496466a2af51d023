SPECIFICATION SwitchLiveSpec
CONSTANTS
  fast = fast
  slow = slow
  Endpoints = {fast, slow}
  Interval <- MCInterval
  Base = 2
  Early = 1
  Horizon = 3
  MaxCycle = 1
  FirstRefreshOf = {}
  Errors = {"connection"}
  Written = {slow}
  MayDisable = {fast}
  MaxGeneration = 1
  Changing = {fast, slow}
  MaxVersion = 2
  Switches = {a}
  EndpointOf <- MCEndpointOf
PROPERTIES
  OptimisticEnds
  FailedRecovers
  OldDataGoes
