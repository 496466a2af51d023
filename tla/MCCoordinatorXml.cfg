SPECIFICATION Spec
CONSTANTS
  fast = fast
  slow = slow
  Endpoints = {fast, slow}
  Interval <- MCInterval
  Base = 2
  Early = 1
  Horizon = 7
  MaxCycle = 1
  FirstRefreshOf = {slow}
  Errors = {"connection", "auth", "access", "api"}
  Written = {slow}
  MayDisable = {}
  MaxGeneration = 1
  Changing = {slow}
  MaxVersion = 2
INVARIANTS
  TypeOK
  FailedIsDue
  NotStale
PROPERTIES
  NoFalseRecovery
