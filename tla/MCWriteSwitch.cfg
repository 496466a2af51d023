SPECIFICATION SwitchSpec
CONSTANTS
  fast = fast
  slow = slow
  Endpoints = {slow}
  Interval <- MCInterval
  Base = 2
  Early = 1
  Horizon = 5
  MaxCycle = 1
  FirstRefreshOf = {slow}
  Errors = {"connection", "auth", "access", "api"}
  Written = {slow}
  MayDisable = {}
  MaxGeneration = 2
  Changing = {slow}
  MaxVersion = 3
  Switches = {a, b}
  EndpointOf <- MCEndpointOf
INVARIANTS
  NoFlipBack
  PromptReread
