SPECIFICATION LiveSpec
CONSTANTS
  a = a
  b = b
  Objects = {a, b}
  FamilyCount = 2
  RemoveStale = {1, 2}
  TrustEmpty = {2}
  ConfirmMissing = {2}
  Written = {1}
  Confirmations = 3
INVARIANTS
  ObjectsShown
PROPERTIES
  LastEntityConfirmed
  MissingConfirmed
  StaleGoes
