CONSTANTS
    Followed <- MCOthers
SPECIFICATION LiveSpec
INVARIANTS
    OneIdentity
    CreatedRight
PROPERTIES
    OnlyTheUser
    OrphanRestored
    Appears
