CONSTANTS
    Data = {old, new}
    Options <- MCOptions
    Sessions = {s1, s2, s3}
    Flows = {f1}
    MaxReloads = 1
SPECIFICATION Spec
INVARIANTS
    OptionsCurrent
CHECK_DEADLOCK FALSE
