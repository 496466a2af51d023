CONSTANTS
    Data = {old, new}
    Options <- MCOptions
    Sessions = {s1, s2, s3}
    Flows = {f1, f2}
    MaxReloads = 2
SYMMETRY Symmetry
SPECIFICATION Spec
INVARIANTS
    SessionsClosed
    ConnectionCurrent
    RevokedIsOver
    IssuesApply
    PromiseKept
PROPERTIES
    ReloadedOnce
    NeverReplaced
