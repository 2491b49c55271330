CONSTANTS
    Editors = {e1, e2}
    Null = null
    MaxSize = 3
    MaxOpen = 2
SPECIFICATION Spec
INVARIANTS TypeOK LockInvariants OpenCanClose EditionsBracketed
PROPERTY WritesRespectIntervals
