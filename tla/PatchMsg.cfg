CONSTANTS
    N = 3
    Early <- NoEarly
    GapTaps = FALSE
SPECIFICATION Spec
INVARIANTS TypeOK OwnMessage DialogCoversWork
PROPERTIES EveryRunReported Reported
