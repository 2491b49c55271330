CONSTANTS
    N = 2
    Early <- NoEarly
    GapTaps = TRUE
SPECIFICATION Spec
PROPERTY DialogEventuallyGone
