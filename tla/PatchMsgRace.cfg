CONSTANTS
    N = 3
    Early <- AllEarly
    GapTaps = FALSE
SPECIFICATION Spec
INVARIANT DialogHasDismisser
