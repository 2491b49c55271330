CONSTANTS
    f = f
    g = g
    h = h
    header = header
    fnt = fnt
    Files <- MCFiles
    System <- MCSystem
    Fnt <- fnt
    Free = free
    Align = 2
    Layouts <- MCLayouts
    MaxAddr = 11
    MaxRecords = 2
SPECIFICATION Spec
INVARIANTS TypeOK NoOverlap PlaceIsFree OthersIntact RomConsistent
CHECK_DEADLOCK FALSE
