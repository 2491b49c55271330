CONSTANTS
    Kinds = {"nmp"}
    Typed <- MCTyped
    MaxRuns = 1
    MaxExts = 2
SPECIFICATION Spec
INVARIANT RenamedToTyped
