CONSTANTS
    Kinds <- MCKinds
    Typed <- MCTyped
    MaxRuns = 2
    MaxExts = 2
SPECIFICATION Spec
INVARIANTS
    TypeOK
    OriginalSurvives
    OnlyAskedOverwrites
    SuccessLayout
    PatchedNeverLosesBoth
