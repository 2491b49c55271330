CONSTANTS
    Kinds = {"ppf"}
    Typed <- MCTyped
    MaxRuns = 1
    MaxExts = 2
SPECIFICATION Spec
INVARIANT BackupKept
