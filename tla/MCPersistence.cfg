CONSTANTS
    Record = {r1, r2}
    Parts = 2
    MaxLines = 3
    MaxCrashes = 3
SPECIFICATION Spec
SYMMETRY Symmetry
CHECK_DEADLOCK FALSE
INVARIANT RecoverySucceeds
PROPERTY JournalSpec
