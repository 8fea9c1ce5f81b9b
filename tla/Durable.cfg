SPECIFICATION Spec
CONSTANTS
    MaxParts = 4
    MaxLosses = 3
INVARIANTS
    FilesWhole
    LogNeverAhead
    AckedSurvives
    HeldOnOneVolume
