SPECIFICATION Spec
CONSTANTS
    MaxParts = 2
    MaxLosses = 1
INVARIANTS
    HeadIsHeld
