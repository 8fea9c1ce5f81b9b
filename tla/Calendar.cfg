SPECIFICATION Spec
CONSTANTS
    LastDay = 160000
INVARIANTS
    DateRight
