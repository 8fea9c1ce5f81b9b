SPECIFICATION Spec
CONSTANTS
    r1 = r1
    r2 = r2
    Recorders <- TwoRecorders
    MaxPart = 1
    MaxFaults = 1
    FaultKinds <- ProcessFaults
    Genesis = Genesis
    Nothing = Nothing
    OldManifest = OldManifest
INVARIANTS
    ForksAreRewrites
