SPECIFICATION AuditSpec
CONSTANTS
    r1 = r1
    r2 = r2
    Recorders <- TwoRecorders
    MaxPart = 0
    MaxFaults = 1
    FaultKinds <- ProcessFaults
    Genesis = Genesis
    Nothing = Nothing
    OldManifest = OldManifest
SYMMETRY TwoSymmetric
INVARIANTS
    UndisturbedAuditVerifies
    NoFalseTruncation
    VerifiedIsHistory
    UnsignedFound
