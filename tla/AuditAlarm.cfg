SPECIFICATION AuditSpec
CONSTANTS
    r1 = r1
    r2 = r2
    Recorders <- TwoRecorders
    MaxPart = 0
    MaxFaults = 0
    FaultKinds <- NoFaults
    Genesis = Genesis
    Nothing = Nothing
    OldManifest = OldManifest
INVARIANTS
    DisagreementIsEdit
