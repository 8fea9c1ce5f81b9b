SPECIFICATION FairSpec
CONSTANTS
    r1 = r1
    r2 = r2
    Recorders <- TwoRecorders
    MaxPart = 1
    MaxFaults = 2
    FaultKinds <- AllFaults
    Genesis = Genesis
    Nothing = Nothing
    OldManifest = OldManifest
INVARIANTS
    TypeOK
    IInv
    HistoryIntact
    QuietAudit
    CleanAudit
    DamageBounded
    AckedOnSpine
    AckedLogged
    DamageAtTail
    LogFollowsSpine
PROPERTIES
    HeadAdvances
    AckHeals
    UnreadableTailStays
    LedgerSpec
    CommitEnds
