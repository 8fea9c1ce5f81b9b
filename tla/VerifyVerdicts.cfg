SPECIFICATION Spec
CONSTANTS
    h1 = h1
    h2 = h2
    h3 = h3
    h4 = h4
    Hashes <- FourHashes
    Written <- ThreeSigned
    Older <- OneOlder
    MaxLines = 4
    Genesis = Genesis
    Nothing = Nothing
INVARIANTS
    ManifestVerdictRight
    LogVerdictRight
    TailAnchored
