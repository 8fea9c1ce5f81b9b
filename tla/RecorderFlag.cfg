SPECIFICATION Spec
CONSTANTS
    MaxRecords = 4
    Lengths <- SmallAndLarge
    HeaderLength = 1
    Configs <- Accepted
    MAX_FILE_SIZE = 4
    MIN_PART_BYTES = 2
    Slack = 5
    Inherited <- Loose
    Chunk = 7
    Tag = 1
    AgeHeader = 2
    IoErrors = FALSE
INVARIANTS
    FailedFinalizeReported
