SPECIFICATION FairSpec
CONSTANTS
    MaxRecords = 4
    Lengths <- SmallAndLarge
    HeaderLength = 1
    Configs <- Sections
    MAX_FILE_SIZE = 4
    MIN_PART_BYTES = 1
    Slack = 5
    Inherited <- TightAndLoose
    Chunk = 7
    Tag = 1
    AgeHeader = 2
    IoErrors = TRUE
INVARIANTS
    TypeOK
    NoRecordLost
    EofIsComplete
    SignedIsFinal
    PartsFollow
    OvershootOneRecord
    LimitNeedsLongRecord
PROPERTIES
    EndsAfterClose
    SignalEndsBusySession
