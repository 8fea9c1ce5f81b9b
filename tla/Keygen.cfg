SPECIFICATION FairSpec
CONSTANTS
    Accounts = {"katagrapho", "recorder"}
    MaxFaults = 3
INVARIANTS
    ReadyAfterSuccess
    KeyFilesSound
    SignedKeySurvives
PROPERTIES
    EventuallyReady
