CONSTANTS
    ours = ours
    theirs = theirs
    Absent = Absent
    Publishers = {ours, theirs}
    Contents = {ours, theirs}
    ContentOf <- MCContentOf
    Pinned = ours
    Archives <- MCArchives
    Requests <- MCRequests
    MaxInterrupts = 2
SPECIFICATION SdkSpec
INVARIANTS
    SdkTypeOK
    PublishTruthful
    NothingUnpinnedUnpacked
    SetupOutcome
PROPERTIES
    AssetNeverOverwritten
    SetupEnds
