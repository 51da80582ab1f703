SPECIFICATION FairSpec
CONSTANTS
    Size = 2
    MaxTransfers = 2
    MaxDrops = 1
INVARIANTS
    DownloadAsServed
    NextTransferAccepted
    NothingLeftBehind
PROPERTIES
    UploadIsAtomic
    TransferEnds
CHECK_DEADLOCK FALSE
