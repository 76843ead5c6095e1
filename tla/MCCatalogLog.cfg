SPECIFICATION Spec
CONSTANTS
    MaxTx = 2
    MaxCheckpoint = 2
    MaxFailures = 2
    MaxReads = 2
CHECK_DEADLOCK FALSE
INVARIANTS
    OutcomesOpen
    ReadyIsDurable
    WriterRecovers
    ReaderNeverFails
PROPERTIES
    RefinesHistory
    ReaderAdvances
