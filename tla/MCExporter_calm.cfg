CONSTANTS
    Main = main
    Consumer = consumer
    Actors = {main, consumer}
    Configs = {k1, k2}
    NoConfig = none
    Invalid = invalid
    Startup = k1
    BadInterval = {k2}
    MaxGens = 3
    MaxEvents = 2
    EarlyEdits = FALSE
    Endings = {"signal", "server"}
SPECIFICATION FairSpec
CHECK_DEADLOCK FALSE
INVARIANT ShutdownLogsOut
INVARIANT OnlyNewestPolls
INVARIANT NoForgottenSession
PROPERTY SnapshotNeverOlder
PROPERTY CutIsReplaced
PROPERTY ReloadReturns
PROPERTY LeavingExits
PROPERTY KeepsContract
