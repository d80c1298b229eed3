CONSTANTS
    Main = main
    Consumer = consumer
    Actors = {main, consumer}
    Configs = {k1, k2}
    NoConfig = none
    Invalid = invalid
    Startup = k1
    BadInterval = {}
    MaxGens = 4
    MaxEvents = 3
    EarlyEdits = FALSE
    Endings = {}
SPECIFICATION FairSpec
CHECK_DEADLOCK FALSE
PROPERTY LastEditRuns
