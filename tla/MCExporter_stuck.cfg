CONSTANTS
    Main = main
    Consumer = consumer
    Actors = {main, consumer}
    Configs = {k1, k2}
    NoConfig = none
    Invalid = invalid
    Startup = k1
    BadInterval = {}
    MaxGens = 3
    MaxEvents = 2
    EarlyEdits = TRUE
    Endings = {}
SPECIFICATION FairSpec
CHECK_DEADLOCK FALSE
PROPERTY ReloadReturns
