CONSTANTS
    Names = {1, 2}
    Cycles = {"startup", "reload"}
    MaxStores = 3
    MaxPushes = 2
SPECIFICATION Spec
CHECK_DEADLOCK FALSE
INVARIANT OneInstrumentPerName
INVARIANT QuietPushIsTheSnapshot
