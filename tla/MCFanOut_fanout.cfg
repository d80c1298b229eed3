CONSTANTS
    Size = 3
    Limit = 2
SPECIFICATION FairPoolSpec
CHECK_DEADLOCK FALSE
INVARIANT FailuresStayLocal
INVARIANT EachOnce
PROPERTY CollectReturns
