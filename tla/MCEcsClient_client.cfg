CONSTANTS
    Callers = {c1, c2}
    MaxCalls = 2
    MaxLogins = 3
    MaxExpiries = 1
    MaxLost = 1
SPECIFICATION FairSpec
CHECK_DEADLOCK FALSE
INVARIANT SingleFlight
INVARIANT NoOrphan
INVARIANT CloseReleasesAll
INVARIANT ExpiryCostsNoCall
PROPERTY ImplementsCell
PROPERTY CallReturns
