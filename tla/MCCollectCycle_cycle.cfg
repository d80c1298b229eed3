CONSTANTS
    Clusters = {c1, c2}
    Collectors <- Two
    Faulty = {c1}
    Clashing = {c1}
    MaxCycles = 2
    MaxReloads = 1
SPECIFICATION FairSpec
CHECK_DEADLOCK FALSE
INVARIANT UpMeansData
INVARIANT WholeCycle
INVARIANT HealthyStayUp
PROPERTY CycleEnds
