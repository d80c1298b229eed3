CONSTANTS
    Keys <- MCKeys
    Lower <- MCLower
    Short <- MCShort
    Inventories <- MCInventories
    Queries <- ThreeQueries
    PerNode = {"cpu", "dt"}
    DTPerNode = {"dt"}
    Rows <- SomeRows
    Failures <- MCFailures
    Finds <- MCFinds
    MaxReloads = 1
SPECIFICATION Spec
CHECK_DEADLOCK FALSE
INVARIANT IndexInv
INVARIANT JoinIsSound
INVARIANT OthersSurvive
INVARIANT OneWarningPerSilence
INVARIANT UnmappedTells
