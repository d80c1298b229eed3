CONSTANTS
    KeyOrder <- MCKeyOrder
    Malformed <- MCMalformed
    Reserved <- MCReserved
    Environments <- MCEnvironments
    DotEnvs <- MCDotEnvs
    Mounts <- MCMounts
    Files <- MCFiles
    Edits <- MCEdits
    Answers <- MCAnswers
    MaxCycles = 1
SPECIFICATION Spec
CHECK_DEADLOCK FALSE
INVARIANT OneSource
INVARIANT OneShape
INVARIANT FreshOrAbsent
INVARIANT NoSilentLoss
INVARIANT ConfigIsMeant
