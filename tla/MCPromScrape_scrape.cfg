CONSTANTS
    Names = {"up", "m"}
    Entries <- AllEntries
    Snapshots <- FewSamples
    Custom <- TwoValues
    ClusterKey = "cluster"
    LabelKeys = {"cluster", "env", "op"}
    LabelValues = {"a", "b", "p", "q", "", "x", "bad"}
    IsFit <- NoBadValue
SPECIFICATION Spec
INVARIANT OneSchema
INVARIANT SeriesUnique
INVARIANT ExposesFirst
INVARIANT NothingHidden
