CONSTANTS
    BucketRows <- SomeRows
    Hosts = {"h1", "h2", "h3"}
    Ids = {"read", "other"}
    Bounds = {"b", "+Inf"}
    Inf = "+Inf"
    NodeOf <- NodeMap
    OpOf <- OpMap
    Absent = absent
    MaxRows = 6
SPECIFICATION BucketSpec
CHECK_DEADLOCK FALSE
INVARIANT AllOrNothing
INVARIANT CountIsInf
INVARIANT OrderIndependent
