CONSTANTS
    Callers = {c1, c2}
    MaxCalls = 2
    MaxLogins = 3
    MaxExpiries = 1
    MaxLost = 0
SPECIFICATION Spec
CHECK_DEADLOCK FALSE
INVARIANT HoldsOneToken
