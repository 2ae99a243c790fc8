SPECIFICATION Spec
CONSTANTS
    Requests = {r1, r2}
    Idle = 5
    Touch = 2
    MaxAge = 8
    Horizon = 11
INVARIANT MapIsGuarded
CHECK_DEADLOCK FALSE
