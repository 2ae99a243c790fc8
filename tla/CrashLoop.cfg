\* One operator, a unit that systemd starts again two polls after each death.
SPECIFICATION Spec
CONSTANTS
    Clients = {c1}
    Settle = 2
    Window = 8
    Burst = 3
    LoopRestarts = 2
    RestartDelays = {2}
    MaxTime = 6
    MaxRequests = 1
INVARIANT LoopIsNotShownRunning
CHECK_DEADLOCK FALSE
