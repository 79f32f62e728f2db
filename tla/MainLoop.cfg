\* three timers and a clock that is set once, or two requests to the faucet
SPECIFICATION Spec
CONSTANTS
    MaxNow = 3
    MaxTimers = 3
    MaxJumps = 1
    Durations = {1, 2}
    Posts = {1, 2}
    Bodies = {2}
PROPERTIES TimersFire FaucetReports
CHECK_DEADLOCK FALSE
