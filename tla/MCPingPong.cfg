SPECIFICATION Spec
CONSTANTS
    PingAfter = 6
    TimeoutAfter = 14
    MaxPause = 1
    Servers <- MCServers
    MaxDelay = 2
    MaxTime = 36
INVARIANT TypeOK
INVARIANT SilenceIsNoticed
INVARIANT AnsweringIsKept
