\* Two viewers, two frames, two faults, and stop() at any time.
CONSTANTS
    Viewers = {v1, v2}
    BackoffStart = 1
    BackoffMax = 3
    MaxFrames = 2
    MaxFaults = 2
SPECIFICATION FairSpec
INVARIANTS
    TypeOK
    NobodySleepsThroughAFrame
    StopHangsUp
    SlotGivenBack
PROPERTIES
    StopIsShort
    StopEnds
    HealthRecovers
    Reconnects
\* The source ends with stop().
CHECK_DEADLOCK FALSE
