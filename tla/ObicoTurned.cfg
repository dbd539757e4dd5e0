\* A message is sent into the connection that Obico has just closed with 4321.
CONSTANTS
    Producers = {main, commands}
    QueueMax = 2
    BackoffStart = 1
    BackoffMax = 3
    MaxSends = 4
    MaxFaults = 2
SPECIFICATION Spec
PROPERTIES
    TurnedAwayStaysAway
CHECK_DEADLOCK FALSE
