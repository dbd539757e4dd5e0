\* Two senders against a queue of two, a connection that fails twice, stop().
CONSTANTS
    Producers = {main, commands}
    QueueMax = 2
    BackoffStart = 1
    BackoffMax = 3
    MaxSends = 5
    MaxFaults = 2
SPECIFICATION FairSpec
INVARIANTS
    TypeOK
    QueueHoldsTheLatest
    ClosedIsKnown
PROPERTIES
    ActsAsMailbox
    FailureEndsSession
    SharedIsFinal
    LossIsNoticed
    QueueDrains
\* The thread ends, and the senders fall silent at the bound.
CHECK_DEADLOCK FALSE
