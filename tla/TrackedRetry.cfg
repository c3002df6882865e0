\* Every choice of options of the retries, with up to two of them; a half of
\* the first wait is one unit, and the second wait may be cut to the longest.
\* Every reason for the tracking to throw, and what avoids it.
SPECIFICATION TrackedFairSpec
CONSTANTS
    MaxRetries = 2
    Delay = 2
    MaxDelay = 3
    Trackings <- EachReason
CHECK_DEADLOCK FALSE
INVARIANTS TrackedTypeOK NoOverlap TrailHonest DoneIsToldDone
PROPERTIES AwaitedAnswer RequestAnswered ImplementsTrackedCall
