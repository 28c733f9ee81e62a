\* TCP with busy users, TCP with careful ones, UDP.
SPECIFICATION Spec
CONSTANTS
    Settings <- SafetySettings
    MaxQueued = 1
INVARIANTS TypeOK AckedOrHungUp TimersWaitForAck CallIsNotDropped NoCrossedOffers NoPhantomCall
\* The system stops when the call is over.
CHECK_DEADLOCK FALSE
