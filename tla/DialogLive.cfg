\* TCP, one request of each user, "B" answers re-INVITEs later.
SPECIFICATION FairSpec
CONSTANTS
    Settings <- LiveSettings
    MaxQueued = 1
PROPERTIES EndsTogether QueueDrains
\* The system stops when the call is over.
CHECK_DEADLOCK FALSE
