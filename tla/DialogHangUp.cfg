SPECIFICATION Spec
CONSTANTS
    Settings <- StayingSettings
    MaxQueued = 1
INVARIANTS HangUpIsHandled
CHECK_DEADLOCK FALSE
