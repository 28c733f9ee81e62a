\* Four faults, two calls of the application.
SPECIFICATION FairSpec
CONSTANTS
    MaxFaults = 4
    MaxAsked = 2
    MaxAge = 1
INVARIANTS TypeOK NeverForgotten StaysUnregistered
PROPERTIES RegistrationReturns
\* The system stops once it is unregistered, or refused.
CHECK_DEADLOCK FALSE
