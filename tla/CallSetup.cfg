\* TCP, with a connection that may be lost at any time, and UDP: what is sent
\* is received late, out of order or never.
SPECIFICATION FairSpec
CONSTANT Transports = {TRUE, FALSE}
INVARIANTS TypeOK SilentOnceReleased
PROPERTIES HangUpIsFinal EndsAgree
\* The system stops when the call is over or nobody ends it.
CHECK_DEADLOCK FALSE
