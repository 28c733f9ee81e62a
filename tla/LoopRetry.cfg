\* A timer, a socket and two tasks; the socket may be added again.
SPECIFICATION Spec
CONSTANTS
    Timers = {t1}
    Sockets = {s1}
    Tasks = {d1, d2}
    Readded = {s1}
    Delays = {1}
    MaxLate = 1
    None = none
PROPERTY AddedIsServed
CHECK_DEADLOCK FALSE
