\* Two sources of three packets, a queue of two.
SPECIFICATION Spec
CONSTANTS
    SeqSize = 10
    TsSize = 64
    TsJump = 4
    MaxQueue = 2
    MaxSources = 2
    First <- FirstValue
    Start <- StartValue
    Steps <- StepsValue
    MaxPackets = 3
    MaxLate = 2
    None = None
    Settings <- SettingsValue
INVARIANTS TypeOK
PROPERTIES OneStreamInOrder
\* The receiver stops when nothing is queued and the sources are silent.
CHECK_DEADLOCK FALSE
