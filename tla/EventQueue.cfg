SPECIFICATION Spec
CONSTANTS
  Size = 4
  Kinds <- KindsValue
  Lengths <- LengthsValue
  Writers = {"audio", "video"}
  Settings <- SettingsValue
INVARIANTS TypeOK DeliveredInOrder
\* the program ends where it reads what is no event
CHECK_DEADLOCK FALSE
