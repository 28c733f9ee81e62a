\* Calls are alike: only which of them is current, or listed, tells them apart.
SPECIFICATION Spec
CONSTANTS
    Calls = {c1, c2}
    MaxCalls = 2
    None = none
    Settings <- SettingsValue
SYMMETRY Symmetry
INVARIANTS TypeOK SoundIsExclusive StaysSilent
