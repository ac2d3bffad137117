SPECIFICATION Spec
CONSTANTS
    MaxTrouble = 3
PROPERTIES
    StartupLosesNothing
    StartsOnSoundStore
    ComesUpUnlessCutShort
