SPECIFICATION Spec
CONSTANTS
    MaxTrouble = 1
INVARIANTS
    ReopensAfterEveryStop
