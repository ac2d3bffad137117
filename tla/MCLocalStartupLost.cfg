SPECIFICATION Spec
CONSTANTS
    MaxTrouble = 3
INVARIANTS
    CommittedIsPreserved
