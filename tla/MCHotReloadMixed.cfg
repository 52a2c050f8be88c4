SPECIFICATION Spec
CONSTANT
    MaxEdits = 2
INVARIANTS
    ReplacedAsWhole
CHECK_DEADLOCK FALSE
