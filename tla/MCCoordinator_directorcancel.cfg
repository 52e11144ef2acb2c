CONSTANTS
    MaxTries = 3
    MaxFlips = 4
SPECIFICATION Spec
CHECK_DEADLOCK FALSE
PROPERTY DirectorExitsOnCancel
