SPECIFICATION Spec
CONSTANTS
    BufSize = 2
    IntBits = 3
    Number = {0, 1, 4}
    StartData <- MCStartData
    NewData <- MCNewData
    MaxChanges = 2
    Weight = 2
    Others = {}
    Fault = {}
    None = none
INVARIANT
    NoLineIsMissing
