SPECIFICATION HSpec
CONSTANTS
    Client = {c1, c2}
    Orig = orig
    None = none
    Job = {"mv_in", "put_f"}
    SourceLen = {1}
    OldLen = {}
    Chunk = 1
    NewSize = 1
    Fault = {}
PROPERTY
    FailedMoveKeepsSource
