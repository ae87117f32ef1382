SPECIFICATION HSpec
CONSTANTS
    Client = {c1}
    Orig = orig
    None = none
    Job = {"put", "put_f", "cp_in"}
    SourceLen = {1, 2}
    OldLen = {}
    Chunk = 1
    NewSize = 1
    Fault = {"write"}
INVARIANT
    SuccessMeansStored
