SPECIFICATION HSpec
CONSTANTS
    Client = {c1, c2, c3}
    Orig = orig
    None = none
    Job = {"put", "put_f", "put_a", "cat", "cp_in", "cp_out"}
    SourceLen = {1, 2}
    OldLen = {}
    Chunk = 2
    NewSize = 1
    Fault = {"open", "creat", "lock", "seek", "ftruncate"}
SYMMETRY Symmetry
INVARIANTS
    SuccessMeansStored
    SuccessMeansFetched
    NoHoles
    RefusedLeavesNoTrace
PROPERTY
    TransfersAreAtomic
