SPECIFICATION HSpec
CONSTANTS
    Client = {c1, c2}
    Orig = orig
    None = none
    Job = {"put", "put_f", "put_a", "cat", "cp_in", "cp_out", "mv_in", "mv_out"}
    SourceLen = {0, 1, 2}
    OldLen = {}
    Chunk = 2
    NewSize = 1
    Fault = {"read", "write", "srcread", "dstwrite", "kill"}
SYMMETRY Symmetry
INVARIANTS
    DataInvariant
    SomeoneSucceeds
PROPERTIES
    TransfersAreAtomic
    AppendKeepsData
    OriginalKept
