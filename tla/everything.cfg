SPECIFICATION Spec
CONSTANTS
    Client = {c1, c2}
    Orig = orig
    None = none
    Job = {"put", "put_f", "put_a", "cat", "cp_in", "cp_out", "rr_in", "rr_out", "mv_in", "mv_out", "trunc", "trunc_sh", "rm"}
    SourceLen = {0, 2}
    OldLen = {}
    Chunk = 2
    NewSize = 1
    Fault = {"lstat", "open", "creat", "lock", "seek", "ftruncate", "read", "write", "srcread", "dstwrite", "local", "unlink", "truncate", "close", "kill"}
INVARIANTS
    LockInvariant
    DataPhaseLocked
    LocksAreReleased
    DataPhaseExclusive
PROPERTY
    Termination
