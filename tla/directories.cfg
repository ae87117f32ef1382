SPECIFICATION Spec
CONSTANTS
    Name = {"a", "b", "c"}
    Path <- MCPath
    Client = {c1, c2, c3}
    StartTree <- MCStartTree
    Command <- MCCommand
    Fault = {"mkdir", "stat", "rmdir", "unlink", "creat", "write"}
    None = none
INVARIANTS
    DirectoriesInvariant
    MakersDoNotCollide
PROPERTY
    KeepsPromise
