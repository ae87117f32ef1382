SPECIFICATION Spec
CONSTANTS
    Name = {"a", "b", "c"}
    Path <- MCPath
    Client = {c1, c2}
    StartTree <- MCStartTree
    Command <- MCCommand
    Fault = {}
    None = none
PROPERTY
    MkdirMakesTheDirectory
