SPECIFICATION Spec
CONSTANTS
    Host = {h1, h2}
    VolumeName = {v1, v2}
    Path = {p, q}
    DirPath = {top, d}
    Entry <- MCEntry
    p = p
    q = q
    top = top
    d = d
    Local = local
    None = none
    Part = part
    Stdin = stdin
    Directory = directory
    LastWrite = {1, 256}
    Fault = {"getfs", "apply", "logging", "request", "io", "heap"}
SYMMETRY Symmetry
INVARIANTS
    InvocationInvariant
    ResultsMatch
    ConnectionsReleased
    ZeroMeansDone
PROPERTIES
    OnlyNamedFilesChange
    ConnectedBeforeChange
