SPECIFICATION Spec
CONSTANTS
    Conn = {c1, c2}
    Path = {p1}
    Fault = {}
    None = None
INVARIANT ListReleasedOnce
