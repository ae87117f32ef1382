CONSTANTS
    Conn = {c1, c2, c3}
    Path = {p1, p2}
    Fault = {"getfs", "apply", "fini", "malloc", "open", "tail"}
    None = None
SPECIFICATION Spec
INVARIANTS SessionInvariant ConnectMatches PromptTruthful FailedConnectKeepsSession DescriptorsCloseFirst CleanExit ReleasedTwiceOnlyByInterrupt OneDescriptorPerPath
PROPERTIES CommandsEnd InterruptEnds
