SPECIFICATION PipelineSpec
CONSTANTS
    p = p  q = q  f = f  g = g
    Path = {p}
    File = {f}
    Files <- Tree
    Size <- Bytes
    Sizes = {0, 1, 2}
    StaleAfter = 1
    MaxClock = 4
    MaxCycles = 2
INVARIANTS StaleWithdrawn
