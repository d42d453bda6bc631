SPECIFICATION PipelineSpec
CONSTANTS
    p = p  q = q  f = f  g = g
    Path = {p}
    File = {f, g}
    Files <- Tree
    Size <- Bytes
    Sizes = {0, 1, 2, 3}
    StaleAfter = 1
    MaxClock = 4
    MaxCycles = 3
INVARIANTS GrowthTelescopes DeltaSpansCompletedScans ShownIffFresh SuccessMeansCurrent InProgressExact ShownIsWhole
PROPERTIES OnlyCompleteMoves ServesTheStore
