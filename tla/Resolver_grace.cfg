SPECIFICATION Spec
CONSTANTS
    p = p  q = q
    Path = {p, q}
    Max = 1
    Retain = 2
    MaxClock = 5
    MaxPasses = 5
INVARIANTS NothingLingers GraceEndsRefusals
PROPERTIES DropsRespectGrace
SYMMETRY Paths
