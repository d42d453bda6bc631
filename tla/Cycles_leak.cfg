SPECIFICATION Spec
CONSTANTS
    p = p  q = q
    Path = {p, q}
    NoPath = NoPath  Rank <- PathRank
    v = v  Volume = {v}  VolumeOf <- OneVolume
    w = w  Worker = {w}
    MaxCycles = 2
INVARIANTS LeakIsBounded
