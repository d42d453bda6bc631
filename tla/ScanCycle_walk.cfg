SPECIFICATION Spec
CONSTANTS
    w1 = w1  w2 = w2  t1 = t1  t2 = t2
    r1 = r1  r2 = r2  a = a  b = b  c = c  d = d  f = f  fa = fa  fb = fb  s = s
    Target = {t1}
    Worker = {w1, w2}
    Dir = {r1, a, b, c, d}
    File = {f, fa, fb}
    Root <- OneRoot
    Skipped = {s}
    Inode <- OnePair
    LinkedElsewhere = {f}
    Owner <- DeepOwner
    Contents <- DeepTree
    Flaky = {fa}
    Rotations <- RootRotations
    NoDirectory = {}
    Hung = {}
    ScanTimeoutOn = TRUE
    HardTimeoutOn = TRUE
    DedupHardlinks = TRUE
    MaxTracked = 1
    RateLimited = TRUE
    BatchSize = 2
    ShareThreshold = 1
    QueueLimit = 1
    NoWorker = NoWorker
SYMMETRY Workers
INVARIANTS LatchHonest LatchMeansDone WaitsForWork QueueIsBounded AddedOnce CompleteIsWhole TwiceIsFlagged
PROPERTIES CompleteIsFrozen
