SPECIFICATION LateHangSpec
CONSTANTS
    w1 = w1  w2 = w2  t1 = t1  t2 = t2
    r1 = r1  r2 = r2  a = a  b = b  c = c  d = d  f = f  fa = fa  fb = fb  s = s
    Target = {t1, t2}
    Worker = {w1, w2}
    Dir = {r1, r2, a}
    File = {f}
    Root <- TwoRoots
    Skipped = {}
    Inode <- Unlinked
    LinkedElsewhere = {}
    Owner <- TwoOwners
    Contents <- LeanTrees
    Flaky = {}
    Rotations = {}
    NoDirectory = {}
    Hung = {t2}
    ScanTimeoutOn = FALSE
    HardTimeoutOn = TRUE
    DedupHardlinks = FALSE
    MaxTracked = 1
    RateLimited = FALSE
    BatchSize = 1
    ShareThreshold = 1
    QueueLimit = 1
    NoWorker = NoWorker
PROPERTIES ScanAllReturns OnlyStuckWorkersLeak
