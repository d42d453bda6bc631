SPECIFICATION Spec
CONSTANTS
    w1 = w1  w2 = w2  t1 = t1  t2 = t2
    r1 = r1  r2 = r2  a = a  b = b  c = c  d = d  f = f  fa = fa  fb = fb  s = s
    Target = {t1, t2}
    Worker = {w1, w2}
    Dir = {r1, r2, a}
    File = {f, fa, fb}
    Root <- TwoRoots
    Skipped = {}
    Inode <- OneInode
    LinkedElsewhere = {}
    Owner <- TwoOwners
    Contents <- LinkedTrees
    Flaky = {r2}
    Rotations <- LinkRotations
    NoDirectory = {t2}
    Hung = {}
    ScanTimeoutOn = FALSE
    HardTimeoutOn = TRUE
    DedupHardlinks = TRUE
    MaxTracked = 1
    RateLimited = FALSE
    BatchSize = 2
    ShareThreshold = 1
    QueueLimit = 1
    NoWorker = NoWorker
SYMMETRY Workers
INVARIANTS CompleteIsExact
PROPERTIES KeepsItsPromise
