SPECIFICATION FairSpec
CONSTANTS
    r1 = r1
    Request = {r1}
    TooMany = {1}
    MaxChanges = 2
INVARIANTS FailuresAreHeard
PROPERTIES NeverOlder ChangeIsTracked SignalsAreHeeded EveryRequestAnswered ShutdownEnds
