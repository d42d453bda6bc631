SPECIFICATION StartupSpec
CONSTANTS
    ScanTimeouts <- Unset
    HardTimeouts <- Unset
    DrainTimeouts <- AnyDrain
    FlagSets <- SomeFlags
    Environs <- SomeEnvirons
    Documents <- SomeDocuments
    Default <- Defaults
    Unreadable = Unreadable
    Bad = Bad
    Automatic = Automatic  Yes = Yes  No = No  NoPath = NoPath  APath = APath
    Backstop = 5
    MaxClock = 10
INVARIANTS WaitIsBounded VerdictFits StrongestSourceWins AlwaysGivesUp
PROPERTIES WarnedFirst
