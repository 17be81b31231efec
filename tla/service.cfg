SPECIFICATION FairSpec
CONSTANTS
    Commands <- AllCommands
    Faults = {"runfail", "slowstop", "io", "abort", "kill", "scm", "startfail", "leak", "restorefail"}
    Shipped = Shipped
    Latest = Latest
    NoFile = NoFile
    Torn = Torn
    MaxCommands = 4
    MaxKills = 1
CHECK_DEADLOCK FALSE
INVARIANTS
    StoppedMeansRestored
    InstallIsComplete
    UninstallIsComplete
    UpdateCleansUp
PROPERTIES
    NeverDeletesRunning
    UpdateKeepsBinary
    StopIsCarriedOut
    CrashIsRepaired
