SPECIFICATION FairSpec
CONSTANTS
    Commands = {"install", "update"}
    Faults = {}
    Shipped = Shipped
    Latest = Latest
    NoFile = NoFile
    Torn = Torn
    MaxCommands = 2
    MaxKills = 0
CHECK_DEADLOCK FALSE
PROPERTIES
    UpdateRestarts
