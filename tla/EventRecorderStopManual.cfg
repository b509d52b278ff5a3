SPECIFICATION FairSpec
CONSTANTS
    Files = {f1, f2, f3}
    None = None
    MaxEvents = 1
    IdleLimit = 0
PROPERTIES
    StopManualStops
