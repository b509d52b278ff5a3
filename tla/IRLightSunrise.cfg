SPECIFICATION FairSpec
CONSTANTS
    Clients = {}
    Runner = run
    Cooldown = 2
    ManualCooldown = 2
    Poll = 1
    MaxRpc = 1
    Cap = 2
PROPERTIES
    SunriseBoostEnds
