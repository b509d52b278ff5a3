SPECIFICATION FairSpec
CONSTANTS
    Clients = {c1}
    Runner = run
    Cooldown = 2
    ManualCooldown = 2
    Poll = 1
    MaxRpc = 1
    Cap = 2
PROPERTIES
    CapLimitsTheLamp
