SPECIFICATION Spec
CONSTANTS
    Clients = {c1, c2}
    Runner = run
    Cooldown = 2
    ManualCooldown = 3
    Poll = 1
    MaxRpc = 1
    Cap = 3
SYMMETRY ClientsSymmetry
INVARIANTS
    TypeOK
    OneCommandAtATime
    CommandIsCurrent
    LampFollows
    CapHonoured
PROPERTIES
    ManualTogglesSpaced
    RelayDoesNotChatter
