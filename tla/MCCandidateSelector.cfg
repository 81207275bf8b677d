SPECIFICATION SelectorSpec
SYMMETRY Symmetric
CONSTANTS
    n1 = n1
    n2 = n2
    Nodes = {n1, n2}
    Configurations <- MCConfigurations
    Keys = {k1, k2}
    NoKey = NoKey
    Dials = {d1, d2}
    IdleTimeout = 1
    MaxEntries = 1
    MaxFails = 1
    MaxTime = 2
    MaxGenerations = 2
INVARIANTS
    OrderIsComplete
    AffinitySafe
    CooldownBounded
