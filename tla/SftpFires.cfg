CONSTANTS
    i1 = i1
    i2 = i2
    a = a
    b = b
    k1 = k1
    k2 = k2
    Integrations = {i1, i2}
    Files = {a}
    Ticks = {k1, k2}
SPECIFICATION FairSpec
INVARIANTS FiresAtMostOnce
PROPERTIES NewFileFires
