\* Three sessions of one basename, room for two.
SPECIFICATION SessionsSpec
CONSTANTS
    a = a
    b = b
    c = c
    Plugins = {a, b, c}
    CwdOf <- MCCwdOf
    BaseOf <- MCBaseOf
    CapEnv = 2
    TrimEnv = 1
    Unset = Unset
    DefaultCap = 5
    DefaultTrim = 4
    CapMin = 1
    CapMax = 9
    Troubles = {"stall", "restart"}
    RingCap = 2
    Watched <- MCWatched
    MaxExchanges = 3
INVARIANTS
    RegistrySound
    TypingHasSession
    RecentIsLatest
PROPERTIES
    OthersTurnsStand
SYMMETRY MCSymmetry
