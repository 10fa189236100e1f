\* Two sessions of one basename with room for one, and a hook.
SPECIFICATION LifecycleLiveSpec
CONSTANTS
    a = a
    b = b
    h1 = h1
    Plugins = {a, b}
    CwdOf <- MCCwdOf
    BaseOf <- MCBaseOf
    CapEnv = 1
    TrimEnv = 1
    Unset = Unset
    DefaultCap = 5
    DefaultTrim = 4
    CapMin = 1
    CapMax = 9
    Troubles = {"stall", "restart"}
    Hooks = {h1}
    Faults = {"putFails", "putSlow"}
INVARIANTS
    SettledIsRight
PROPERTIES
    ChoicesStayLive
    Reconnects
    ShutdownEnds
