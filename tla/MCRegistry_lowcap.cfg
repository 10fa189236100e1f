\* The cap is lowered below the default trim target, which is not set.
SPECIFICATION Spec
CONSTANTS
    a = a
    b = b
    c = c
    Plugins = {a, b}
    CwdOf <- MCCwdOf
    BaseOf <- MCBaseOf
    CapEnv = 1
    TrimEnv = Unset
    Unset = Unset
    DefaultCap = 5
    DefaultTrim = 4
    CapMin = 1
    CapMax = 9
    Troubles = {}
INVARIANT
    CapHolds
