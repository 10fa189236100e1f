\* Two senders, one of them allowed, a guild channel, two commands beside the daemon.
SPECIFICATION Spec
CONSTANTS
    s1 = s1
    s2 = s2
    g1 = g1
    c1 = c1
    c2 = c2
    k1 = k1
    k2 = k2
    Senders = {s1, s2}
    Channels = {g1}
    Dm = "dm"
    Codes = {c1, c2}
    None = None
    Daemon = "daemon"
    Clis = {k1, k2}
    MaxPending = 1
    MaxGreetings = 1
    MaxRestarts = 1
    GroupPolicies = {"open"}
    Modes = {"disabled"}
    Groups <- OpenToOne
    GroupDefaults = None
    Allowed = {s1}
SYMMETRY Symmetric
INVARIANTS
    TypeOK
    AsAsked
    PairingLimits
    DeliveredWasDue
    GreetedWasPaired
\* Commands and codes are bounded: it may stop when they are used up.
CHECK_DEADLOCK FALSE
