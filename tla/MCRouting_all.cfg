\* Two guild channels and a DM, three commands in any overlap, an edit or a restart.
SPECIFICATION Spec
CONSTANTS
    g1 = g1
    g2 = g2
    dm = dm
    w1 = w1
    w2 = w2
    k1 = k1
    k2 = k2
    k3 = k3
    boot = boot
    Channels = {g1, g2, dm}
    DMs = {dm}
    Workspaces = {w1, w2}
    None = "none"
    Cmds = {k1, k2, k3}
    Boot = boot
    HistoryMax = 1
    MaxTroubles = 1
    Faults = {"edit", "restart", "refuse"}
SYMMETRY Symmetric
INVARIANTS
    TypeOK
    MemoryIsFile
    OneToOne
    IndicatorFollows
\* Commands are bounded: it may stop when all are over.
CHECK_DEADLOCK FALSE
