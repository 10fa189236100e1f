\* One hook and one plugin request, two users, every fault but a lost answer
\* of Discord.
SPECIFICATION Spec
CONSTANTS
    h1 = h1
    p1 = p1
    alice = alice
    bob = bob
    HookReqs = {h1}
    PluginReqs = {p1}
    Users = {alice, bob}
    Source = "source"
    NoChat = "none"
    ToolOf <- MCToolOf
    ArgOf <- MCArgOf
    Narrowed <- MCNarrowed
    AnyArg = "any"
    Faults = {"sendFails", "editFails", "pluginDrop", "crash"}
SYMMETRY UserSymmetry
INVARIANTS
    TypeOK
    AtMostOneAnswer
    PendingIsOpen
    LabelTruthful
PROPERTIES
    RulesWereAllowed
    ImplementsOneShot
