\* The daemon dies while a hook waits.
SPECIFICATION Spec
CONSTANTS
    h1 = h1
    p1 = p1
    alice = alice
    bob = bob
    HookReqs = {h1}
    PluginReqs = {}
    Users = {alice}
    Source = "source"
    NoChat = "none"
    ToolOf <- MCToolOf
    ArgOf <- MCArgOf
    Narrowed <- MCNarrowed
    AnyArg = "any"
    Faults = {"crash"}
INVARIANT
    HookSpeaks
