\* One hook and one plugin request, sends fail, the plugin comes and goes.
SPECIFICATION LiveSpec
CONSTANTS
    h1 = h1
    p1 = p1
    alice = alice
    bob = bob
    HookReqs = {h1}
    PluginReqs = {p1}
    Users = {alice, bob}
    Source = "source"
    NoChat = "none"
    ToolOf <- MCToolOf
    ArgOf <- MCArgOf
    Narrowed <- MCNarrowed
    AnyArg = "any"
    Faults = {"sendFails", "pluginDrop"}
PROPERTIES
    RecordedRefsStripped
    PluginAnswered
