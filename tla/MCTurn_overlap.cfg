\* Everything may overlap, reconnects and lost Stop hooks included.
SPECIFICATION LiveSpec
CONSTANTS
    chan1 = chan1
    chan2 = chan2
    dm = dm
    Chats = {chan1, dm}
    DMs = {dm}
    NoChat = "none"
    MaxInbounds = 2
    MaxTraces = 2
    Habits = {"overlap", "fastTools", "slowReply", "stopLost", "reconnect"}
INVARIANTS
    TypeOK
    TimerMeansSunset
    CancelHitsItsTurn
    CachedThreadIsLive
    TypingIsOwed
    CalmTurns
PROPERTY
    TurnEnds
