\* A session with one sub-agent; reads of three cells; half-written lines.
SPECIFICATION LiveSpec
CONSTANTS
    main = main
    sub = sub
    c1 = c1
    beat = beat
    Main = main
    Subs = {sub}
    MaxLines = 2
    Errors = {1, 2}
    MaxRead = 3
    Chats = {c1}
    Beat = beat
    MaxSent = 2
    Faults = {"shrink", "replyFails"}
INVARIANTS
    TailIsExact
    LinesInOrder
    OneNotice
PROPERTY
    ErrorsSurface
