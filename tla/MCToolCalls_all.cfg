\* A question and a reply over three sockets, with every fault.
SPECIFICATION LiveSpec
CONSTANTS
    q1 = q1
    r1 = r1
    yes = yes
    no = no
    Questions = {q1}
    Replies = {r1}
    Options = {yes, no}
    Texts <- MCTexts
    TextOf <- MCTextOf
    Limit = 3
    Mode = "newline"
    MaxLinks = 3
    Faults = {"loss", "restart", "sendFails", "lostAck", "editFails"}
INVARIANTS
    SuccessIsTrue
    AskedCanBeClicked
PROPERTIES
    FirstClickWins
    CallsEnd
\* Calls are bounded: it may stop when all are over.
CHECK_DEADLOCK FALSE
