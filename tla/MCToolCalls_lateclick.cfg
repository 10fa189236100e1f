\* One question, no fault: the user takes longer than the 60 s of the plugin.
SPECIFICATION Spec
CONSTANTS
    q1 = q1
    r1 = r1
    yes = yes
    no = no
    Questions = {q1}
    Replies = {}
    Options = {yes, no}
    Texts <- MCTexts
    TextOf <- MCTextOf
    Limit = 3
    Mode = "newline"
    MaxLinks = 1
    Faults = {}
INVARIANT
    ChoiceIsReturned
CHECK_DEADLOCK FALSE
