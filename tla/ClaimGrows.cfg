\* Two turns of one token overlap: is anything lost?
SPECIFICATION FairSpec
CONSTANTS
    Employees = {e1}
    Tokens = {t1}
    Requests = {r1, r2}
    None = None
    MaxIterations = 6
    CallLists <- ShortCallLists
PROPERTIES
    ConversationOnlyGrows
CHECK_DEADLOCK FALSE
