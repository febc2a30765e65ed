\* Three questions from one terminal; the limit may fall before the tools.
SPECIFICATION FairSpec
CONSTANTS
    Employees = {e1}
    Tokens = {t1}
    Requests = {r1, r2, r3}
    None = None
    MaxIterations = 7
    CallLists <- MCCallLists
INVARIANTS
    TypeOK
    TagIsOwnTurn
PROPERTIES
    ImplementsConversation
    PromptReturns
\* The process may end.
CHECK_DEADLOCK FALSE
