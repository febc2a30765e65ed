\* A turn fails with an error event: can the conversation go on?
SPECIFICATION FairSpec
CONSTANTS
    Employees = {e1}
    Tokens = {t1}
    Requests = {r1, r2}
    None = None
    MaxIterations = 6
    CallLists <- ShortCallLists
INVARIANTS
    ErrorLeavesSessionUsable
CHECK_DEADLOCK FALSE
