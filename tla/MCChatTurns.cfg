\* Turns of one conversation, one after the other and at the same time.
SPECIFICATION Spec
CONSTANTS
    Employees = {e1}
    Tokens = {t1}
    Requests = {r1, r2}
    None = None
    MaxIterations = 6
    CallLists <- AllCallLists
SYMMETRY Symmetry
INVARIANTS
    TierDiscipline
    ModelCallBudget
    ReportsOwnTurn
    AnsweredTurnsRemembered
    HistoryStaysUsable
\* The one token can be dead and every request answered.
CHECK_DEADLOCK FALSE
