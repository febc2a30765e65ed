\* Who a token is: logins, logouts, restarts and two conversations; and every
\* response ends, under fair scheduling of the request threads.
SPECIFICATION FairSpec
CONSTANTS
    Employees = {e1, e2}
    Tokens = {t1, t2}
    Requests = {r1, r2}
    None = None
    MaxIterations = 3
    CallLists <- ShortCallLists
INVARIANTS
    TypeOK
    RecordScoped
PROPERTIES
    ResponsesEnd
    DeadTokensStayDead
\* Every token can be issued, every request answered and every session gone.
CHECK_DEADLOCK FALSE
