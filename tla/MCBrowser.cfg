\* One page: logins, logouts and questions that overlap, lost responses.
SPECIFICATION FairSpec
CONSTANTS
    Employees = {e1}
    Tokens = {t1, t2}
    MaxCalls = 4
    None = None
INVARIANTS
    TypeOK
    PageIsOneLogin
    AnswersFollowQuestions
    NoSessionForgotten
PROPERTIES
    LoginEndsWithItsSession
    QuestionsSettle
\* Every click can be used up.
CHECK_DEADLOCK FALSE
