--------------------------- MODULE TerminalClient ---------------------------
(***************************************************************************)
(* cli.py: the terminal.  One process, one employee, one private thread id *)
(* and one question at a time; the turn is the web layer's, from the same  *)
(* agent.  Of a turn's exceptions it catches the two classes api.py does   *)
(* and asks again, and dies of any other; Ctrl+C ends it anywhere.         *)
(*                                                                         *)
(* It keeps the promise of Conversation, which ChatService does not keep:  *)
(* there turns of one token may overlap.                                   *)
(***************************************************************************)
EXTENDS AgentGraph

VARIABLES
    pc,         \* where main() is
    token,      \* the private thread id
    employee,   \* the employee picked
    asked       \* the turn under way, or the last one

cliVars == <<pc, token, employee, asked>>
vars == <<agentVars, cliVars>>

TypeOK ==
    /\ AgentTypeOK
    /\ pc \in {"picking", "prompt", "turn", "ended"}
    /\ token \in Tokens \union {None}
    /\ employee \in Employees \union {None}
    /\ asked \in Requests \union {None}

Init ==
    /\ AgentInit
    /\ pc = "picking"
    /\ token = None
    /\ employee = None
    /\ asked = None

-----------------------------------------------------------------------------

\* pick_employee asks until get_my_record knows the employee.
PickEmployee(e, t) ==
    /\ pc = "picking"
    /\ pc' = "prompt"
    /\ employee' = e
    /\ token' = t
    /\ UNCHANGED <<agentVars, asked>>

Ask(r) ==
    /\ pc = "prompt"
    /\ CallTurn(r, token, employee)
    /\ pc' = "turn"
    /\ asked' = r
    /\ UNCHANGED <<token, employee>>

RunTurn ==
    /\ pc = "turn"
    /\ TurnStep(asked)
    /\ UNCHANGED cliVars

\* The done event was the last: print the tools used.
ShowTag ==
    /\ pc = "turn"
    /\ At(asked, "done")
    /\ pc' = "prompt"
    /\ UNCHANGED <<agentVars, token, employee, asked>>

\* anthropic.AnthropicError and GraphRecursionError
Caught == {"model", "limit", "web"}

ShowUnavailable ==
    /\ pc = "turn"
    /\ At(asked, "raised")
    /\ turn[asked].error \in Caught
    /\ pc' = "prompt"
    /\ UNCHANGED <<agentVars, token, employee, asked>>

Crash ==
    /\ pc = "turn"
    /\ At(asked, "raised")
    /\ turn[asked].error \notin Caught
    /\ pc' = "ended"
    /\ UNCHANGED <<agentVars, token, employee, asked>>

\* Ctrl+D
Quit ==
    /\ pc = "prompt"
    /\ pc' = "ended"
    /\ UNCHANGED <<agentVars, token, employee, asked>>

\* Ctrl+C
Interrupt ==
    /\ pc # "ended"
    /\ pc' = "ended"
    /\ IF pc = "turn" /\ turn[asked].pc \notin EndedAt
       THEN GoTo(asked, "abandoned")
       ELSE UNCHANGED turn
    /\ UNCHANGED <<graph, memory, alone, token, employee, asked>>

MainStep == RunTurn \/ ShowTag \/ ShowUnavailable \/ Crash

Next ==
    \/ \E e \in Employees, t \in Tokens : PickEmployee(e, t)
    \/ \E r \in Requests : Ask(r)
    \/ MainStep
    \/ Quit
    \/ Interrupt

Spec == Init /\ [][Next]_vars

\* The process runs, and every call of a turn returns or raises; when to type
\* something is up to the user.
FairSpec == Spec /\ WF_vars(MainStep)

-----------------------------------------------------------------------------
(* The conversation the process has had.                                   *)

History ==
    IF graph = None \/ token = None THEN << >> ELSE memory[graph][token].messages

Outcome(r) ==
    CASE turn[r].pc = "idle" -> "none"
      [] turn[r].pc = "done" -> "answered"
      [] turn[r].pc \in {"raised", "abandoned"} -> "failed"
      [] OTHER -> "running"

\* Calls without results are in order while their results are awaited.
Usable == ApiAccepts(History) \/ \E r \in Requests : At(r, "tools")

Promised == INSTANCE Conversation
    WITH Turns   <- Requests,
         history <- History,
         outcome <- [r \in Requests |-> Outcome(r)],
         usable  <- Usable

-----------------------------------------------------------------------------
(* Properties.                                                             *)

\* The terminal keeps the promise of Conversation: whatever fails, and
\* wherever the recursion limit falls, a turn under way only adds to what was
\* said, an answer closes its own turn, and a conversation that a failed turn
\* left unusable answers nothing more (cli.py:41-66, agent.py:193-234).
ImplementsConversation == Promised!Spec

\* The tag printed after an answer names exactly the tools of that turn, and
\* says "escalated" exactly if that turn escalated (cli.py:65-66).
TagIsOwnTurn ==
    pc = "turn" /\ At(asked, "done") =>
        LET own == {i \in 1..Len(History) : History[i].by = asked}
        IN  turn[asked].report =
                [tools     |-> ToolsCalled(History, own),
                 escalated |-> \E i \in own : \E k \in 1..Len(History[i].calls) :
                                   History[i].calls[k] = Escalate]

\* After every question the prompt comes back or the process ends
\* (cli.py:41-66).
PromptReturns == pc = "turn" ~> pc \in {"prompt", "ended"}

=============================================================================
