----------------------------- MODULE AgentGraph -----------------------------
(***************************************************************************)
(* hr_rag/agent.py: one conversation turn.  run_turn_stream drives a       *)
(* three-node LangGraph graph                                              *)
(*                                                                         *)
(*     agent -> tools -> check_escalation -> agent -> ... -> END           *)
(*                                                                         *)
(* over the conversation of one session token.  The graph object is built  *)
(* lazily, without a lock, and each graph object has a MemorySaver of its  *)
(* own, so a graph is named here by the request that built it and memory   *)
(* has one store per graph.                                                *)
(*                                                                         *)
(* What the code relies on LangGraph for (external):                       *)
(*   - a run loads the thread's last checkpoint when its stream starts,    *)
(*     appends the input, and from then on works on a copy of its own;     *)
(*   - the state is saved after the input and after every node that        *)
(*     returns; a node that raises saves nothing; the last save wins;      *)
(*   - a node due after MaxIterations nodes raises GraphRecursionError.    *)
(* A request is one call of run_turn_stream.  Streamed token events carry  *)
(* no state and are left out; escalation_reason is set exactly when        *)
(* escalated is, and is folded into it.                                    *)
(***************************************************************************)
EXTENDS Portal, Naturals, Sequences

CONSTANTS
    Requests,       \* the calls of run_turn_stream that can be made
    CallLists,      \* the lists of tool calls the model may answer with
    MaxIterations   \* config.MAX_ITERATIONS, the recursion limit

RetrievalTools ==
    {"search_policy_db", "search_employee_record", "search_web"}

Escalate == "escalate_to_deep_reasoning"

Tools == RetrievalTools \union {Escalate}

ASSUME AgentAssumption ==
    /\ None \notin Requests
    /\ CallLists \subseteq Seq(Tools)
    /\ MaxIterations \in Nat

VARIABLES
    graph,          \* the global _graph: the request that built it, or None
    memory,         \* memory[g][t]: last checkpoint of thread t in graph g
    turn,           \* turn[r]: the local state of request r's call
    alone           \* ghost: no other turn of the token ran during turn r

agentVars == <<graph, memory, turn, alone>>

-----------------------------------------------------------------------------
(* Data.                                                                   *)

Tiers == {"light", "deep"}

\* by is a ghost: the request whose turn produced the message.
Message ==
    [kind  : {"human", "ai", "tool"},
     by    : Requests,
     calls : Seq(Tools),                 \* tool_calls of an AIMessage
     tier  : Tiers \union {None},        \* the model that wrote an AIMessage
     about : Employees \union {None}]    \* whose record a ToolMessage holds

HumanMessage(r) ==
    [kind |-> "human", by |-> r, calls |-> << >>, tier |-> None, about |-> None]

AIMessage(r, tier, calls) ==
    [kind |-> "ai", by |-> r, calls |-> calls, tier |-> tier, about |-> None]

ToolMessage(r, about) ==
    [kind |-> "tool", by |-> r, calls |-> << >>, tier |-> None, about |-> about]

AgentState ==
    [messages  : Seq(Message),
     employee  : Employees \union {None},
     tier      : Tiers,
     escalated : BOOLEAN]

EmptyState ==
    [messages |-> << >>, employee |-> None, tier |-> "light", escalated |-> FALSE]

EmptyMemory == [g \in Requests |-> [t \in Tokens |-> EmptyState]]

\* A turn ends inside run_turn_stream in "done" or "raised"; "abandoned" is a
\* generator that was closed, or whose process died, before it finished.
EndedAt == {"done", "raised", "abandoned"}
StreamingAt == {"opened", "agent", "tools", "check", "end"}

TurnPCs ==
    {"idle", "called", "building", "returning", "bound"} \union StreamingAt
        \union EndedAt

Turn ==
    [pc     : TurnPCs,
     token  : Tokens \union {None},
     employee : Employees \union {None},
     graph  : Requests \union {None},
     prior  : Nat,                       \* prior_len
     state  : AgentState,                \* the run's own copy of the state
     steps  : Nat,                       \* nodes run so far
     error  : {"none", "model", "limit", "web", "tool", "build"},
     report : [tools : SUBSET RetrievalTools, escalated : BOOLEAN]]

NoTurn ==
    [pc |-> "idle", token |-> None, employee |-> None, graph |-> None,
     prior |-> 0, state |-> EmptyState, steps |-> 0, error |-> "none",
     report |-> [tools |-> {}, escalated |-> FALSE]]

AgentTypeOK ==
    /\ graph \in Requests \union {None}
    /\ memory \in [Requests -> [Tokens -> AgentState]]
    /\ turn \in [Requests -> Turn]
    /\ alone \in [Requests -> BOOLEAN]

AgentInit ==
    /\ graph = None
    /\ memory = EmptyMemory
    /\ turn = [r \in Requests |-> NoTurn]
    /\ alone = [r \in Requests |-> TRUE]

-----------------------------------------------------------------------------
(* The call and the lazily built graph.                                    *)

At(r, pc) == turn[r].pc = pc

GoTo(r, pc) == turn' = [turn EXCEPT ![r].pc = pc]

Raise(r, error) ==
    /\ turn' = [turn EXCEPT ![r].pc = "raised", ![r].error = error]
    /\ UNCHANGED <<graph, memory, alone>>

\* Mutant: token and employee change places in the call.
CallTurnSwapped(r, t, e) ==
    /\ At(r, "idle")
    /\ turn' = [turn EXCEPT ![r] = [NoTurn EXCEPT !.pc = "called",
                                                   !.token = e,
                                                   !.employee = t]]
    /\ UNCHANGED <<graph, memory, alone>>

CallTurn(r, t, e) ==
    /\ At(r, "idle")
    /\ turn' = [turn EXCEPT ![r] = [NoTurn EXCEPT !.pc = "called",
                                                   !.token = t,
                                                   !.employee = e]]
    /\ UNCHANGED <<graph, memory, alone>>

\* _get_graph tests the global, ...
FindGraph(r) ==
    /\ At(r, "called")
    /\ GoTo(r, IF graph = None THEN "building" ELSE "returning")
    /\ UNCHANGED <<graph, memory, alone>>

\* ... builds and assigns it, ...
BuildGraph(r) ==
    /\ At(r, "building")
    /\ graph' = r
    /\ GoTo(r, "returning")
    /\ UNCHANGED <<memory, alone>>

\* (the models cannot be made: _graph stays as it is)
BuildFails(r) ==
    /\ At(r, "building")
    /\ Raise(r, "build")

\* ... and reads it once more to return it.
ReturnGraph(r) ==
    /\ At(r, "returning")
    /\ turn' = [turn EXCEPT ![r].pc = "bound", ![r].graph = graph]
    /\ UNCHANGED <<graph, memory, alone>>

-----------------------------------------------------------------------------
(* One turn of the graph.                                                  *)

Thread(r) == memory[turn[r].graph][turn[r].token]

Running(t) == {r \in Requests : turn[r].token = t /\ turn[r].pc \in StreamingAt}

Overlapped(r) ==
    LET others == Running(turn[r].token) \ {r}
    IN  IF others = {} THEN {} ELSE others \union {r}

\* get_state before the stream starts: prior_len.
OpenTurn(r) ==
    /\ At(r, "bound")
    /\ turn' = [turn EXCEPT ![r].pc = "opened",
                            ![r].prior = Len(Thread(r).messages)]
    /\ alone' = [q \in Requests |-> alone[q] /\ q \notin Overlapped(r)]
    /\ UNCHANGED <<graph, memory>>

\* Mutant: the input does not reset the escalation of the turn before.
InputStateEscalated(r) ==
    [messages  |-> Append(Thread(r).messages, HumanMessage(r)),
     employee  |-> turn[r].employee,
     tier      |-> "light",
     escalated |-> Thread(r).escalated]

\* Mutant: messages without the add_messages reducer: the input replaces them.
InputStateForgets(r) ==
    [messages  |-> <<HumanMessage(r)>>,
     employee  |-> turn[r].employee,
     tier      |-> "light",
     escalated |-> FALSE]

InputState(r) ==
    [messages  |-> Append(Thread(r).messages, HumanMessage(r)),
     employee  |-> turn[r].employee,
     tier      |-> "light",
     escalated |-> FALSE]

\* A node (or the input) has produced the state s: save it and go on.
Save(r, s) ==
    memory' = [memory EXCEPT ![turn[r].graph][turn[r].token] = s]

Advance(r, s, pc, nodes) ==
    /\ turn' = [turn EXCEPT ![r].pc = pc,
                            ![r].state = s,
                            ![r].steps = @ + nodes]
    /\ Save(r, s)
    /\ UNCHANGED <<graph, alone>>

StartStream(r) ==
    /\ At(r, "opened")
    /\ Advance(r, InputState(r), "agent", 0)

\* Every tool call of the history is followed by its results: what the
\* Messages API demands of the messages it is sent.
ApiAccepts(ms) ==
    \A i \in 1..Len(ms) : \A k \in 1..Len(ms[i].calls) :
        /\ i + k \in 1..Len(ms)
        /\ ms[i + k].kind = "tool"

\* Mutant: one node too many.
LimitReachedLate(r) == turn[r].steps > MaxIterations

LimitReached(r) == turn[r].steps >= MaxIterations

\* Mutant: the limit stops the agent node but raises one node later.
OutOfStepsLate(r) ==
    /\ turn[r].pc \in {"agent", "tools", "check"}
    /\ LimitReachedLate(r)
    /\ Raise(r, "limit")

OutOfSteps(r) ==
    /\ turn[r].pc \in {"agent", "tools", "check"}
    /\ LimitReached(r)
    /\ Raise(r, "limit")

\* Mutant: the two routes change places.
RouteAfterAgentSwapped(calls) == IF calls = << >> THEN "tools" ELSE "end"

RouteAfterAgent(calls) == IF calls = << >> THEN "end" ELSE "tools"

AgentNode(r, calls) ==
    LET s == turn[r].state IN
    /\ At(r, "agent")
    /\ ~LimitReached(r)
    /\ ApiAccepts(s.messages)
    /\ Advance(r,
               [s EXCEPT !.messages = Append(@, AIMessage(r, s.tier, calls))],
               RouteAfterAgent(calls), 1)

\* The model call fails: rejected history, outage, rate limit, timeout.
AgentFails(r) ==
    /\ At(r, "agent")
    /\ ~LimitReached(r)
    /\ Raise(r, "model")

LastMessage(s) == s.messages[Len(s.messages)]

PendingCalls(r) == LastMessage(turn[r].state).calls

\* search_employee_record gets the employee from the run's own state.
ToolResult(r, tool) ==
    ToolMessage(r, IF tool = "search_employee_record"
                   THEN turn[r].state.employee ELSE None)

ToolResults(r) ==
    [i \in 1..Len(PendingCalls(r)) |-> ToolResult(r, PendingCalls(r)[i])]

ToolsNode(r) ==
    LET s == turn[r].state IN
    /\ At(r, "tools")
    /\ ~LimitReached(r)
    /\ Advance(r, [s EXCEPT !.messages = @ \o ToolResults(r)], "check", 1)

\* search_web is a model call and fails like one; the policy store and the
\* employee database fail with exceptions of their own.
ToolErrors(tool) ==
    CASE tool = "search_web" -> {"web"}
      [] tool \in {"search_policy_db", "search_employee_record"} -> {"tool"}
      [] OTHER -> {}

ToolsRaise(r) ==
    /\ At(r, "tools")
    /\ ~LimitReached(r)
    /\ \E i \in 1..Len(PendingCalls(r)) :
           \E error \in ToolErrors(PendingCalls(r)[i]) : Raise(r, error)

AICalls(ms, i) == ms[i].kind = "ai"

LastAI(ms) ==
    CHOOSE i \in 1..Len(ms) :
        /\ AICalls(ms, i)
        /\ \A j \in (i + 1)..Len(ms) : ~AICalls(ms, j)

\* Mutant: the scan goes past the last AIMessage (no break).
EscalationAskedEver(ms) ==
    \E i \in 1..Len(ms) : \E k \in 1..Len(ms[i].calls) : ms[i].calls[k] = Escalate

EscalationAsked(ms) ==
    \E k \in 1..Len(ms[LastAI(ms)].calls) : ms[LastAI(ms)].calls[k] = Escalate

CheckEscalation(r) ==
    LET s == turn[r].state IN
    /\ At(r, "check")
    /\ ~LimitReached(r)
    /\ Advance(r,
               IF EscalationAsked(s.messages)
               THEN [s EXCEPT !.tier = "deep", !.escalated = TRUE]
               ELSE s,
               "agent", 1)

ToolsCalled(ms, indices) ==
    {tool \in RetrievalTools :
        \E i \in indices : \E k \in 1..Len(ms[i].calls) : ms[i].calls[k] = tool}

\* The done event: what the thread holds beyond prior_len, as last saved.
FinishTurn(r) ==
    LET final == Thread(r) IN
    /\ At(r, "end")
    /\ turn' = [turn EXCEPT
           ![r].pc = "done",
           ![r].report =
               [tools |-> ToolsCalled(final.messages,
                              (turn[r].prior + 1)..Len(final.messages)),
                escalated |-> final.escalated]]
    /\ UNCHANGED <<graph, memory, alone>>

\* The caller closes the generator; a node under way saves nothing.
CloseTurn(r) ==
    /\ turn[r].pc \in {"called", "agent"}
    /\ GoTo(r, "abandoned")
    /\ UNCHANGED <<graph, memory, alone>>

TurnStep(r) ==
    \/ FindGraph(r)
    \/ BuildGraph(r)
    \/ BuildFails(r)
    \/ ReturnGraph(r)
    \/ OpenTurn(r)
    \/ StartStream(r)
    \/ \E calls \in CallLists : AgentNode(r, calls)
    \/ AgentFails(r)
    \/ ToolsNode(r)
    \/ ToolsRaise(r)
    \/ CheckEscalation(r)
    \/ OutOfSteps(r)
    \/ FinishTurn(r)

=============================================================================
