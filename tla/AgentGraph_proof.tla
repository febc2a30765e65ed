-------------------------- MODULE AgentGraph_proof --------------------------
(***************************************************************************)
(* Lemmas about one turn of AgentGraph, for any employees, tokens,         *)
(* requests, answers of the model and recursion limit.  They are shared by *)
(* the proofs about the two programs that run turns.                       *)
(***************************************************************************)
EXTENDS AgentGraph, SequenceTheorems, TLAPS

USE NoneAssumption DEF NoneAssumption
USE AgentAssumption DEF AgentAssumption

-----------------------------------------------------------------------------
(* Control: what a turn holds at each place.                               *)

\* A turn under way has a token and an employee; it returns a graph only when
\* there is one, reads a conversation only through a graph, and inside the
\* graph its history has at least the input in it, under its employee.
TurnOK(r) ==
    /\ turn[r].pc = "idle" => turn[r] = NoTurn
    /\ turn[r].pc # "idle" =>
           /\ turn[r].token \in Tokens
           /\ turn[r].employee \in Employees
    /\ turn[r].pc = "returning" => graph # None
    /\ turn[r].pc \in {"bound"} \union StreamingAt => turn[r].graph \in Requests
    /\ turn[r].pc \in StreamingAt \ {"opened"} =>
           /\ turn[r].state.messages # << >>
           /\ turn[r].state.employee = turn[r].employee

TurnInv == \A r \in Requests : TurnOK(r)

-----------------------------------------------------------------------------
(* Types.                                                                  *)

LEMMA MessageTypes ==
    ASSUME NEW r \in Requests
    PROVE  /\ HumanMessage(r) \in Message
           /\ \A tier \in Tiers, calls \in Seq(Tools) :
                  AIMessage(r, tier, calls) \in Message
           /\ \A about \in Employees \union {None} :
                  ToolMessage(r, about) \in Message
BY DEF HumanMessage, AIMessage, ToolMessage, Message

LEMMA Appended ==
    ASSUME NEW ms \in Seq(Message), NEW m \in Message
    PROVE  /\ Append(ms, m) \in Seq(Message)
           /\ Append(ms, m) # << >>
BY AppendProperties

LEMMA EmptyTypes ==
    /\ EmptyState \in AgentState
    /\ NoTurn \in Turn
    /\ EmptyMemory \in [Requests -> [Tokens -> AgentState]]
<1>1. EmptyState \in AgentState BY DEF EmptyState, AgentState, Tiers
<1>2. NoTurn \in Turn BY <1>1 DEF NoTurn, Turn, TurnPCs
<1>3. EmptyMemory \in [Requests -> [Tokens -> AgentState]]
      BY <1>1 DEF EmptyMemory
<1> QED BY <1>1, <1>2, <1>3

LEMMA GoToType ==
    ASSUME AgentTypeOK, NEW r \in Requests, NEW pc \in TurnPCs, GoTo(r, pc)
    PROVE  turn' \in [Requests -> Turn]
<1>0. turn[r] \in Turn BY DEF AgentTypeOK
<1>1. [turn[r] EXCEPT !.pc = pc] \in Turn BY <1>0 DEF Turn
<1> QED BY <1>1 DEF GoTo, AgentTypeOK

LEMMA RaiseType ==
    ASSUME AgentTypeOK, NEW r \in Requests,
           NEW error \in {"none", "model", "limit", "web", "tool", "build"},
           Raise(r, error)
    PROVE  AgentTypeOK'
<1>1. "raised" \in TurnPCs BY DEF TurnPCs, EndedAt
<1>0. turn[r] \in Turn BY DEF AgentTypeOK
<1>2. [turn[r] EXCEPT !.pc = "raised", !.error = error] \in Turn
      BY <1>0, <1>1 DEF Turn
<1> QED BY <1>2 DEF Raise, AgentTypeOK

LEMMA AdvanceType ==
    ASSUME AgentTypeOK, NEW r \in Requests, NEW s \in AgentState,
           NEW pc \in TurnPCs, NEW nodes \in Nat, Advance(r, s, pc, nodes)
    PROVE  AgentTypeOK'
<1>0. turn[r] \in Turn /\ turn[r].steps + nodes \in Nat BY DEF AgentTypeOK, Turn
<1>1. [turn[r] EXCEPT !.pc = pc, !.state = s, !.steps = @ + nodes] \in Turn
      BY <1>0 DEF Turn
<1>2. turn' \in [Requests -> Turn] BY <1>1 DEF Advance, AgentTypeOK
<1>3. memory' \in [Requests -> [Tokens -> AgentState]]
      BY DEF Advance, Save, AgentTypeOK
<1> QED BY <1>2, <1>3 DEF Advance, AgentTypeOK

LEMMA ThreadType ==
    ASSUME AgentTypeOK, NEW r \in Requests,
           turn[r].graph \in Requests, turn[r].token \in Tokens
    PROVE  Thread(r) \in AgentState
BY DEF Thread, AgentTypeOK

LEMMA ToolResultsType ==
    ASSUME AgentTypeOK, NEW r \in Requests, turn[r].state.messages # << >>
    PROVE  /\ PendingCalls(r) \in Seq(Tools)
           /\ ToolResults(r) \in Seq(Message)
<1> DEFINE ms == turn[r].state.messages
<1>1. ms \in Seq(Message) /\ turn[r].state.employee \in Employees \union {None}
      BY DEF AgentTypeOK, Turn, AgentState
<1>2. ms[Len(ms)] \in Message BY <1>1
<1>3. PendingCalls(r) \in Seq(Tools)
      BY <1>2 DEF PendingCalls, LastMessage, Message
<1>4. \A tool : ToolResult(r, tool) \in Message
      BY <1>1, MessageTypes DEF ToolResult
<1>5. ToolResults(r) \in [1..Len(PendingCalls(r)) -> Message]
      BY <1>4 DEF ToolResults
<1>6. Len(PendingCalls(r)) \in Nat BY <1>3
<1> QED BY <1>3, <1>5, <1>6, SeqDef

LEMMA TurnStepType ==
    ASSUME AgentTypeOK, TurnInv, NEW r \in Requests, TurnStep(r)
    PROVE  AgentTypeOK'
<1> DEFINE s == turn[r].state
<1>0. /\ s \in AgentState
      /\ s.messages \in Seq(Message)
      /\ s.tier \in Tiers
      BY DEF AgentTypeOK, Turn, AgentState
<1> {"building", "returning", "agent", "tools", "check", "end"}
        \subseteq TurnPCs
      BY DEF TurnPCs, StreamingAt
<1>1. CASE FindGraph(r)
      BY <1>1, GoToType DEF FindGraph, AgentTypeOK
<1>2. CASE BuildGraph(r) \/ BuildFails(r)
      BY <1>2, GoToType, RaiseType DEF BuildGraph, BuildFails, AgentTypeOK
<1>3. CASE ReturnGraph(r)
  <2>1. "bound" \in TurnPCs BY DEF TurnPCs
  <2>0. turn[r] \in Turn /\ graph \in Requests \union {None} BY DEF AgentTypeOK
  <2>2. [turn[r] EXCEPT !.pc = "bound", !.graph = graph] \in Turn
        BY <2>0, <2>1 DEF Turn
  <2> QED BY <1>3, <2>2 DEF ReturnGraph, AgentTypeOK
<1>4. CASE OpenTurn(r)
  <2>1. turn[r].graph \in Requests /\ turn[r].token \in Tokens
        BY <1>4 DEF OpenTurn, At, TurnInv, TurnOK
  <2>2. Len(Thread(r).messages) \in Nat
        BY <2>1, ThreadType DEF AgentState
  <2>3. "opened" \in TurnPCs BY DEF TurnPCs, StreamingAt
  <2>0. turn[r] \in Turn BY DEF AgentTypeOK
  <2>4. [turn[r] EXCEPT !.pc = "opened", !.prior = Len(Thread(r).messages)]
            \in Turn
        BY <2>0, <2>2, <2>3 DEF Turn
  <2>5. turn' \in [Requests -> Turn] BY <1>4, <2>4 DEF OpenTurn, AgentTypeOK
  <2>6. alone' \in [Requests -> BOOLEAN] BY <1>4 DEF OpenTurn
  <2> QED BY <1>4, <2>5, <2>6 DEF OpenTurn, AgentTypeOK
<1>5. CASE StartStream(r)
  <2>1. /\ turn[r].graph \in Requests /\ turn[r].token \in Tokens
        /\ turn[r].employee \in Employees
        BY <1>5 DEF StartStream, At, TurnInv, TurnOK, StreamingAt
  <2>2. Thread(r).messages \in Seq(Message)
        BY <2>1, ThreadType DEF AgentState
  <2>3. InputState(r) \in AgentState
        BY <2>1, <2>2, MessageTypes DEF InputState, AgentState, Tiers
  <2> QED BY <1>5, <2>3, AdvanceType DEF StartStream
<1>6. ASSUME NEW calls \in CallLists, AgentNode(r, calls) PROVE AgentTypeOK'
  <2> DEFINE t == [s EXCEPT !.messages = Append(@, AIMessage(r, s.tier, calls))]
  <2>1. AIMessage(r, s.tier, calls) \in Message BY <1>0, MessageTypes
  <2>2. Append(s.messages, AIMessage(r, s.tier, calls)) \in Seq(Message)
        BY <1>0, <2>1, Appended
  <2>3. t \in AgentState BY <1>0, <2>2 DEF AgentState
  <2>4. RouteAfterAgent(calls) \in TurnPCs BY DEF RouteAfterAgent
  <2>5. Advance(r, t, RouteAfterAgent(calls), 1) BY <1>6 DEF AgentNode
  <2> HIDE DEF t
  <2> QED BY <2>3, <2>4, <2>5, AdvanceType
<1>7. CASE AgentFails(r)
      BY <1>7, RaiseType DEF AgentFails
<1>8. CASE ToolsNode(r)
  <2> DEFINE t == [s EXCEPT !.messages = @ \o ToolResults(r)]
  <2>1. s.messages # << >>
        BY <1>8 DEF ToolsNode, At, TurnInv, TurnOK, StreamingAt
  <2>2. s.messages \o ToolResults(r) \in Seq(Message)
        BY <1>0, <2>1, ToolResultsType, ConcatProperties
  <2>3. t \in AgentState BY <1>0, <2>2 DEF AgentState
  <2>4. Advance(r, t, "check", 1) BY <1>8 DEF ToolsNode
  <2> HIDE DEF t
  <2> QED BY <2>3, <2>4, AdvanceType
<1>9. CASE ToolsRaise(r)
  <2>1. \A tool : ToolErrors(tool) \subseteq {"web", "tool"}
        BY DEF ToolErrors
  <2> QED BY <1>9, <2>1, RaiseType DEF ToolsRaise
<1>10. CASE CheckEscalation(r)
  <2> DEFINE t == IF EscalationAsked(s.messages)
                  THEN [s EXCEPT !.tier = "deep", !.escalated = TRUE] ELSE s
  <2>1. t \in AgentState BY <1>0 DEF AgentState, Tiers
  <2>2. Advance(r, t, "agent", 1) BY <1>10 DEF CheckEscalation
  <2> HIDE DEF t
  <2> QED BY <2>1, <2>2, AdvanceType
<1>11. CASE OutOfSteps(r)
      BY <1>11, RaiseType DEF OutOfSteps
<1>12. CASE FinishTurn(r)
  <2> DEFINE report ==
          [tools |-> ToolsCalled(Thread(r).messages,
                         (turn[r].prior + 1)..Len(Thread(r).messages)),
           escalated |-> Thread(r).escalated]
  <2>1. turn[r].graph \in Requests /\ turn[r].token \in Tokens
        BY <1>12 DEF FinishTurn, At, TurnInv, TurnOK, StreamingAt
  <2>2. report \in [tools : SUBSET RetrievalTools, escalated : BOOLEAN]
        BY <2>1, ThreadType DEF AgentState, ToolsCalled
  <2>3. turn' = [turn EXCEPT ![r].pc = "done", ![r].report = report]
        BY <1>12 DEF FinishTurn
  <2> HIDE DEF report
  <2>4. "done" \in TurnPCs BY DEF TurnPCs, EndedAt
  <2>5. turn[r] \in Turn BY DEF AgentTypeOK
  <2>6. [turn[r] EXCEPT !.pc = "done", !.report = report] \in Turn
        BY <2>2, <2>4, <2>5 DEF Turn
  <2>7. turn' \in [Requests -> Turn] BY <2>3, <2>6 DEF AgentTypeOK
  <2>8. UNCHANGED <<graph, memory, alone>> BY <1>12 DEF FinishTurn
  <2> QED BY <2>7, <2>8 DEF AgentTypeOK
<1> QED
      BY <1>1, <1>2, <1>3, <1>4, <1>5, <1>6, <1>7, <1>8, <1>9, <1>10, <1>11,
         <1>12 DEF TurnStep

-----------------------------------------------------------------------------
(* Control.                                                                *)

\* A step of turn r leaves the others alone, keeps whose turn it is, and never
\* takes the graph away.
LEMMA TurnStepFrame ==
    ASSUME AgentTypeOK, NEW r \in Requests, TurnStep(r)
    PROVE  /\ \A q \in Requests \ {r} : turn'[q] = turn[q]
           /\ turn[r].pc # "idle" /\ turn'[r].pc # "idle"
           /\ turn'[r].token = turn[r].token
           /\ turn'[r].employee = turn[r].employee
           /\ graph # None => graph' # None
<1> USE DEF AgentTypeOK, Turn, At, GoTo, Raise, Advance
<1>1. CASE FindGraph(r) BY <1>1 DEF FindGraph
<1>2. CASE BuildGraph(r) \/ BuildFails(r)
      BY <1>2 DEF BuildGraph, BuildFails
<1>3. CASE ReturnGraph(r) BY <1>3 DEF ReturnGraph
<1>4. CASE OpenTurn(r) BY <1>4 DEF OpenTurn
<1>5. CASE StartStream(r) BY <1>5 DEF StartStream
<1>6. ASSUME NEW calls \in CallLists, AgentNode(r, calls)
      PROVE  /\ \A q \in Requests \ {r} : turn'[q] = turn[q]
             /\ turn[r].pc # "idle" /\ turn'[r].pc # "idle"
             /\ turn'[r].token = turn[r].token
             /\ turn'[r].employee = turn[r].employee
             /\ graph # None => graph' # None
      BY <1>6 DEF AgentNode, RouteAfterAgent
<1>7. CASE AgentFails(r) BY <1>7 DEF AgentFails
<1>8. CASE ToolsNode(r) BY <1>8 DEF ToolsNode
<1>9. CASE ToolsRaise(r) BY <1>9 DEF ToolsRaise
<1>10. CASE CheckEscalation(r) BY <1>10 DEF CheckEscalation
<1>11. CASE OutOfSteps(r) BY <1>11 DEF OutOfSteps
<1>12. CASE FinishTurn(r) BY <1>12 DEF FinishTurn
<1> QED
      BY <1>1, <1>2, <1>3, <1>4, <1>5, <1>6, <1>7, <1>8, <1>9, <1>10, <1>11,
         <1>12 DEF TurnStep

\* The turn that steps keeps its part of the invariant.
LEMMA TurnStepOK ==
    ASSUME AgentTypeOK, TurnInv, NEW r \in Requests, TurnStep(r)
    PROVE  TurnOK(r)'
<1> DEFINE s == turn[r].state
<1>1. /\ turn'[r].pc # "idle"
      /\ turn'[r].token = turn[r].token /\ turn'[r].token \in Tokens
      /\ turn'[r].employee = turn[r].employee /\ turn'[r].employee \in Employees
      BY TurnStepFrame DEF TurnInv, TurnOK
<1>2. s.messages \in Seq(Message) /\ s.tier \in Tiers
      BY DEF AgentTypeOK, Turn, AgentState
<1> USE DEF AgentTypeOK, Turn, TurnOK, StreamingAt, At, GoTo, Raise, Advance
<1>3. CASE FindGraph(r) BY <1>1, <1>3 DEF FindGraph, TurnInv
<1>4. CASE BuildGraph(r) \/ BuildFails(r)
      BY <1>1, <1>4 DEF BuildGraph, BuildFails, TurnInv
<1>5. CASE ReturnGraph(r) BY <1>1, <1>5 DEF ReturnGraph, TurnInv
<1>6. CASE OpenTurn(r) BY <1>1, <1>6 DEF OpenTurn, TurnInv
<1>7. CASE StartStream(r)
  <2>1. turn[r].graph \in Requests /\ turn[r].token \in Tokens
        BY <1>7 DEF StartStream, TurnInv
  <2>2. Thread(r).messages \in Seq(Message)
        BY <2>1, ThreadType DEF AgentState
  <2>3. InputState(r).messages # << >>
    <3>1. HumanMessage(r) \in Message BY MessageTypes
    <3>2. Append(Thread(r).messages, HumanMessage(r)) # << >>
          BY <2>2, <3>1, Appended
    <3> QED BY <3>2 DEF InputState
  <2>4. InputState(r).employee = turn[r].employee BY DEF InputState
  <2>5. /\ turn'[r].pc = "agent" /\ turn'[r].state = InputState(r)
        /\ turn'[r].graph = turn[r].graph
        BY <1>7 DEF StartStream
  <2> QED BY <1>1, <2>1, <2>3, <2>4, <2>5
<1>8. ASSUME NEW calls \in CallLists, AgentNode(r, calls) PROVE TurnOK(r)'
  <2> DEFINE answer == AIMessage(r, s.tier, calls)
  <2>0. answer \in Message BY <1>2, MessageTypes
  <2> HIDE DEF answer
  <2>1. Append(s.messages, answer) # << >> BY <1>2, <2>0, Appended
  <2>2. /\ s.employee = turn[r].employee /\ turn[r].graph \in Requests
        BY <1>8 DEF AgentNode, TurnInv
  <2>3. /\ turn'[r].pc \in {"end", "tools"}
        /\ turn'[r].graph = turn[r].graph
        /\ turn'[r].state = [s EXCEPT !.messages = Append(@, answer)]
        BY <1>8 DEF AgentNode, RouteAfterAgent, answer
  <2>4. /\ turn'[r].state.messages # << >>
        /\ turn'[r].state.employee = turn[r].employee
        BY <2>1, <2>2, <2>3 DEF AgentState
  <2> QED BY <1>1, <2>2, <2>3, <2>4
<1>9. CASE AgentFails(r) BY <1>1, <1>9 DEF AgentFails, TurnInv
<1>10. CASE ToolsNode(r)
  <2>1. /\ s.employee = turn[r].employee /\ turn[r].graph \in Requests
        /\ s.messages # << >>
        BY <1>10 DEF ToolsNode, TurnInv
  <2>2. ToolResults(r) \in Seq(Message) BY <2>1, ToolResultsType
  <2>3. s.messages \o ToolResults(r) # << >>
        BY <1>2, <2>1, <2>2, ConcatProperties, EmptySeq
  <2>4. /\ turn'[r].pc = "check"
        /\ turn'[r].graph = turn[r].graph
        /\ turn'[r].state = [s EXCEPT !.messages = @ \o ToolResults(r)]
        BY <1>10 DEF ToolsNode
  <2>5. /\ turn'[r].state.messages # << >>
        /\ turn'[r].state.employee = turn[r].employee
        BY <2>1, <2>3, <2>4 DEF AgentState
  <2> QED BY <1>1, <2>1, <2>4, <2>5
<1>11. CASE ToolsRaise(r) BY <1>1, <1>11 DEF ToolsRaise, TurnInv
<1>12. CASE CheckEscalation(r)
  <2>1. /\ s.employee = turn[r].employee /\ turn[r].graph \in Requests
        /\ s.messages # << >>
        BY <1>12 DEF CheckEscalation, TurnInv
  <2>2. /\ turn'[r].pc = "agent"
        /\ turn'[r].graph = turn[r].graph
        /\ turn'[r].state.messages = s.messages
        /\ turn'[r].state.employee = s.employee
        BY <1>12 DEF CheckEscalation, AgentState
  <2> QED BY <1>1, <2>1, <2>2
<1>13. CASE OutOfSteps(r) BY <1>1, <1>13 DEF OutOfSteps, TurnInv
<1>14. CASE FinishTurn(r) BY <1>1, <1>14 DEF FinishTurn, TurnInv
<1> QED
      BY <1>3, <1>4, <1>5, <1>6, <1>7, <1>8, <1>9, <1>10, <1>11, <1>12, <1>13,
         <1>14 DEF TurnStep

LEMMA TurnStepInv ==
    ASSUME AgentTypeOK, TurnInv, NEW r \in Requests, TurnStep(r)
    PROVE  TurnInv'
<1>1. TurnOK(r)' BY TurnStepOK
<1>2. \A q \in Requests \ {r} : TurnOK(q)' BY TurnStepFrame DEF TurnInv, TurnOK
<1> QED BY <1>1, <1>2 DEF TurnInv

\* A turn begins.
LEMMA CallInv ==
    ASSUME AgentTypeOK, TurnInv, NEW r \in Requests, NEW t \in Tokens,
           NEW e \in Employees, CallTurn(r, t, e)
    PROVE  /\ AgentTypeOK' /\ TurnInv'
           /\ turn[r].pc = "idle" /\ turn'[r].pc = "called"
           /\ turn'[r].token = t
           /\ turn'[r].employee = e
           /\ turn'[r].state = EmptyState
           /\ \A q \in Requests \ {r} : turn'[q] = turn[q]
<1> DEFINE new == [NoTurn EXCEPT !.pc = "called", !.token = t, !.employee = e]
<1>1. turn' = [turn EXCEPT ![r] = new] BY DEF CallTurn
<1>2. new \in Turn BY EmptyTypes DEF Turn, TurnPCs
<1>3. AgentTypeOK' BY <1>1, <1>2 DEF CallTurn, AgentTypeOK
<1>4. turn'[r] = new /\ \A q \in Requests \ {r} : turn'[q] = turn[q]
      BY <1>1 DEF AgentTypeOK
<1>5. TurnOK(r)' BY <1>4 DEF TurnOK, NoTurn, StreamingAt
<1>6. \A q \in Requests \ {r} : TurnOK(q)'
      BY <1>4 DEF TurnInv, TurnOK, CallTurn
<1>7. /\ new.pc = "called" /\ new.token = t /\ new.employee = e
      /\ new.state = EmptyState
      BY DEF NoTurn
<1>8. turn[r].pc = "idle" BY DEF CallTurn, At
<1> QED BY <1>3, <1>4, <1>5, <1>6, <1>7, <1>8 DEF TurnInv

\* A turn is given up.
LEMMA AbandonInv ==
    ASSUME AgentTypeOK, TurnInv, NEW r \in Requests, ~At(r, "idle"),
           GoTo(r, "abandoned"), UNCHANGED <<graph, memory, alone>>
    PROVE  /\ AgentTypeOK' /\ TurnInv'
           /\ turn'[r].pc = "abandoned"
           /\ turn'[r].token = turn[r].token
           /\ turn'[r].employee = turn[r].employee
           /\ turn'[r].state = turn[r].state
           /\ \A q \in Requests \ {r} : turn'[q] = turn[q]
<1>1. "abandoned" \in TurnPCs BY DEF TurnPCs, EndedAt
<1>2. turn' \in [Requests -> Turn] BY <1>1, GoToType
<1>3. /\ turn'[r].pc = "abandoned"
      /\ turn'[r].token = turn[r].token
      /\ turn'[r].employee = turn[r].employee
      /\ turn'[r].state = turn[r].state
      /\ \A q \in Requests \ {r} : turn'[q] = turn[q]
      BY DEF GoTo, AgentTypeOK, Turn
<1>4. TurnOK(r)' BY <1>3 DEF TurnInv, TurnOK, At, StreamingAt
<1>5. \A q \in Requests \ {r} : TurnOK(q)' BY <1>3 DEF TurnInv, TurnOK
<1> QED BY <1>2, <1>3, <1>4, <1>5 DEF TurnInv, AgentTypeOK

=============================================================================
