------------------------ MODULE TerminalClient_proof ------------------------
(***************************************************************************)
(* Proofs about TerminalClient, for any employees, tokens, number of       *)
(* questions, answers of the model and recursion limit: among them that    *)
(* the terminal implements Conversation.                                   *)
(***************************************************************************)
EXTENDS TerminalClient, AgentHistory_proof

USE NoneAssumption DEF NoneAssumption
USE AgentAssumption DEF AgentAssumption

-----------------------------------------------------------------------------
(* The invariant.                                                          *)

\* At most one turn is under way, the one main() waits for, and every turn
\* was asked under the process's token.
MainInv ==
    /\ pc = "picking" => graph = None /\ \A r \in Requests : At(r, "idle")
    /\ pc \in {"prompt", "turn"} => token \in Tokens /\ employee \in Employees
    /\ pc = "turn" => asked \in Requests /\ ~At(asked, "idle")
    /\ \A r \in Requests :
           /\ turn[r].pc \notin {"idle"} \union EndedAt =>
                  pc = "turn" /\ asked = r
           /\ ~At(r, "idle") => turn[r].token = token

\* There is one graph, once there is one, and no other memory is written.
GraphInv ==
    /\ \A r \in Requests :
           /\ At(r, "building") => graph = None
           /\ turn[r].pc \in {"bound"} \union StreamingAt =>
                  turn[r].graph = graph
    /\ \A g \in Requests, t \in Tokens :
           g # graph => memory[g][t].messages = << >>

\* A turn in the graph works on the history itself, and has closed it.
HistoryOK(r) ==
    /\ turn[r].pc \in StreamingAt \ {"opened"} =>
           /\ turn[r].state.messages = History
           /\ History[Len(History)].by = r
    /\ At(r, "tools") => ResultsDue(History)
    /\ At(r, "end") => ApiAccepts(History)

HistoryInv == \A r \in Requests : HistoryOK(r)

Inv == TypeOK /\ TurnInv /\ MainInv /\ GraphInv /\ HistoryInv

-----------------------------------------------------------------------------
(* Histories.                                                              *)

LEMMA GrowsIsPrefix ==
    ASSUME NEW ms \in Seq(Message), NEW ns \in Seq(Message)
    PROVE  /\ \A m \in Message : Promised!IsPrefix(ms, Append(ms, m))
           /\ Promised!IsPrefix(ms, ms \o ns)
<1>1. ASSUME NEW os \in Seq(Message) PROVE Promised!IsPrefix(ms, ms \o os)
  <2>1. Len(ms \o os) = Len(ms) + Len(os) BY <1>1, Concatenating
  <2>2. SubSeq(ms \o os, 1, Len(ms)) = SubSeq(ms, 1, Len(ms))
        BY <1>1, SubSeqOfConcat1
  <2> QED BY <1>1, <2>1, <2>2, LenProperties DEF Promised!IsPrefix
<1>2. ASSUME NEW m \in Message PROVE Promised!IsPrefix(ms, Append(ms, m))
  <2>1. <<m>> \in Seq(Message) /\ Append(ms, m) = ms \o <<m>>
        BY <1>2, AppendIsConcat
  <2> QED BY <1>1, <2>1
<1> QED BY <1>1, <1>2

-----------------------------------------------------------------------------
(* Steps of Conversation.                                                  *)

SameOutcomes == \A q \in Requests : Outcome(q)' = Outcome(q)

OtherOutcomes(r) == \A q \in Requests \ {r} : Outcome(q)' = Outcome(q)

Simulates == [Promised!Next]_(Promised!vars)

LEMMA Stutters ==
    ASSUME UNCHANGED History, SameOutcomes, Usable' = Usable
    PROVE  Simulates
BY DEF Simulates, SameOutcomes, Promised!vars

LEMMA Begins ==
    ASSUME NEW r \in Requests, \A q \in Requests : Outcome(q) # "running",
           Outcome(r) = "none", Outcome(r)' = "running", OtherOutcomes(r),
           UNCHANGED History, Usable' = Usable
    PROVE  Simulates
<1>1. Promised!Begin(r)
      BY DEF Promised!Begin, Promised!Running, OtherOutcomes
<1> QED BY <1>1 DEF Simulates, Promised!Next

LEMMA Says ==
    ASSUME NEW r \in Requests, Outcome(r) = "running", SameOutcomes,
           Promised!IsPrefix(History, History'),
           \A i \in (Len(History) + 1)..Len(History') : History'[i].by = r,
           Usable' = Usable
    PROVE  Simulates
<1>1. Promised!Say(r)
      BY DEF Promised!Say, Promised!Running, SameOutcomes
<1> QED BY <1>1 DEF Simulates, Promised!Next

LEMMA Replies ==
    ASSUME NEW r \in Requests, Outcome(r) = "running", Outcome(r)' = "answered",
           OtherOutcomes(r), UNCHANGED History, Usable, Usable' = Usable,
           History # << >>, History[Len(History)].by = r
    PROVE  Simulates
<1>1. Promised!Answer(r)
      BY DEF Promised!Answer, Promised!Running, OtherOutcomes
<1> QED BY <1>1 DEF Simulates, Promised!Next

LEMMA Fails ==
    ASSUME NEW r \in Requests, Outcome(r) = "running", Outcome(r)' = "failed",
           OtherOutcomes(r), UNCHANGED History, Usable' \in {Usable, FALSE}
    PROVE  Simulates
<1>1. Promised!Fail(r)
      BY DEF Promised!Fail, Promised!Running, OtherOutcomes
<1> QED BY <1>1 DEF Simulates, Promised!Next

-----------------------------------------------------------------------------
(* A step of the turn under way.                                           *)

LEMMA InTurn ==
    ASSUME Inv, NEW r \in Requests, asked = r, pc = "turn", TurnStep(r)
    PROVE  /\ turn[r].pc \notin {"idle"} \union EndedAt
           /\ Outcome(r) = "running"
           /\ turn[r].token = token /\ token \in Tokens
           /\ turn[r].state \in AgentState
           /\ turn[r].state.messages \in Seq(Message)
           /\ \A q \in Requests \ {r} :
                  turn[q].pc \in {"idle"} \union EndedAt
<1>1. token \in Tokens /\ turn[r].token = token
      BY DEF Inv, MainInv, At
<1>2. turn[r].pc \in {"called", "building", "returning", "bound"}
                         \union StreamingAt
      BY DEF TurnStep, FindGraph, BuildGraph, BuildFails, ReturnGraph, OpenTurn,
         StartStream, AgentNode, AgentFails, ToolsNode, ToolsRaise,
         CheckEscalation, OutOfSteps, FinishTurn, At, StreamingAt
<1>3. Outcome(r) = "running" BY <1>2 DEF Outcome, StreamingAt
<1>4. turn[r].state \in AgentState BY <1>1 DEF Inv, TypeOK, AgentTypeOK, Turn
<1> QED BY <1>1, <1>2, <1>3, <1>4
        DEF Inv, MainInv, StreamingAt, EndedAt, AgentState

LEMMA MainStepInv ==
    ASSUME Inv, NEW r \in Requests, asked = r, pc = "turn", TurnStep(r),
           UNCHANGED cliVars
    PROVE  /\ TypeOK' /\ TurnInv' /\ MainInv'
           /\ \A q \in Requests \ {r} : turn'[q] = turn[q]
           /\ OtherOutcomes(r)
           /\ turn'[r].token = turn[r].token
           /\ turn'[r].pc # "idle"
<1> AgentTypeOK /\ TurnInv BY DEF Inv, TypeOK
<1>2. AgentTypeOK' /\ TurnInv' BY TurnStepType, TurnStepInv
<1>3. TypeOK' BY <1>2 DEF TypeOK, Inv, cliVars
<1>4. /\ \A q \in Requests \ {r} : turn'[q] = turn[q]
      /\ turn'[r].token = turn[r].token
      /\ turn'[r].pc # "idle"
      BY TurnStepFrame
<1>5. MainInv'
      BY <1>4, InTurn DEF Inv, MainInv, cliVars, At
<1>6. OtherOutcomes(r) BY <1>4 DEF OtherOutcomes, Outcome
<1> QED BY <1>2, <1>3, <1>4, <1>5, <1>6

\* A node, or the input, has produced the state s.
LEMMA Advances ==
    ASSUME Inv, NEW r \in Requests, asked = r, pc = "turn", TurnStep(r),
           UNCHANGED cliVars, turn[r].pc \in StreamingAt, NEW s \in AgentState,
           NEW to \in {"agent", "tools", "check", "end"}, NEW nodes,
           Advance(r, s, to, nodes)
    PROVE  /\ History = Thread(r).messages
           /\ History' = s.messages
           /\ turn'[r].pc = to /\ turn'[r].state = s
           /\ SameOutcomes
           /\ GraphInv'
           /\ \A q \in Requests \ {r} : HistoryOK(q)'
<1> USE InTurn, MainStepInv
<1>1. /\ turn[r] \in Turn /\ graph \in Requests /\ graph # None
      /\ turn[r].graph = graph
      BY DEF Inv, TypeOK, AgentTypeOK, GraphInv, TurnInv, TurnOK
<1>2. /\ turn' = [turn EXCEPT ![r] =
                      [turn[r] EXCEPT !.pc = to, !.state = s,
                                          !.steps = @ + nodes]]
      /\ UNCHANGED graph
      BY DEF Advance, Inv, TypeOK, AgentTypeOK
<1>3. /\ turn'[r].pc = to /\ turn'[r].state = s
      /\ turn'[r].graph = graph
      BY <1>1, <1>2 DEF Turn, Inv, TypeOK, AgentTypeOK
<1>4. \A g \in Requests, t \in Tokens :
          memory'[g][t] = IF g = graph /\ t = token THEN s ELSE memory[g][t]
      BY <1>1 DEF Advance, Save, Inv, TypeOK, AgentTypeOK
<1>5. History = Thread(r).messages BY <1>1 DEF History, Thread
<1>6. History' = s.messages
      BY <1>1, <1>2, <1>4 DEF History, cliVars
<1>7. Outcome(r)' = "running" BY <1>3 DEF Outcome
<1>8. SameOutcomes BY <1>7 DEF SameOutcomes, OtherOutcomes
<1>9. GraphInv'
      BY <1>1, <1>2, <1>3, <1>4 DEF Inv, GraphInv, At, StreamingAt, EndedAt
<1>10. \A q \in Requests \ {r} : HistoryOK(q)'
      BY DEF HistoryOK, StreamingAt, EndedAt, At
<1> QED BY <1>3, <1>5, <1>6, <1>8, <1>9, <1>10

\* Results are awaited by the turn under way or by none.
LEMMA UsableIs ==
    ASSUME Inv, NEW r \in Requests, asked = r, pc = "turn", TurnStep(r),
           UNCHANGED cliVars
    PROVE  /\ Usable = (ApiAccepts(History) \/ At(r, "tools"))
           /\ Usable' = (ApiAccepts(History') \/ turn'[r].pc = "tools")
<1>1. \A q \in Requests \ {r} : turn[q].pc # "tools" /\ turn'[q].pc # "tools"
      BY InTurn, MainStepInv DEF EndedAt
<1>2. Usable <=> (ApiAccepts(History) \/ At(r, "tools"))
      BY <1>1 DEF Usable, At
<1>3. Usable' <=> (ApiAccepts(History') \/ turn'[r].pc = "tools")
      BY <1>1 DEF Usable, At, ApiAccepts
<1>4. Usable \in BOOLEAN /\ Usable' \in BOOLEAN BY DEF Usable
<1> QED BY <1>2, <1>3, <1>4

LEMMA StartStep ==
    ASSUME Inv, NEW r \in Requests, asked = r, pc = "turn", TurnStep(r),
           UNCHANGED cliVars, StartStream(r)
    PROVE  GraphInv' /\ HistoryInv' /\ Simulates
<1> DEFINE ms == Thread(r).messages
<1>1. /\ At(r, "opened")
      /\ turn[r].graph \in Requests /\ turn[r].token \in Tokens
      /\ turn[r].employee \in Employees
      BY DEF StartStream, At, Inv, TurnInv, TurnOK, StreamingAt
<1>2. Thread(r) \in AgentState
      BY <1>1, ThreadType DEF Inv, TypeOK
<1>3. ms \in Seq(Message) BY <1>2 DEF AgentState
<1>4. /\ HumanMessage(r) \in Message /\ HumanMessage(r).by = r
      /\ HumanMessage(r).calls = << >> /\ HumanMessage(r).kind # "tool"
      BY MessageTypes DEF HumanMessage
<1>5. /\ Append(ms, HumanMessage(r)) \in Seq(Message)
      /\ Len(Append(ms, HumanMessage(r))) = Len(ms) + 1
      /\ Append(ms, HumanMessage(r))[Len(ms) + 1] = HumanMessage(r)
      /\ Promised!IsPrefix(ms, Append(ms, HumanMessage(r)))
      BY <1>3, <1>4, Appending, GrowsIsPrefix
<1>6. /\ InputState(r) \in AgentState
      /\ InputState(r).messages = Append(ms, HumanMessage(r))
      BY <1>1, <1>5 DEF InputState, AgentState, Tiers
<1>7. Advance(r, InputState(r), "agent", 0) BY DEF StartStream
<1>8. /\ History = ms /\ History' = Append(ms, HumanMessage(r))
      /\ turn'[r].pc = "agent" /\ turn'[r].state = InputState(r)
      /\ SameOutcomes /\ GraphInv'
      /\ \A q \in Requests \ {r} : HistoryOK(q)'
      BY <1>1, <1>6, <1>7, Advances DEF At, StreamingAt
<1>9. HistoryOK(r)' BY <1>4, <1>5, <1>6, <1>8 DEF HistoryOK, At
<1>10. Usable' = Usable
  <2>1. ApiAccepts(History') <=> ApiAccepts(History)
        BY <1>3, <1>4, <1>8, QuestionKeepsOrder
  <2>2. ~At(r, "tools") /\ turn'[r].pc # "tools" BY <1>1, <1>8 DEF At
  <2> QED BY <2>1, <2>2, UsableIs
<1>11. \A i \in (Len(History) + 1)..Len(History') : History'[i].by = r
  <2>1. Len(ms) \in Nat BY <1>3, LenProperties
  <2> QED BY <1>4, <1>5, <1>8, <2>1
<1>12. Simulates BY <1>5, <1>8, <1>10, <1>11, InTurn, Says
<1> QED BY <1>8, <1>9, <1>12 DEF HistoryInv

LEMMA AgentStep ==
    ASSUME Inv, NEW r \in Requests, asked = r, pc = "turn", TurnStep(r),
           UNCHANGED cliVars, NEW calls \in CallLists, AgentNode(r, calls)
    PROVE  GraphInv' /\ HistoryInv' /\ Simulates
<1> DEFINE st == turn[r].state
           ms == st.messages
           m == AIMessage(r, st.tier, calls)
           next == [st EXCEPT !.messages = Append(@, m)]
<1>1. At(r, "agent") /\ ApiAccepts(ms) BY DEF AgentNode
<1>2. st \in AgentState /\ ms \in Seq(Message) /\ st.tier \in Tiers
      BY InTurn DEF AgentState
<1>3. ms = History BY <1>1 DEF Inv, HistoryInv, HistoryOK, At, StreamingAt
<1>4. m \in Message /\ m.by = r /\ m.calls = calls
      BY <1>2, MessageTypes DEF AIMessage
<1>5. /\ Append(ms, m) \in Seq(Message)
      /\ Len(Append(ms, m)) = Len(ms) + 1
      /\ Append(ms, m)[Len(ms) + 1] = m
      /\ Promised!IsPrefix(ms, Append(ms, m))
      BY <1>2, <1>4, Appending, GrowsIsPrefix
<1>6. next \in AgentState /\ next.messages = Append(ms, m)
      BY <1>2, <1>5 DEF AgentState
<1>7. Advance(r, next, RouteAfterAgent(calls), 1) BY DEF AgentNode
<1>8. RouteAfterAgent(calls) = IF calls = << >> THEN "end" ELSE "tools"
      BY DEF RouteAfterAgent
<1> HIDE DEF next, m
<1>9. /\ History' = Append(ms, m)
      /\ turn'[r].pc = RouteAfterAgent(calls) /\ turn'[r].state = next
      /\ SameOutcomes /\ GraphInv'
      /\ \A q \in Requests \ {r} : HistoryOK(q)'
      BY <1>1, <1>6, <1>7, <1>8, Advances DEF At, StreamingAt
<1>10. /\ ResultsDue(History')
       /\ calls = << >> => ApiAccepts(History')
      BY <1>1, <1>2, <1>4, <1>9, AnswerDue
<1>11. HistoryOK(r)'
  <2>1. /\ turn'[r].state.messages = History'
        /\ History'[Len(History')].by = r
        BY <1>4, <1>5, <1>6, <1>9
  <2>2. turn'[r].pc = "end" => ApiAccepts(History')
        BY <1>8, <1>9, <1>10
  <2> QED BY <1>10, <2>1, <2>2 DEF HistoryOK, At, ResultsDue, ApiAccepts
<1>12. Usable' = Usable
  <2>1. ApiAccepts(History') \/ turn'[r].pc = "tools"
        BY <1>8, <1>9, <1>10
  <2>2. ApiAccepts(History) BY <1>1, <1>3
  <2> QED BY <2>1, <2>2, UsableIs
<1>13. \A i \in (Len(History) + 1)..Len(History') : History'[i].by = r
  <2>1. Len(ms) \in Nat BY <1>2, LenProperties
  <2> QED BY <1>3, <1>4, <1>5, <1>9, <2>1
<1>14. Simulates BY <1>3, <1>5, <1>9, <1>12, <1>13, InTurn, Says
<1> QED BY <1>9, <1>11, <1>14 DEF HistoryInv

LEMMA ToolsStep ==
    ASSUME Inv, NEW r \in Requests, asked = r, pc = "turn", TurnStep(r),
           UNCHANGED cliVars, ToolsNode(r)
    PROVE  GraphInv' /\ HistoryInv' /\ Simulates
<1> DEFINE st == turn[r].state
           ms == st.messages
           ns == ToolResults(r)
           next == [st EXCEPT !.messages = @ \o ns]
<1>1. At(r, "tools") BY DEF ToolsNode
<1>2. st \in AgentState /\ ms \in Seq(Message) BY InTurn DEF AgentState
<1>3. /\ ms = History /\ ms # << >> /\ ms[Len(ms)].by = r
      /\ ResultsDue(ms)
      BY <1>1 DEF Inv, HistoryInv, HistoryOK, TurnInv, TurnOK, At, StreamingAt
<1>4. /\ PendingCalls(r) \in Seq(Tools) /\ ns \in Seq(Message)
      /\ PendingCalls(r) = ms[Len(ms)].calls
      BY <1>3, ToolResultsType DEF Inv, TypeOK, PendingCalls, LastMessage
<1>5. Len(PendingCalls(r)) \in Nat BY <1>4, LenProperties
<1>6. /\ Len(ns) = Len(ms[Len(ms)].calls)
      /\ \A i \in 1..Len(ns) : ns[i] = ToolResult(r, PendingCalls(r)[i])
      BY <1>4, <1>5, LenProperties DEF ToolResults
<1>7. \A i \in 1..Len(ns) :
          ns[i].kind = "tool" /\ ns[i].calls = << >> /\ ns[i].by = r
  <2>1. \A tool : /\ ToolResult(r, tool).kind = "tool"
                  /\ ToolResult(r, tool).calls = << >>
                  /\ ToolResult(r, tool).by = r
        BY DEF ToolResult, ToolMessage
  <2> HIDE DEF ns
  <2> QED BY <1>6, <2>1
<1>8. /\ ms \o ns \in Seq(Message)
      /\ Len(ms \o ns) = Len(ms) + Len(ns)
      /\ \A i \in 1..Len(ms) : (ms \o ns)[i] = ms[i]
      /\ \A i \in 1..Len(ns) : (ms \o ns)[Len(ms) + i] = ns[i]
      /\ Promised!IsPrefix(ms, ms \o ns)
      BY <1>2, <1>4, Concatenating, GrowsIsPrefix
<1>9. next \in AgentState /\ next.messages = ms \o ns
      BY <1>2, <1>8 DEF AgentState
<1>10. Advance(r, next, "check", 1) BY DEF ToolsNode
<1>11. Len(ms) \in Nat \ {0} /\ Len(ns) \in Nat
      BY <1>2, <1>3, <1>4, LenProperties, EmptySeq
<1>12. ApiAccepts(ms \o ns)
      BY <1>2, <1>3, <1>4, <1>6, <1>7, ResultsRestoreOrder
<1> HIDE DEF next, ns
<1>13. /\ History' = ms \o ns
       /\ turn'[r].pc = "check" /\ turn'[r].state = next
       /\ SameOutcomes /\ GraphInv'
       /\ \A q \in Requests \ {r} : HistoryOK(q)'
      BY <1>1, <1>9, <1>10, Advances DEF At, StreamingAt
<1>14. \A i \in (Len(ms) + 1)..Len(ms \o ns) : (ms \o ns)[i].by = r
  <2> SUFFICES ASSUME NEW i \in (Len(ms) + 1)..Len(ms \o ns)
               PROVE  (ms \o ns)[i].by = r
      OBVIOUS
  <2>1. i - Len(ms) \in 1..Len(ns) /\ Len(ms) + (i - Len(ms)) = i
        BY <1>8, <1>11
  <2> QED BY <1>7, <1>8, <2>1
<1>15. (ms \o ns)[Len(ms \o ns)].by = r
  <2>1. CASE Len(ns) = 0 BY <1>3, <1>8, <1>11, <2>1
  <2>2. CASE Len(ns) # 0
    <3>1. Len(ms \o ns) \in (Len(ms) + 1)..Len(ms \o ns) BY <1>8, <1>11, <2>2
    <3> QED BY <1>14, <3>1
  <2> QED BY <2>1, <2>2
<1>16. HistoryOK(r)' BY <1>9, <1>13, <1>15 DEF HistoryOK, At
<1>17. Usable' = Usable BY <1>1, <1>12, <1>13, UsableIs
<1>18. Simulates BY <1>3, <1>8, <1>13, <1>14, <1>17, InTurn, Says
<1> QED BY <1>13, <1>16, <1>18 DEF HistoryInv

LEMMA CheckStep ==
    ASSUME Inv, NEW r \in Requests, asked = r, pc = "turn", TurnStep(r),
           UNCHANGED cliVars, CheckEscalation(r)
    PROVE  GraphInv' /\ HistoryInv' /\ Simulates
<1> DEFINE st == turn[r].state
           next == IF EscalationAsked(st.messages)
                   THEN [st EXCEPT !.tier = "deep", !.escalated = TRUE] ELSE st
<1>1. At(r, "check") BY DEF CheckEscalation
<1>2. st \in AgentState BY InTurn
<1>3. /\ st.messages = History /\ History[Len(History)].by = r
      BY <1>1 DEF Inv, HistoryInv, HistoryOK, At, StreamingAt
<1>4. next \in AgentState /\ next.messages = st.messages
      BY <1>2 DEF AgentState, Tiers
<1>5. Advance(r, next, "agent", 1) BY DEF CheckEscalation
<1> HIDE DEF next
<1>6. /\ History' = History
      /\ turn'[r].pc = "agent" /\ turn'[r].state = next
      /\ SameOutcomes /\ GraphInv'
      /\ \A q \in Requests \ {r} : HistoryOK(q)'
      BY <1>1, <1>3, <1>4, <1>5, Advances DEF At, StreamingAt
<1>7. HistoryOK(r)' BY <1>3, <1>4, <1>6 DEF HistoryOK, At
<1>8. Usable' = Usable BY <1>1, <1>6, UsableIs DEF At
<1> QED BY <1>6, <1>7, <1>8, Stutters DEF HistoryInv

\* The steps before the stream: the graph is found or built, and read.
LEMMA OpeningStep ==
    ASSUME Inv, NEW r \in Requests, asked = r, pc = "turn", TurnStep(r),
           UNCHANGED cliVars,
           FindGraph(r) \/ BuildGraph(r) \/ ReturnGraph(r) \/ OpenTurn(r)
    PROVE  GraphInv' /\ HistoryInv' /\ Simulates
<1>1. /\ turn[r].pc \in {"called", "building", "returning", "bound"}
      /\ turn[r] \in Turn
      BY DEF FindGraph, BuildGraph, ReturnGraph, OpenTurn, At, Inv, TypeOK,
         AgentTypeOK
<1>2. /\ turn'[r].pc \in {"building", "returning", "bound", "opened"}
      /\ turn'[r].pc = "building" => graph' = None
      /\ turn'[r].pc \in {"bound", "opened"} => turn'[r].graph = graph'
  <2> USE <1>1 DEF Inv, TypeOK, AgentTypeOK, Turn, GoTo, At
  <2>1. CASE FindGraph(r) BY <2>1 DEF FindGraph
  <2>2. CASE BuildGraph(r) BY <2>2 DEF BuildGraph
  <2>3. CASE ReturnGraph(r) BY <2>3 DEF ReturnGraph
  <2>4. CASE OpenTurn(r) BY <2>4 DEF OpenTurn, GraphInv
  <2> QED BY <2>1, <2>2, <2>3, <2>4
<1>3. /\ UNCHANGED memory
      /\ graph' = graph \/ (graph = None /\ graph' = r)
      BY DEF FindGraph, BuildGraph, ReturnGraph, OpenTurn, Inv, GraphInv
<1>4. GraphInv'
  <2>1. \A q \in Requests \ {r} :
            turn'[q].pc \notin {"building", "bound"} \union StreamingAt
        BY InTurn, MainStepInv DEF EndedAt, StreamingAt
  <2>2. \A g \in Requests, t \in Tokens :
            g # graph' => memory'[g][t].messages = << >>
        BY <1>3 DEF Inv, GraphInv
  <2> QED BY <1>2, <2>1, <2>2 DEF GraphInv, At, StreamingAt
<1>5. UNCHANGED History
      BY <1>3, InTurn DEF History, cliVars, Inv, GraphInv
<1>6. HistoryInv'
  <2>1. \A q \in Requests \ {r} : HistoryOK(q)'
        BY InTurn, MainStepInv DEF HistoryOK, EndedAt, StreamingAt, At
  <2>2. HistoryOK(r)' BY <1>2 DEF HistoryOK, StreamingAt, At
  <2> QED BY <2>1, <2>2 DEF HistoryInv
<1>7. SameOutcomes
  <2>1. Outcome(r) = "running" /\ Outcome(r)' = "running"
        BY <1>1, <1>2 DEF Outcome
  <2> QED BY <2>1, MainStepInv DEF SameOutcomes, OtherOutcomes
<1>8. Usable' = Usable BY <1>1, <1>2, <1>5, UsableIs DEF At
<1> QED BY <1>4, <1>5, <1>6, <1>7, <1>8, Stutters

\* Anything that raises.
LEMMA RaisingStep ==
    ASSUME Inv, NEW r \in Requests, asked = r, pc = "turn", TurnStep(r),
           UNCHANGED cliVars,
           \/ BuildFails(r) \/ AgentFails(r) \/ ToolsRaise(r)
           \/ OutOfSteps(r)
    PROVE  GraphInv' /\ HistoryInv' /\ Simulates
<1>1. PICK error : Raise(r, error)
      BY DEF BuildFails, AgentFails, ToolsRaise, OutOfSteps
<1>2. UNCHANGED <<graph, memory>> /\ turn'[r].pc = "raised"
      BY <1>1 DEF Raise, Inv, TypeOK, AgentTypeOK
<1>3. \A q \in Requests : turn'[q].pc \in {"idle"} \union EndedAt
      BY <1>2, InTurn, MainStepInv DEF EndedAt
<1>4. GraphInv'
      BY <1>2, <1>3 DEF Inv, GraphInv, At, EndedAt, StreamingAt
<1>5. HistoryInv'
      BY <1>3 DEF HistoryInv, HistoryOK, At, EndedAt, StreamingAt
<1>6. UNCHANGED History BY <1>2 DEF History, cliVars
<1>7. Outcome(r) = "running" /\ Outcome(r)' = "failed"
      BY <1>2, InTurn DEF Outcome
<1>8. Usable' \in {Usable, FALSE}
  <2>1. ApiAccepts(History) \in BOOLEAN BY DEF ApiAccepts
  <2> QED BY <1>2, <1>6, <2>1, UsableIs DEF At
<1> QED BY <1>4, <1>5, <1>6, <1>7, <1>8, MainStepInv, Fails

LEMMA FinishStep ==
    ASSUME Inv, NEW r \in Requests, asked = r, pc = "turn", TurnStep(r),
           UNCHANGED cliVars, FinishTurn(r)
    PROVE  GraphInv' /\ HistoryInv' /\ Simulates
<1>1. /\ UNCHANGED <<graph, memory>> /\ turn[r].pc = "end"
      /\ turn'[r].pc = "done"
      BY DEF FinishTurn, At, Inv, TypeOK, AgentTypeOK
<1>2. \A q \in Requests : turn'[q].pc \in {"idle"} \union EndedAt
      BY <1>1, InTurn, MainStepInv DEF EndedAt
<1>3. GraphInv'
      BY <1>1, <1>2 DEF Inv, GraphInv, At, EndedAt, StreamingAt
<1>4. HistoryInv'
      BY <1>2 DEF HistoryInv, HistoryOK, At, EndedAt, StreamingAt
<1>5. UNCHANGED History BY <1>1 DEF History, cliVars
<1>6. Outcome(r) = "running" /\ Outcome(r)' = "answered"
      BY <1>1, InTurn DEF Outcome
<1>7. /\ ApiAccepts(History) /\ History # << >>
      /\ History[Len(History)].by = r
      BY <1>1 DEF Inv, HistoryInv, HistoryOK, TurnInv, TurnOK, At, StreamingAt
<1>8. Usable /\ Usable' = Usable
  <2>1. Usable' \in BOOLEAN /\ Usable \in BOOLEAN BY DEF Usable
  <2> QED BY <1>1, <1>5, <1>7, <2>1, UsableIs
<1> QED BY <1>3, <1>4, <1>5, <1>6, <1>7, <1>8, MainStepInv, Replies

LEMMA RunTurnStep ==
    ASSUME Inv, RunTurn
    PROVE  Inv' /\ Simulates
<1> DEFINE Goal == GraphInv' /\ HistoryInv' /\ Simulates
<1>1. PICK r \in Requests : asked = r BY DEF RunTurn, Inv, MainInv
<1>2. pc = "turn" /\ TurnStep(r) /\ UNCHANGED cliVars BY <1>1 DEF RunTurn
<1>3. TypeOK' /\ TurnInv' /\ MainInv' BY <1>1, <1>2, MainStepInv
<1>4. Goal
  <2>1. CASE StartStream(r) BY <1>1, <1>2, <2>1, StartStep
  <2>2. ASSUME NEW calls \in CallLists, AgentNode(r, calls) PROVE Goal
        BY <1>1, <1>2, <2>2, AgentStep
  <2>3. CASE ToolsNode(r) BY <1>1, <1>2, <2>3, ToolsStep
  <2>4. CASE CheckEscalation(r) BY <1>1, <1>2, <2>4, CheckStep
  <2>5. CASE FindGraph(r) \/ BuildGraph(r) \/ ReturnGraph(r) \/ OpenTurn(r)
        BY <1>1, <1>2, <2>5, OpeningStep
  <2>6. CASE \/ BuildFails(r) \/ AgentFails(r) \/ ToolsRaise(r)
             \/ OutOfSteps(r)
        BY <1>1, <1>2, <2>6, RaisingStep
  <2>7. CASE FinishTurn(r) BY <1>1, <1>2, <2>7, FinishStep
  <2> QED BY <1>2, <2>1, <2>2, <2>3, <2>4, <2>5, <2>6, <2>7 DEF TurnStep
<1> QED BY <1>3, <1>4 DEF Inv

-----------------------------------------------------------------------------
(* The other steps.                                                        *)

LEMMA InitInv == Init => Inv /\ Promised!Init
<1> SUFFICES ASSUME Init PROVE Inv /\ Promised!Init OBVIOUS
<1>1. AgentTypeOK BY EmptyTypes DEF Init, AgentInit, AgentTypeOK
<1>2. TypeOK BY <1>1 DEF Init, TypeOK
<1>3. /\ graph = None
      /\ \A r \in Requests : turn[r].pc = "idle" /\ turn[r] = NoTurn
      /\ \A g \in Requests, t \in Tokens : memory[g][t].messages = << >>
      BY DEF Init, AgentInit, NoTurn, EmptyMemory, EmptyState
<1>4. TurnInv BY <1>3 DEF TurnInv, TurnOK, StreamingAt
<1>5. MainInv BY <1>3 DEF Init, MainInv, At
<1>6. GraphInv BY <1>3 DEF GraphInv, At, StreamingAt
<1>7. HistoryInv BY <1>3 DEF HistoryInv, HistoryOK, At, StreamingAt
<1>8. History = << >> BY <1>3 DEF History
<1>9. \A r \in Requests : Outcome(r) = "none" BY <1>3 DEF Outcome
<1>10. Usable = TRUE
  <2>1. ApiAccepts(<< >>) BY EmptySeq DEF ApiAccepts
  <2>2. Usable \in BOOLEAN BY DEF Usable
  <2> QED BY <1>8, <2>1, <2>2 DEF Usable
<1>11. Promised!Init BY <1>8, <1>9, <1>10 DEF Promised!Init
<1> QED BY <1>2, <1>4, <1>5, <1>6, <1>7, <1>11 DEF Inv

LEMMA AskStep ==
    ASSUME Inv, NEW r \in Requests, Ask(r)
    PROVE  Inv' /\ Simulates
<1> AgentTypeOK /\ TurnInv BY DEF Inv, TypeOK
<1>1. /\ pc = "prompt" /\ pc' = "turn" /\ asked' = r
      /\ UNCHANGED <<token, employee, graph, memory>>
      BY DEF Ask, CallTurn
<1>2. token \in Tokens /\ employee \in Employees BY <1>1 DEF Inv, MainInv
<1>3. /\ AgentTypeOK' /\ TurnInv'
      /\ turn[r].pc = "idle" /\ turn'[r].pc = "called"
      /\ turn'[r].token = token
      /\ \A q \in Requests \ {r} : turn'[q] = turn[q]
      BY <1>2, CallInv DEF Ask
<1>4. \A q \in Requests : turn[q].pc \in {"idle"} \union EndedAt
      BY <1>1 DEF Inv, MainInv
<1>5. TypeOK' BY <1>1, <1>2, <1>3 DEF TypeOK
<1>6. MainInv'
      BY <1>1, <1>2, <1>3, <1>4 DEF Inv, MainInv, At
<1>7. GraphInv'
      BY <1>1, <1>3, <1>4 DEF Inv, GraphInv, At, StreamingAt, EndedAt
<1>8. HistoryInv'
      BY <1>3, <1>4 DEF HistoryInv, HistoryOK, At, StreamingAt, EndedAt
<1>9. UNCHANGED History BY <1>1 DEF History
<1>10. /\ Outcome(r) = "none" /\ Outcome(r)' = "running"
       /\ OtherOutcomes(r)
       /\ \A q \in Requests : Outcome(q) # "running"
      BY <1>3, <1>4 DEF Outcome, OtherOutcomes, EndedAt
<1>11. Usable' = Usable
  <2>1. \A q \in Requests : turn[q].pc # "tools" /\ turn'[q].pc # "tools"
        BY <1>3, <1>4 DEF EndedAt
  <2>2. Usable' <=> Usable BY <1>9, <2>1 DEF Usable, At, ApiAccepts
  <2>3. Usable' \in BOOLEAN /\ Usable \in BOOLEAN BY DEF Usable
  <2> QED BY <2>2, <2>3
<1>12. Simulates BY <1>9, <1>10, <1>11, Begins
<1> QED BY <1>3, <1>5, <1>6, <1>7, <1>8, <1>12 DEF Inv

\* A step that leaves the agent alone and ends no turn.
LEMMA QuietStep ==
    ASSUME Inv, UNCHANGED agentVars, MainInv', TypeOK',
           UNCHANGED token \/ pc = "picking"
    PROVE  Inv' /\ Simulates
<1>1. UNCHANGED <<graph, memory, turn>> BY DEF agentVars
<1>2. UNCHANGED History
      BY <1>1 DEF History, Inv, MainInv
<1>3. TurnInv' BY <1>1 DEF Inv, TurnInv, TurnOK
<1>4. GraphInv' BY <1>1 DEF Inv, GraphInv, At
<1>5. HistoryInv'
  <2> SUFFICES ASSUME NEW r \in Requests PROVE HistoryOK(r)' BY DEF HistoryInv
  <2>1. HistoryOK(r) BY DEF Inv, HistoryInv
  <2> QED BY <1>1, <1>2, <2>1 DEF HistoryOK, At, ResultsDue, ApiAccepts
<1>6. SameOutcomes BY <1>1 DEF SameOutcomes, Outcome
<1>7. Usable' = Usable
  <2>1. Usable' <=> Usable BY <1>1, <1>2 DEF Usable, At, ApiAccepts
  <2>2. Usable' \in BOOLEAN /\ Usable \in BOOLEAN BY DEF Usable
  <2> QED BY <2>1, <2>2
<1> QED BY <1>2, <1>3, <1>4, <1>5, <1>6, <1>7, Stutters DEF Inv

\* Ctrl+C while a turn runs.
LEMMA InterruptStep ==
    ASSUME Inv, Interrupt, pc = "turn", turn[asked].pc \notin EndedAt
    PROVE  Inv' /\ Simulates
<1> AgentTypeOK /\ TurnInv BY DEF Inv, TypeOK
<1>1. PICK r \in Requests : asked = r BY DEF Inv, MainInv
<1>2. /\ GoTo(r, "abandoned") /\ pc' = "ended"
      /\ UNCHANGED <<graph, memory, alone, token, employee, asked>>
      BY <1>1 DEF Interrupt
<1>3. ~At(r, "idle") /\ turn[r].pc \notin EndedAt
      BY <1>1 DEF Inv, MainInv
<1>4. /\ AgentTypeOK' /\ TurnInv' /\ turn'[r].pc = "abandoned"
      /\ turn'[r].token = turn[r].token
      /\ \A q \in Requests \ {r} : turn'[q] = turn[q]
      BY <1>2, <1>3, AbandonInv
<1>5. \A q \in Requests \ {r} : turn[q].pc \in {"idle"} \union EndedAt
      BY <1>1 DEF Inv, MainInv
<1>6. \A q \in Requests : turn'[q].pc \in {"idle"} \union EndedAt
      BY <1>4, <1>5 DEF EndedAt
<1>7. TypeOK' BY <1>2, <1>4 DEF Inv, TypeOK
<1>8. MainInv' BY <1>2, <1>3, <1>4, <1>6 DEF Inv, MainInv, At
<1>9. GraphInv'
      BY <1>2, <1>6 DEF Inv, GraphInv, At, EndedAt, StreamingAt
<1>10. HistoryInv'
      BY <1>6 DEF HistoryInv, HistoryOK, At, EndedAt, StreamingAt
<1>11. UNCHANGED History BY <1>2 DEF History
<1>12. /\ Outcome(r) = "running" /\ Outcome(r)' = "failed"
       /\ OtherOutcomes(r)
      BY <1>3, <1>4 DEF Outcome, OtherOutcomes, EndedAt, At
<1>13. Usable' \in {Usable, FALSE}
  <2>1. Usable' => Usable
        BY <1>6, <1>11 DEF Usable, At, ApiAccepts, EndedAt
  <2>2. Usable' \in BOOLEAN /\ Usable \in BOOLEAN BY DEF Usable
  <2> QED BY <2>1, <2>2
<1>14. Simulates BY <1>11, <1>12, <1>13, Fails
<1> QED BY <1>4, <1>7, <1>8, <1>9, <1>10, <1>14 DEF Inv

LEMMA Step ==
    ASSUME Inv, [Next]_vars
    PROVE  Inv' /\ Simulates
<1> USE DEF Inv, MainInv, TypeOK, AgentTypeOK, agentVars, At
<1>1. ASSUME NEW e \in Employees, NEW t \in Tokens, PickEmployee(e, t)
      PROVE  Inv' /\ Simulates
  <2>1. MainInv' /\ TypeOK' BY <1>1 DEF PickEmployee
  <2> QED BY <1>1, <2>1, QuietStep DEF PickEmployee
<1>2. ASSUME NEW r \in Requests, Ask(r) PROVE Inv' /\ Simulates
      BY <1>2, AskStep
<1>3. CASE RunTurn BY <1>3, RunTurnStep
<1>4. CASE ShowTag \/ ShowUnavailable \/ Crash
  <2>1. MainInv' /\ TypeOK'
        BY <1>4 DEF ShowTag, ShowUnavailable, Crash, EndedAt
  <2> QED BY <1>4, <2>1, QuietStep DEF ShowTag, ShowUnavailable, Crash
<1>5. CASE Quit
  <2>1. MainInv' /\ TypeOK' BY <1>5 DEF Quit
  <2> QED BY <1>5, <2>1, QuietStep DEF Quit
<1>6. CASE Interrupt
  <2>1. CASE pc = "turn" /\ turn[asked].pc \notin EndedAt
        BY <1>6, <2>1, InterruptStep
  <2>2. CASE ~(pc = "turn" /\ turn[asked].pc \notin EndedAt)
    <3>1. MainInv' /\ TypeOK' BY <1>6, <2>2 DEF Interrupt
    <3> QED BY <1>6, <2>2, <3>1, QuietStep DEF Interrupt
  <2> QED BY <2>1, <2>2
<1>7. CASE UNCHANGED vars
  <2>1. MainInv' /\ TypeOK' BY <1>7 DEF vars, cliVars
  <2> QED BY <1>7, <2>1, QuietStep DEF vars, cliVars
<1> QED BY <1>1, <1>2, <1>3, <1>4, <1>5, <1>6, <1>7 DEF Next, MainStep

-----------------------------------------------------------------------------
(* The theorems.                                                           *)

LEMMA Invariant == Spec => []Inv
<1>1. Inv /\ [Next]_vars => Inv' BY Step
<1>2. Init => Inv BY InitInv
<1> QED BY <1>1, <1>2, PTL DEF Spec

\* Every variable of the terminal and of its turns keeps its type (cli.py,
\* agent.py).
THEOREM TypeCorrect == Spec => []TypeOK
<1>1. Inv => TypeOK BY DEF Inv
<1> QED BY <1>1, Invariant, PTL

\* The terminal implements Conversation: for any number of questions and any
\* failure of any turn, what was said is only added to by the turn under way,
\* an answer closes its own turn, and a conversation left unusable answers
\* nothing more (cli.py:41-66, agent.py:193-234).
THEOREM Implements == Spec => ImplementsConversation
<1>1. Inv /\ [Next]_vars => [Promised!Next]_(Promised!vars)
      BY Step DEF Simulates
<1>2. Init => Promised!Init BY InitInv
<1> QED BY <1>1, <1>2, Invariant, PTL
       DEF Spec, ImplementsConversation, Promised!Spec

-----------------------------------------------------------------------------
(* The tag.                                                                *)

\* Every turn has the conversation to itself, and an answer that was not
\* tagged yet stands at the end of what its turn knew.
TagInv ==
    /\ \A r \in Requests : alone[r]
    /\ pc = "turn" /\ At(asked, "done") =>
           turn[asked].state.messages = History

LEMMA TurnTagged ==
    ASSUME Inv, HistInv, AloneInv, ThreadInv, TagInv, RunTurn
    PROVE  HistInv' /\ AloneInv' /\ ThreadInv' /\ TagInv'
<1> AgentTypeOK /\ TurnInv BY DEF Inv, TypeOK
<1>1. PICK r \in Requests : asked = r BY DEF RunTurn, Inv, MainInv
<1>2. pc = "turn" /\ TurnStep(r) /\ UNCHANGED cliVars BY <1>1 DEF RunTurn
<1>3. HistInv' /\ AloneInv' /\ ThreadInv'
      BY <1>2, TurnStepHist, TurnStepAlone
<1>4. turn[r].pc \notin EndedAt BY <1>1, <1>2, InTurn
<1>5. CASE FinishTurn(r)
  <2>1. /\ turn[r].pc = "end" /\ UNCHANGED <<graph, memory, alone>>
        /\ turn'[r].state = turn[r].state
        BY <1>5 DEF FinishTurn, At, AgentTypeOK, Turn
  <2>2. turn[r].state.messages = History
        BY <2>1 DEF Inv, HistoryInv, HistoryOK, StreamingAt
  <2>3. UNCHANGED History BY <1>2, <2>1 DEF History, cliVars
  <2> QED BY <1>1, <1>2, <1>3, <2>1, <2>2, <2>3 DEF TagInv, cliVars
<1>6. CASE OpenTurn(r)
  <2>1. /\ turn[r].token = token
        /\ \A q \in Requests \ {r} : turn[q].pc \in {"idle"} \union EndedAt
        BY <1>1, <1>2, InTurn
  <2>2. Overlapped(r) = {}
        BY <2>1 DEF Overlapped, Running, StreamingAt, EndedAt
  <2>3. /\ turn'[r].pc = "opened"
        /\ \A q \in Requests : alone'[q] <=> alone[q] /\ q \notin Overlapped(r)
        BY <1>6 DEF OpenTurn, At, AgentTypeOK, Turn
  <2> QED BY <1>1, <1>2, <1>3, <2>2, <2>3 DEF TagInv, At, cliVars
<1>7. CASE Writes(r)
  <2>1. UNCHANGED alone /\ turn'[r].pc # "done"
        BY <1>7 DEF Writes, Saves, StreamingAt
  <2> QED BY <1>1, <1>2, <1>3, <2>1 DEF TagInv, At, cliVars
<1>8. CASE Quiet
  <2>1. UNCHANGED alone /\ turn'[r].pc # "done"
        BY <1>4, <1>8 DEF Quiet, EndedAt
  <2> QED BY <1>1, <1>2, <1>3, <2>1 DEF TagInv, At, cliVars
<1> QED BY <1>2, <1>5, <1>6, <1>7, <1>8, StepKinds

LEMMA StepTagged ==
    ASSUME Inv, HistInv, AloneInv, ThreadInv, TagInv, [Next]_vars
    PROVE  HistInv' /\ AloneInv' /\ ThreadInv' /\ TagInv'
<1> AgentTypeOK /\ TurnInv BY DEF Inv, TypeOK
<1>1. ASSUME NEW r \in Requests, Ask(r)
      PROVE  HistInv' /\ AloneInv' /\ ThreadInv' /\ TagInv'
  <2>1. /\ CallTurn(r, token, employee)
        /\ token \in Tokens /\ employee \in Employees /\ asked' = r
        BY <1>1 DEF Ask, Inv, MainInv
  <2>2. HistInv' /\ AloneInv' /\ ThreadInv'
        BY <2>1, CallHist, CallAlone
  <2>3. turn'[r].pc = "called" /\ UNCHANGED alone
        BY <2>1, CallInv DEF CallTurn
  <2> QED BY <2>1, <2>2, <2>3 DEF TagInv, At
<1>2. ASSUME UNCHANGED agentVars,
             \/ pc' # "turn"
             \/ UNCHANGED <<pc, token, asked>>
      PROVE  HistInv' /\ AloneInv' /\ ThreadInv' /\ TagInv'
  <2>1. WritesNothing /\ Quiet BY <1>2 DEF agentVars, WritesNothing, Quiet
  <2>2. HistInv' /\ AloneInv' /\ ThreadInv'
        BY <2>1, HistWritesNothing, QuietAlone
  <2> QED BY <1>2, <2>2 DEF TagInv, At, History, agentVars
<1>3. CASE Interrupt
  <2>1. pc' # "turn" /\ UNCHANGED <<memory, alone>> BY <1>3 DEF Interrupt
  <2>2. CASE pc = "turn" /\ turn[asked].pc \notin EndedAt
    <3>1. asked \in Requests /\ GoTo(asked, "abandoned")
          BY <1>3, <2>2 DEF Interrupt, Inv, MainInv
    <3> QED BY <2>1, <3>1, AbandonHist, AbandonAlone DEF TagInv
  <2>3. CASE ~(pc = "turn" /\ turn[asked].pc \notin EndedAt)
        BY <1>2, <1>3, <2>1, <2>3 DEF Interrupt, agentVars
  <2> QED BY <2>2, <2>3
<1>4. CASE UNCHANGED vars BY <1>2, <1>4 DEF vars, cliVars
<1> QED
      BY <1>1, <1>2, <1>3, <1>4, TurnTagged
      DEF Next, MainStep, PickEmployee, ShowTag, ShowUnavailable, Crash, Quit

\* The tag printed after an answer names exactly the tools of that turn, and
\* says "escalated" exactly if that turn escalated, whatever was asked, called
\* and escalated in the questions before it (cli.py:65-66).
THEOREM TagsAreOwn == Spec => []TagIsOwnTurn
<1>1. Init => HistInv /\ AloneInv /\ ThreadInv /\ TagInv
  <2>1. Init => TagInv BY DEF Init, AgentInit, TagInv
  <2> QED BY <2>1, InitHist, InitAlone DEF Init
<1>2. /\ Inv /\ HistInv /\ AloneInv /\ ThreadInv /\ TagInv /\ [Next]_vars
      => HistInv' /\ AloneInv' /\ ThreadInv' /\ TagInv'
      BY StepTagged
<1>3. Inv /\ ThreadInv /\ TagInv => TagIsOwnTurn
  <2> SUFFICES ASSUME Inv, ThreadInv, TagInv, pc = "turn", At(asked, "done")
               PROVE  turn[asked].report = OwnReport(History, asked)
      BY DEF TagIsOwnTurn, OwnReport, Asks
  <2>1. asked \in Requests BY DEF Inv, MainInv
  <2> QED BY <2>1 DEF TagInv, ThreadInv, ThreadOK, At
<1> QED BY <1>1, <1>2, <1>3, Invariant, PTL DEF Spec

=============================================================================
