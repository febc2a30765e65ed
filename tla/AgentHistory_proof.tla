------------------------- MODULE AgentHistory_proof -------------------------
(***************************************************************************)
(* What the turns of AgentGraph write into a history, and what a history   *)
(* says about them: who asked for the deep model, how often a model was    *)
(* called, what a turn's report is made of.  For any employees, tokens,    *)
(* requests, answers of the model and recursion limit; shared by the       *)
(* proofs about the two programs that run turns.                           *)
(***************************************************************************)
EXTENDS AgentGraph_proof, FiniteSetTheorems

USE NoneAssumption DEF NoneAssumption
USE AgentAssumption DEF AgentAssumption

-----------------------------------------------------------------------------
(* Histories that grow at the end.                                         *)

\* ns is ms with more messages after it.
Grows(ms, ns) ==
    /\ Len(ms) <= Len(ns)
    /\ \A i \in 1..Len(ms) : ns[i] = ms[i]

LEMMA Appending ==
    ASSUME NEW ms \in Seq(Message), NEW m \in Message
    PROVE  /\ Append(ms, m) \in Seq(Message)
           /\ Len(Append(ms, m)) = Len(ms) + 1
           /\ Append(ms, m)[Len(ms) + 1] = m
           /\ Grows(ms, Append(ms, m))
BY AppendProperties, LenProperties DEF Grows

LEMMA Concatenating ==
    ASSUME NEW ms \in Seq(Message), NEW ns \in Seq(Message)
    PROVE  /\ ms \o ns \in Seq(Message)
           /\ Len(ms \o ns) = Len(ms) + Len(ns)
           /\ \A i \in 1..Len(ns) : (ms \o ns)[Len(ms) + i] = ns[i]
           /\ Grows(ms, ms \o ns)
<1>1. /\ ms \o ns \in Seq(Message)
      /\ Len(ms \o ns) = Len(ms) + Len(ns)
      /\ \A i \in 1..(Len(ms) + Len(ns)) :
             (ms \o ns)[i] = IF i <= Len(ms) THEN ms[i] ELSE ns[i - Len(ms)]
      /\ Len(ms) \in Nat /\ Len(ns) \in Nat
      BY ConcatProperties, LenProperties
<1>2. \A i \in 1..Len(ms) : (ms \o ns)[i] = ms[i] BY <1>1
<1>3. \A i \in 1..Len(ns) : (ms \o ns)[Len(ms) + i] = ns[i]
  <2> SUFFICES ASSUME NEW i \in 1..Len(ns)
               PROVE  (ms \o ns)[Len(ms) + i] = ns[i]
      OBVIOUS
  <2>1. /\ Len(ms) + i \in 1..(Len(ms) + Len(ns))
        /\ ~(Len(ms) + i <= Len(ms))
        /\ Len(ms) + i - Len(ms) = i
        BY <1>1
  <2> QED BY <1>1, <2>1
<1> QED BY <1>1, <1>2, <1>3 DEF Grows

LEMMA GrowsOn ==
    ASSUME NEW ms \in Seq(Message), NEW ns \in Seq(Message),
           NEW os \in Seq(Message)
    PROVE  /\ Grows(ms, ms)
           /\ Grows(ms, ns) /\ Grows(ns, os) => Grows(ms, os)
<1>1. Len(ms) \in Nat /\ Len(ns) \in Nat /\ Len(os) \in Nat BY LenProperties
<1> QED BY <1>1 DEF Grows

-----------------------------------------------------------------------------
(* Calls and their results.                                                *)

\* Only the last message may have calls without results.
ResultsDue(ms) ==
    \A i \in 1..(Len(ms) - 1) : \A k \in 1..Len(ms[i].calls) :
        /\ i + k \in 1..Len(ms)
        /\ ms[i + k].kind = "tool"

\* A question does not mend a history, nor spoil it.
LEMMA QuestionKeepsOrder ==
    ASSUME NEW ms \in Seq(Message), NEW m \in Message,
           m.calls = << >>, m.kind # "tool"
    PROVE  ApiAccepts(Append(ms, m)) <=> ApiAccepts(ms)
<1> DEFINE ns == Append(ms, m)
<1>1. /\ Len(ns) = Len(ms) + 1 /\ Len(ms) \in Nat
      /\ ns[Len(ms) + 1] = m
      /\ \A i \in 1..Len(ms) : ns[i] = ms[i]
      BY Appending, LenProperties DEF Grows
<1> HIDE DEF ns
<1>2. ASSUME ApiAccepts(ms) PROVE ApiAccepts(ns)
  <2> SUFFICES ASSUME NEW i \in 1..Len(ns), NEW k \in 1..Len(ns[i].calls)
               PROVE  i + k \in 1..Len(ns) /\ ns[i + k].kind = "tool"
      BY DEF ApiAccepts
  <2>1. i \in 1..Len(ms)
    <3>1. Len(m.calls) = 0 BY EmptySeq
    <3> QED BY <1>1, <3>1
  <2>2. i + k \in 1..Len(ms) /\ ms[i + k].kind = "tool"
        BY <1>1, <1>2, <2>1 DEF ApiAccepts
  <2> QED BY <1>1, <2>2
<1>3. ASSUME ApiAccepts(ns) PROVE ApiAccepts(ms)
  <2> SUFFICES ASSUME NEW i \in 1..Len(ms), NEW k \in 1..Len(ms[i].calls)
               PROVE  i + k \in 1..Len(ms) /\ ms[i + k].kind = "tool"
      BY DEF ApiAccepts
  <2>1. ns[i] = ms[i] /\ i \in 1..Len(ns) BY <1>1
  <2>2. i + k \in 1..Len(ns) /\ ns[i + k].kind = "tool"
        BY <1>3, <2>1 DEF ApiAccepts
  <2>3. i + k # Len(ms) + 1 BY <1>1, <2>2
  <2>4. i + k \in 1..Len(ms) BY <1>1, <2>2, <2>3
  <2> QED BY <1>1, <2>2, <2>4
<1> QED BY <1>2, <1>3 DEF ns

\* An answer leaves only its own calls without results.
LEMMA AnswerDue ==
    ASSUME NEW ms \in Seq(Message), NEW m \in Message, ApiAccepts(ms)
    PROVE  /\ ResultsDue(Append(ms, m))
           /\ m.calls = << >> => ApiAccepts(Append(ms, m))
<1> DEFINE ns == Append(ms, m)
<1>1. /\ Len(ns) = Len(ms) + 1 /\ Len(ms) \in Nat
      /\ ns[Len(ms) + 1] = m
      /\ \A i \in 1..Len(ms) : ns[i] = ms[i]
      BY Appending, LenProperties DEF Grows
<1> HIDE DEF ns
<1>2. ASSUME NEW i \in 1..Len(ms), NEW k \in 1..Len(ns[i].calls)
      PROVE  i + k \in 1..Len(ns) /\ ns[i + k].kind = "tool"
  <2>1. i + k \in 1..Len(ms) /\ ms[i + k].kind = "tool"
        BY <1>1 DEF ApiAccepts
  <2> QED BY <1>1, <2>1
<1>3. ResultsDue(ns) BY <1>1, <1>2 DEF ResultsDue
<1>4. ASSUME m.calls = << >> PROVE ApiAccepts(ns)
  <2>1. Len(m.calls) = 0 BY <1>4, EmptySeq
  <2> QED BY <1>1, <1>2, <2>1 DEF ApiAccepts
<1> QED BY <1>3, <1>4 DEF ns

\* The results put the history in order again.
LEMMA ResultsRestoreOrder ==
    ASSUME NEW ms \in Seq(Message), ms # << >>, ResultsDue(ms),
           NEW ns \in Seq(Message), Len(ns) = Len(ms[Len(ms)].calls),
           \A i \in 1..Len(ns) : ns[i].kind = "tool" /\ ns[i].calls = << >>
    PROVE  ApiAccepts(ms \o ns)
<1> DEFINE all == ms \o ns
<1>1. /\ Len(all) = Len(ms) + Len(ns) /\ Len(ms) \in Nat /\ Len(ns) \in Nat
      /\ \A i \in 1..Len(ms) : all[i] = ms[i]
      /\ \A i \in 1..Len(ns) : all[Len(ms) + i] = ns[i]
      BY Concatenating, LenProperties DEF Grows
<1>2. Len(ms) # 0 BY EmptySeq
<1> HIDE DEF all
<1> SUFFICES ASSUME NEW i \in 1..Len(all), NEW k \in 1..Len(all[i].calls)
             PROVE  i + k \in 1..Len(all) /\ all[i + k].kind = "tool"
    BY DEF ApiAccepts, all
<1>3. CASE i \in 1..(Len(ms) - 1)
  <2>1. all[i] = ms[i] BY <1>1, <1>3
  <2>2. i + k \in 1..Len(ms) /\ ms[i + k].kind = "tool"
        BY <1>3, <2>1 DEF ResultsDue
  <2> QED BY <1>1, <2>2
<1>4. CASE i = Len(ms)
  <2>1. k \in 1..Len(ns) BY <1>1, <1>2, <1>4
  <2>2. all[i + k] = ns[k] BY <1>1, <1>4, <2>1
  <2> QED BY <1>1, <1>2, <1>4, <2>1, <2>2
<1>5. CASE i \in (Len(ms) + 1)..Len(all)
  <2>1. i - Len(ms) \in 1..Len(ns) /\ Len(ms) + (i - Len(ms)) = i
        BY <1>1, <1>5
  <2>2. all[i].calls = << >> BY <1>1, <2>1
  <2>3. Len(all[i].calls) = 0 BY <2>2, EmptySeq
  <2> QED BY <2>3
<1> QED BY <1>1, <1>3, <1>4, <1>5

-----------------------------------------------------------------------------
(* What a step writes.                                                     *)

\* Turn r has saved the state st, and goes on at pc.
Saves(r, st, pc) ==
    /\ turn'[r].pc = pc
    /\ turn'[r].state = st
    /\ turn'[r].token = turn[r].token
    /\ turn'[r].graph = turn[r].graph
    /\ turn'[r].prior = turn[r].prior
    /\ turn'[r].error = turn[r].error
    /\ \A q \in Requests \ {r} : turn'[q] = turn[q]
    /\ turn[r].graph \in Requests
    /\ turn[r].token \in Tokens
    /\ \A g \in Requests, t \in Tokens :
           memory'[g][t] = IF g = turn[r].graph /\ t = turn[r].token
                           THEN st ELSE memory[g][t]
    /\ UNCHANGED <<graph, alone>>

LEMMA AdvanceSaves ==
    ASSUME AgentTypeOK, NEW r \in Requests, NEW st, NEW pc, NEW nodes,
           Advance(r, st, pc, nodes),
           turn[r].graph \in Requests, turn[r].token \in Tokens
    PROVE  Saves(r, st, pc) /\ turn'[r].steps = turn[r].steps + nodes
<1>1. /\ turn'[r].pc = pc /\ turn'[r].state = st
      /\ turn'[r].token = turn[r].token /\ turn'[r].graph = turn[r].graph
      /\ turn'[r].prior = turn[r].prior /\ turn'[r].error = turn[r].error
      /\ turn'[r].steps = turn[r].steps + nodes
      /\ \A q \in Requests \ {r} : turn'[q] = turn[q]
      BY DEF Advance, AgentTypeOK, Turn
<1>2. \A g \in Requests, t \in Tokens :
          memory'[g][t] = IF g = turn[r].graph /\ t = turn[r].token
                          THEN st ELSE memory[g][t]
      BY DEF Advance, Save, AgentTypeOK
<1> QED BY <1>1, <1>2 DEF Saves, Advance

\* The input is saved ...
LEMMA StartSaves ==
    ASSUME AgentTypeOK, TurnInv, NEW r \in Requests, StartStream(r)
    PROVE  /\ turn[r].pc = "opened"
           /\ Thread(r).messages \in Seq(Message)
           /\ HumanMessage(r) \in Message
           /\ InputState(r).messages = Append(Thread(r).messages, HumanMessage(r))
           /\ InputState(r).tier = "light" /\ InputState(r).escalated = FALSE
           /\ Saves(r, InputState(r), "agent")
           /\ turn'[r].steps = turn[r].steps
<1>1. turn[r].pc = "opened" BY DEF StartStream, At
<1>2. turn[r].graph \in Requests /\ turn[r].token \in Tokens
      BY <1>1 DEF TurnInv, TurnOK, StreamingAt
<1>3. Thread(r).messages \in Seq(Message) BY <1>2, ThreadType DEF AgentState
<1>4. /\ InputState(r).messages = Append(Thread(r).messages, HumanMessage(r))
      /\ InputState(r).tier = "light" /\ InputState(r).escalated = FALSE
      BY DEF InputState
<1>5. /\ Saves(r, InputState(r), "agent")
      /\ turn'[r].steps = turn[r].steps + 0
      BY <1>2, AdvanceSaves DEF StartStream
<1>6. turn[r].steps \in Nat BY DEF AgentTypeOK, Turn
<1> QED BY <1>1, <1>3, <1>4, <1>5, <1>6, MessageTypes

\* ... then answers, ...
LEMMA AnswerSaves ==
    ASSUME AgentTypeOK, TurnInv, NEW r \in Requests,
           NEW calls \in CallLists, AgentNode(r, calls)
    PROVE  \E st \in AgentState :
               /\ turn[r].pc = "agent" /\ turn[r].steps < MaxIterations
               /\ ApiAccepts(turn[r].state.messages)
               /\ AIMessage(r, turn[r].state.tier, calls) \in Message
               /\ st.messages = Append(turn[r].state.messages,
                                       AIMessage(r, turn[r].state.tier, calls))
               /\ st.tier = turn[r].state.tier
               /\ st.escalated = turn[r].state.escalated
               /\ Saves(r, st, IF calls = << >> THEN "end" ELSE "tools")
               /\ turn'[r].steps = turn[r].steps + 1
<1> DEFINE s == turn[r].state
           m == AIMessage(r, s.tier, calls)
           st == [s EXCEPT !.messages = Append(@, m)]
<1>1. turn[r].pc = "agent" BY DEF AgentNode, At
<1>2. turn[r].graph \in Requests /\ turn[r].token \in Tokens
      BY <1>1 DEF TurnInv, TurnOK, StreamingAt
<1>3. /\ s \in AgentState /\ s.messages \in Seq(Message) /\ s.tier \in Tiers
      /\ turn[r].steps \in Nat
      BY DEF AgentTypeOK, Turn, AgentState
<1>4. m \in Message BY <1>3, MessageTypes
<1>5. Advance(r, st, IF calls = << >> THEN "end" ELSE "tools", 1)
      BY DEF AgentNode, RouteAfterAgent
<1> HIDE DEF m
<1>6. Append(s.messages, m) \in Seq(Message) BY <1>3, <1>4, Appending
<1>7. /\ st \in AgentState /\ st.messages = Append(s.messages, m)
      /\ st.tier = s.tier /\ st.escalated = s.escalated
      BY <1>3, <1>6 DEF AgentState
<1> HIDE DEF st
<1>8. /\ Saves(r, st, IF calls = << >> THEN "end" ELSE "tools")
      /\ turn'[r].steps = turn[r].steps + 1
      BY <1>2, <1>5, AdvanceSaves
<1>9. turn[r].steps < MaxIterations /\ ApiAccepts(s.messages)
      BY <1>3 DEF AgentNode, LimitReached
<1> QED BY <1>1, <1>4, <1>7, <1>8, <1>9 DEF m

\* ... the results of their calls, ...
LEMMA ResultsSave ==
    ASSUME AgentTypeOK, TurnInv, NEW r \in Requests, ToolsNode(r)
    PROVE  \E st \in AgentState, ns \in Seq(Message) :
               /\ turn[r].pc = "tools" /\ turn[r].steps < MaxIterations
               /\ turn[r].state.messages # << >>
               /\ Len(ns) = Len(LastMessage(turn[r].state).calls)
               /\ \A i \in 1..Len(ns) :
                      ns[i].kind = "tool" /\ ns[i].calls = << >> /\ ns[i].by = r
               /\ st.messages = turn[r].state.messages \o ns
               /\ st.tier = turn[r].state.tier
               /\ st.escalated = turn[r].state.escalated
               /\ Saves(r, st, "check")
               /\ turn'[r].steps = turn[r].steps + 1
<1> DEFINE s == turn[r].state
           ns == ToolResults(r)
           st == [s EXCEPT !.messages = @ \o ns]
<1>1. turn[r].pc = "tools" BY DEF ToolsNode, At
<1>2. /\ turn[r].graph \in Requests /\ turn[r].token \in Tokens
      /\ s.messages # << >>
      BY <1>1 DEF TurnInv, TurnOK, StreamingAt
<1>3. s \in AgentState /\ s.messages \in Seq(Message) /\ turn[r].steps \in Nat
      BY DEF AgentTypeOK, Turn, AgentState
<1>4. PendingCalls(r) \in Seq(Tools) /\ ns \in Seq(Message)
      BY <1>2, ToolResultsType
<1>5. Len(PendingCalls(r)) \in Nat BY <1>4, LenProperties
<1>6. /\ Len(ns) = Len(PendingCalls(r))
      /\ \A i \in 1..Len(ns) : ns[i] = ToolResult(r, PendingCalls(r)[i])
      BY <1>4, <1>5, LenProperties DEF ToolResults
<1>7. \A tool : /\ ToolResult(r, tool).kind = "tool"
                /\ ToolResult(r, tool).calls = << >>
                /\ ToolResult(r, tool).by = r
      BY DEF ToolResult, ToolMessage
<1>8. Advance(r, st, "check", 1) BY DEF ToolsNode
<1> HIDE DEF ns
<1>9. s.messages \o ns \in Seq(Message) BY <1>3, <1>4, Concatenating
<1>10. /\ st \in AgentState /\ st.messages = s.messages \o ns
       /\ st.tier = s.tier /\ st.escalated = s.escalated
      BY <1>3, <1>9 DEF AgentState
<1> HIDE DEF st
<1>11. Saves(r, st, "check") /\ turn'[r].steps = turn[r].steps + 1
      BY <1>2, <1>8, AdvanceSaves
<1>12. turn[r].steps < MaxIterations BY <1>3 DEF ToolsNode, LimitReached
<1>13. \A i \in 1..Len(ns) :
          ns[i].kind = "tool" /\ ns[i].calls = << >> /\ ns[i].by = r
      BY <1>6, <1>7
<1> QED BY <1>1, <1>2, <1>4, <1>6, <1>10, <1>11, <1>12, <1>13 DEF PendingCalls

\* ... and the tier the next answer is to come from.
LEMMA CheckSaves ==
    ASSUME AgentTypeOK, TurnInv, NEW r \in Requests, CheckEscalation(r)
    PROVE  \E st \in AgentState :
               /\ turn[r].pc = "check" /\ turn[r].steps < MaxIterations
               /\ st.messages = turn[r].state.messages
               /\ EscalationAsked(turn[r].state.messages) =>
                      st.tier = "deep" /\ st.escalated = TRUE
               /\ ~EscalationAsked(turn[r].state.messages) =>
                      st = turn[r].state
               /\ Saves(r, st, "agent")
               /\ turn'[r].steps = turn[r].steps + 1
<1> DEFINE s == turn[r].state
           st == IF EscalationAsked(s.messages)
                 THEN [s EXCEPT !.tier = "deep", !.escalated = TRUE] ELSE s
<1>1. turn[r].pc = "check" BY DEF CheckEscalation, At
<1>2. turn[r].graph \in Requests /\ turn[r].token \in Tokens
      BY <1>1 DEF TurnInv, TurnOK, StreamingAt
<1>3. s \in AgentState /\ turn[r].steps \in Nat
      BY DEF AgentTypeOK, Turn
<1>4. /\ st \in AgentState /\ st.messages = s.messages
      /\ EscalationAsked(s.messages) => st.tier = "deep" /\ st.escalated = TRUE
      /\ ~EscalationAsked(s.messages) => st = s
      BY <1>3 DEF AgentState, Tiers
<1>5. Advance(r, st, "agent", 1) BY DEF CheckEscalation
<1> HIDE DEF st
<1>6. Saves(r, st, "agent") /\ turn'[r].steps = turn[r].steps + 1
      BY <1>2, <1>5, AdvanceSaves
<1>7. turn[r].steps < MaxIterations BY <1>3 DEF CheckEscalation, LimitReached
<1> QED BY <1>1, <1>4, <1>6, <1>7

\* Where a turn is before its question is in the history.
Unstarted == {"idle", "called", "building", "returning", "bound", "opened"}

\* No turn writes anything: each moves within its opening steps, comes to its
\* end, or stays where it is; the memory may be lost.
WritesNothing ==
    /\ \A r \in Requests :
           /\ turn'[r].state = turn[r].state
           /\ turn'[r].steps = turn[r].steps
           /\ \/ turn'[r].pc = turn[r].pc
              \/ turn[r].pc \in Unstarted /\ turn'[r].pc \in Unstarted
              \/ turn'[r].pc \in EndedAt
    /\ \A g \in Requests, t \in Tokens :
           memory'[g][t].messages \in {memory[g][t].messages, << >>}

LEMMA OtherwiseWritesNothing ==
    ASSUME AgentTypeOK, NEW r \in Requests, TurnStep(r), ~StartStream(r),
           \A calls \in CallLists : ~AgentNode(r, calls),
           ~ToolsNode(r), ~CheckEscalation(r)
    PROVE  WritesNothing /\ UNCHANGED memory
<1>1. \A q \in Requests \ {r} : turn'[q] = turn[q] BY TurnStepFrame
<1> USE <1>1 DEF AgentTypeOK, Turn, WritesNothing, Unstarted, EndedAt, At, GoTo,
                 Raise
<1>2. CASE FindGraph(r) BY <1>2 DEF FindGraph
<1>3. CASE BuildGraph(r) \/ BuildFails(r)
      BY <1>3 DEF BuildGraph, BuildFails
<1>4. CASE ReturnGraph(r) BY <1>4 DEF ReturnGraph
<1>5. CASE OpenTurn(r) BY <1>5 DEF OpenTurn
<1>6. CASE AgentFails(r) BY <1>6 DEF AgentFails
<1>7. CASE ToolsRaise(r) BY <1>7 DEF ToolsRaise
<1>8. CASE OutOfSteps(r) BY <1>8 DEF OutOfSteps
<1>9. CASE FinishTurn(r) BY <1>9 DEF FinishTurn
<1> QED BY <1>2, <1>3, <1>4, <1>5, <1>6, <1>7, <1>8, <1>9 DEF TurnStep

-----------------------------------------------------------------------------
(* Who says what in a history, and which model answers.                    *)

\* m asks for the deep model.
Asks(m) == \E k \in 1..Len(m.calls) : m.calls[k] = Escalate

\* Turn r has asked for it in the first n messages.
AskedBy(ms, r, n) == \E j \in 1..n : ms[j].by = r /\ Asks(ms[j])

\* Within every turn the deep model answers once it was asked for, not before.
Tiered(ms) ==
    \A i \in 1..Len(ms) : ms[i].kind = "ai" =>
        (ms[i].tier = "deep" <=> AskedBy(ms, ms[i].by, i - 1))

Silent(ms, r) == \A i \in 1..Len(ms) : ms[i].by # r

\* What turn r asked for in the first n messages is what the run goes by.
GoesBy(st, r, n) ==
    /\ st.tier = "deep" <=> AskedBy(st.messages, r, n)
    /\ st.escalated <=> AskedBy(st.messages, r, n)

\* The i-th message is r's last answer; what follows asks for nothing.
Answer(ms, r, i) ==
    /\ ms[i].kind = "ai" /\ ms[i].by = r
    /\ \A j \in (i + 1)..Len(ms) : ms[j].kind # "ai" /\ ms[j].calls = << >>

\* A turn that has not asked its question has said nothing.
AuthorInv ==
    \A r \in Requests : turn[r].pc \in Unstarted =>
        /\ turn[r].state.messages = << >>
        /\ \A g \in Requests, t \in Tokens : Silent(memory[g][t].messages, r)
        /\ \A q \in Requests : Silent(turn[q].state.messages, r)

\* At "tools" and "check" the last answer is not yet accounted for.
TierInv ==
    /\ \A g \in Requests, t \in Tokens : Tiered(memory[g][t].messages)
    /\ \A r \in Requests :
           LET st == turn[r].state
               ms == st.messages
           IN  /\ Tiered(ms)
               /\ turn[r].pc \in {"agent", "end"} => GoesBy(st, r, Len(ms))
               /\ turn[r].pc \in {"tools", "check"} =>
                      \E i \in 1..Len(ms) :
                          Answer(ms, r, i) /\ GoesBy(st, r, i - 1)

\* The answers of turn r.
Answers(ms, r) == {i \in 1..Len(ms) : ms[i].kind = "ai" /\ ms[i].by = r}

\* The nodes that follow an answer before the next one, at each place.
Ahead(pc) == CASE pc = "agent" -> 0 [] pc = "check" -> 1 [] OTHER -> 2

\* Three nodes to an answer, and the limit holds.
BudgetInv ==
    \A r \in Requests :
        /\ turn[r].steps <= MaxIterations
        /\ 3 * Cardinality(Answers(turn[r].state.messages, r))
               <= turn[r].steps + Ahead(turn[r].pc)

HistInv == AuthorInv /\ TierInv /\ BudgetInv

LEMMA AskedOn ==
    ASSUME NEW ms \in Seq(Message), NEW ns \in Seq(Message), Grows(ms, ns),
           NEW r, NEW n \in Int, n <= Len(ms)
    PROVE  AskedBy(ns, r, n) <=> AskedBy(ms, r, n)
<1>1. Len(ms) \in Nat BY LenProperties
<1>2. \A j \in 1..n : ns[j] = ms[j] BY <1>1 DEF Grows
<1> QED BY <1>2 DEF AskedBy

LEMMA AskedNext ==
    ASSUME NEW ms, NEW r, NEW n \in Nat
    PROVE  AskedBy(ms, r, n + 1) <=>
               \/ AskedBy(ms, r, n)
               \/ ms[n + 1].by = r /\ Asks(ms[n + 1])
<1>1. 1..(n + 1) = 1..n \union {n + 1} OBVIOUS
<1> QED BY <1>1 DEF AskedBy

LEMMA NoCallsNoAsk ==
    ASSUME NEW m, m.calls = << >>
    PROVE  ~Asks(m)
BY EmptySeq DEF Asks

\* Messages that ask for nothing change nothing.
LEMMA AskedSame ==
    ASSUME NEW ms \in Seq(Message), NEW ns \in Seq(Message), Grows(ms, ns),
           NEW r, NEW k \in Int, k <= Len(ms), NEW n \in Int, k <= n,
           n <= Len(ns),
           \A j \in (k + 1)..Len(ns) : ns[j].calls = << >>
    PROVE  AskedBy(ns, r, n) <=> AskedBy(ms, r, k)
<1>1. AskedBy(ns, r, k) <=> AskedBy(ms, r, k) BY AskedOn
<1>2. \A j \in (k + 1)..Len(ns) : ~Asks(ns[j]) BY NoCallsNoAsk
<1>3. Len(ms) \in Nat /\ Len(ns) \in Nat BY LenProperties
<1>4. \A j \in 1..n : Asks(ns[j]) => j \in 1..k BY <1>2, <1>3
<1>5. \A j \in 1..k : j \in 1..n OBVIOUS
<1> QED BY <1>1, <1>4, <1>5 DEF AskedBy

LEMMA TieredOn ==
    ASSUME NEW ms \in Seq(Message), NEW ns \in Seq(Message), Grows(ms, ns),
           Tiered(ms),
           \A i \in (Len(ms) + 1)..Len(ns) : ns[i].kind = "ai" =>
               (ns[i].tier = "deep" <=> AskedBy(ns, ns[i].by, i - 1))
    PROVE  Tiered(ns)
<1> SUFFICES ASSUME NEW i \in 1..Len(ns), ns[i].kind = "ai"
             PROVE  ns[i].tier = "deep" <=> AskedBy(ns, ns[i].by, i - 1)
    BY DEF Tiered
<1>1. Len(ms) \in Nat BY LenProperties
<1>2. CASE i \in 1..Len(ms)
  <2>1. ns[i] = ms[i] BY <1>2 DEF Grows
  <2>2. AskedBy(ns, ns[i].by, i - 1) <=> AskedBy(ms, ns[i].by, i - 1)
        BY <1>1, <1>2, AskedOn
  <2> QED BY <1>2, <2>1, <2>2 DEF Tiered
<1>3. CASE i \in (Len(ms) + 1)..Len(ns) BY <1>3
<1> QED BY <1>1, <1>2, <1>3

LEMMA SilentOn ==
    ASSUME NEW ms \in Seq(Message), NEW ns \in Seq(Message), Grows(ms, ns),
           NEW q, Silent(ms, q),
           \A i \in (Len(ms) + 1)..Len(ns) : ns[i].by # q
    PROVE  Silent(ns, q)
<1>1. Len(ms) \in Nat BY LenProperties
<1> QED BY <1>1 DEF Silent, Grows

LEMMA LastAIIs ==
    ASSUME NEW ms \in Seq(Message), NEW r, NEW i \in 1..Len(ms),
           Answer(ms, r, i)
    PROVE  LastAI(ms) = i
<1> DEFINE Is(k) == /\ AICalls(ms, k)
                    /\ \A j \in (k + 1)..Len(ms) : ~AICalls(ms, j)
<1>0. Len(ms) \in Nat BY LenProperties
<1>1. Is(i) BY DEF Answer, AICalls
<1>2. ASSUME NEW k \in 1..Len(ms), Is(k) PROVE k = i
  <2>1. ~(k < i)
    <3>1. k < i => i \in (k + 1)..Len(ms) BY <1>0
    <3> QED BY <1>1, <1>2, <3>1
  <2>2. ~(i < k)
    <3>1. i < k => k \in (i + 1)..Len(ms) BY <1>0
    <3> QED BY <1>1, <1>2, <3>1
  <2> QED BY <2>1, <2>2
<1>3. \A k \in 1..Len(ms) : Is(k) <=> k = i BY <1>1, <1>2
<1> QED BY <1>3 DEF LastAI

LEMMA AnswersCount ==
    ASSUME NEW ms \in Seq(Message), NEW r
    PROVE  /\ IsFiniteSet(Answers(ms, r))
           /\ Cardinality(Answers(ms, r)) \in Nat
<1>1. Len(ms) \in Nat BY LenProperties
<1>2. IsFiniteSet(1..Len(ms)) BY <1>1, FS_Interval
<1>3. Answers(ms, r) \subseteq 1..Len(ms) BY DEF Answers
<1>4. IsFiniteSet(Answers(ms, r)) BY <1>2, <1>3, FS_Subset
<1> QED BY <1>4, FS_CardinalityType

LEMMA OneMoreAnswer ==
    ASSUME NEW ms \in Seq(Message), NEW m \in Message, NEW r
    PROVE  Cardinality(Answers(Append(ms, m), r)) <=
               Cardinality(Answers(ms, r)) + 1
<1> DEFINE ns == Append(ms, m)
<1>1. /\ Len(ns) = Len(ms) + 1 /\ Len(ms) \in Nat
      /\ Grows(ms, ns) /\ ns \in Seq(Message)
      BY Appending, LenProperties
<1> HIDE DEF ns
<1>2. Answers(ns, r) \subseteq Answers(ms, r) \union {Len(ms) + 1}
      BY <1>1 DEF Answers, Grows
<1>3. /\ IsFiniteSet(Answers(ms, r) \union {Len(ms) + 1})
      /\ Cardinality(Answers(ms, r) \union {Len(ms) + 1})
             <= Cardinality(Answers(ms, r)) + 1
  <2> DEFINE A == Answers(ms, r)
             x == Len(ms) + 1
  <2>1. IsFiniteSet(A) /\ Cardinality(A) \in Nat BY AnswersCount
  <2> HIDE DEF A, x
  <2>2. /\ IsFiniteSet(A \union {x})
        /\ Cardinality(A \union {x}) =
               IF x \in A THEN Cardinality(A) ELSE Cardinality(A) + 1
        BY <2>1, FS_AddElement
  <2>3. IsFiniteSet(A \union {x}) /\ Cardinality(A \union {x}) <= Cardinality(A) + 1
        BY <2>1, <2>2
  <2> QED BY <2>3 DEF A, x
<1>4. Cardinality(Answers(ns, r))
          <= Cardinality(Answers(ms, r) \union {Len(ms) + 1})
      BY <1>2, <1>3, FS_Subset
<1>5. /\ Cardinality(Answers(ns, r)) \in Nat
      /\ Cardinality(Answers(ms, r)) \in Nat
      /\ Cardinality(Answers(ms, r) \union {Len(ms) + 1}) \in Nat
      BY <1>1, <1>3, AnswersCount, FS_CardinalityType
<1> QED BY <1>3, <1>4, <1>5 DEF ns

LEMMA NoMoreAnswers ==
    ASSUME NEW ms \in Seq(Message), NEW ns \in Seq(Message), Grows(ms, ns),
           \A i \in (Len(ms) + 1)..Len(ns) : ns[i].kind # "ai",
           NEW r
    PROVE  Answers(ns, r) = Answers(ms, r)
<1>1. Len(ms) \in Nat BY LenProperties
<1> QED BY <1>1 DEF Answers, Grows

\* A state that fits the turn is saved.
LEMMA HistSaves ==
    ASSUME AgentTypeOK, HistInv, NEW r \in Requests, NEW st, NEW pc,
           Saves(r, st, pc), pc \notin Unstarted,
           \A q \in Requests \ {r} :
               turn[q].pc \in Unstarted => Silent(st.messages, q),
           Tiered(st.messages),
           pc \in {"agent", "end"} => GoesBy(st, r, Len(st.messages)),
           pc \in {"tools", "check"} =>
               \E i \in 1..Len(st.messages) :
                   Answer(st.messages, r, i) /\ GoesBy(st, r, i - 1),
           turn'[r].steps <= MaxIterations,
           3 * Cardinality(Answers(st.messages, r)) <= turn'[r].steps + Ahead(pc)
    PROVE  HistInv'
<1>1. /\ turn'[r].pc = pc /\ turn'[r].state = st
      /\ \A q \in Requests \ {r} : turn'[q] = turn[q]
      /\ \A g \in Requests, t \in Tokens : memory'[g][t] \in {st, memory[g][t]}
      BY DEF Saves
<1>2. AuthorInv'
  <2> SUFFICES ASSUME NEW q \in Requests, turn'[q].pc \in Unstarted
               PROVE  /\ turn'[q].state.messages = << >>
                      /\ \A g \in Requests, t \in Tokens :
                             Silent(memory'[g][t].messages, q)
                      /\ \A p \in Requests : Silent(turn'[p].state.messages, q)
      BY DEF AuthorInv
  <2>1. q # r /\ turn'[q] = turn[q] BY <1>1
  <2>2. Silent(st.messages, q) BY <2>1
  <2> QED BY <1>1, <2>1, <2>2 DEF HistInv, AuthorInv
<1>3. TierInv'
  <2>1. \A g \in Requests, t \in Tokens : Tiered(memory'[g][t].messages)
        BY <1>1 DEF HistInv, TierInv
  <2>2. ASSUME NEW q \in Requests
        PROVE  LET s  == turn'[q].state
                   ms == s.messages
               IN  /\ Tiered(ms)
                   /\ turn'[q].pc \in {"agent", "end"} => GoesBy(s, q, Len(ms))
                   /\ turn'[q].pc \in {"tools", "check"} =>
                          \E i \in 1..Len(ms) :
                              Answer(ms, q, i) /\ GoesBy(s, q, i - 1)
    <3>1. CASE q = r BY <1>1, <3>1
    <3>2. CASE q # r
      <4>1. turn'[q] = turn[q] BY <1>1, <3>2
      <4> QED BY <4>1 DEF HistInv, TierInv
    <3> QED BY <3>1, <3>2
  <2> QED BY <2>1, <2>2 DEF TierInv
<1>4. BudgetInv'
  <2> SUFFICES ASSUME NEW q \in Requests
               PROVE  /\ turn'[q].steps <= MaxIterations
                      /\ 3 * Cardinality(Answers(turn'[q].state.messages, q))
                             <= turn'[q].steps + Ahead(turn'[q].pc)
      BY DEF BudgetInv
  <2>1. CASE q = r BY <1>1, <2>1
  <2>2. CASE q # r
    <3>1. turn'[q] = turn[q] BY <1>1, <2>2
    <3> QED BY <3>1 DEF HistInv, BudgetInv
  <2> QED BY <2>1, <2>2
<1> QED BY <1>2, <1>3, <1>4 DEF HistInv

LEMMA HistWritesNothing ==
    ASSUME AgentTypeOK, HistInv, WritesNothing
    PROVE  HistInv'
<1>1. \A r \in Requests :
          /\ turn'[r].state = turn[r].state /\ turn'[r].steps = turn[r].steps
          /\ turn'[r].pc \in Unstarted => turn[r].pc \in Unstarted
          /\ turn'[r].pc \in StreamingAt \ {"opened"} =>
                 turn'[r].pc = turn[r].pc
      BY DEF WritesNothing, Unstarted, EndedAt, StreamingAt
<1>2. \A g \in Requests, t \in Tokens :
          memory'[g][t].messages \in {memory[g][t].messages, << >>}
      BY DEF WritesNothing
<1>3. Tiered(<< >>) /\ \A r : Silent(<< >>, r)
  <2>1. Len(<< >>) = 0 BY EmptySeq
  <2> QED BY <2>1 DEF Tiered, Silent
<1>4. AuthorInv' BY <1>1, <1>2, <1>3 DEF HistInv, AuthorInv
<1>5. TierInv'
  <2>1. \A g \in Requests, t \in Tokens : Tiered(memory'[g][t].messages)
        BY <1>2, <1>3 DEF HistInv, TierInv
  <2>2. ASSUME NEW r \in Requests
        PROVE  LET st == turn'[r].state
                   ms == st.messages
               IN  /\ Tiered(ms)
                   /\ turn'[r].pc \in {"agent", "end"} => GoesBy(st, r, Len(ms))
                   /\ turn'[r].pc \in {"tools", "check"} =>
                          \E i \in 1..Len(ms) :
                              Answer(ms, r, i) /\ GoesBy(st, r, i - 1)
    <3>1. turn'[r].state = turn[r].state BY <1>1
    <3>2. turn'[r].pc \in {"agent", "end", "tools", "check"} =>
              turn'[r].pc = turn[r].pc
          BY <1>1 DEF StreamingAt
    <3> QED BY <3>1, <3>2 DEF HistInv, TierInv
  <2> QED BY <2>1, <2>2 DEF TierInv
<1>6. BudgetInv'
  <2> SUFFICES ASSUME NEW r \in Requests
               PROVE  /\ turn'[r].steps <= MaxIterations
                      /\ 3 * Cardinality(Answers(turn'[r].state.messages, r))
                             <= turn'[r].steps + Ahead(turn'[r].pc)
      BY DEF BudgetInv
  <2>1. /\ turn[r].steps <= MaxIterations
        /\ 3 * Cardinality(Answers(turn[r].state.messages, r))
               <= turn[r].steps + Ahead(turn[r].pc)
        BY DEF HistInv, BudgetInv
  <2>2. Ahead(turn[r].pc) <= Ahead(turn'[r].pc)
        BY DEF WritesNothing, Unstarted, EndedAt, Ahead
  <2>3. /\ Cardinality(Answers(turn[r].state.messages, r)) \in Nat
        /\ turn[r].steps \in Nat
        BY AnswersCount DEF AgentTypeOK, Turn, AgentState
  <2>4. Ahead(turn[r].pc) \in Nat /\ Ahead(turn'[r].pc) \in Nat BY DEF Ahead
  <2> QED BY <1>1, <2>1, <2>2, <2>3, <2>4
<1> QED BY <1>4, <1>5, <1>6 DEF HistInv

LEMMA StartHist ==
    ASSUME AgentTypeOK, TurnInv, HistInv, NEW r \in Requests, StartStream(r)
    PROVE  HistInv'
<1> DEFINE ms == Thread(r).messages
           m  == HumanMessage(r)
           st == InputState(r)
           ns == Append(ms, m)
<1>1. /\ turn[r].pc = "opened" /\ ms \in Seq(Message) /\ m \in Message
      /\ st.messages = ns /\ st.tier = "light" /\ st.escalated = FALSE
      /\ Saves(r, st, "agent") /\ turn'[r].steps = turn[r].steps
      BY StartSaves
<1>2. m.kind = "human" /\ m.by = r /\ m.calls = << >> BY DEF HumanMessage
<1> HIDE DEF ms, m, st
<1>3. /\ ns \in Seq(Message) /\ Grows(ms, ns)
      /\ Len(ns) = Len(ms) + 1 /\ Len(ms) \in Nat
      /\ ns[Len(ms) + 1] = m
      BY <1>1, Appending, LenProperties
<1> HIDE DEF ns
<1>4. /\ turn[r].graph \in Requests /\ turn[r].token \in Tokens
      /\ ms = memory[turn[r].graph][turn[r].token].messages
      BY <1>1 DEF Saves, ms, Thread
<1>5. ASSUME NEW q \in Requests \ {r}, turn[q].pc \in Unstarted
      PROVE  Silent(ns, q)
  <2>1. Silent(ms, q) BY <1>4, <1>5 DEF HistInv, AuthorInv
  <2> QED BY <1>1, <1>2, <1>3, <2>1, SilentOn
<1>6. Silent(ms, r) BY <1>1, <1>4 DEF HistInv, AuthorInv, Unstarted
<1>7. Tiered(ns)
  <2>1. Tiered(ms) BY <1>4 DEF HistInv, TierInv
  <2> QED BY <1>1, <1>2, <1>3, <2>1, TieredOn
<1>8. GoesBy(st, r, Len(ns))
  <2>1. ~AskedBy(ms, r, Len(ms)) BY <1>3, <1>6 DEF AskedBy, Silent
  <2>2. \A j \in (Len(ms) + 1)..Len(ns) : ns[j].calls = << >> BY <1>2, <1>3
  <2>3. ~AskedBy(ns, r, Len(ns)) BY <1>1, <1>3, <2>1, <2>2, AskedSame
  <2> QED BY <1>1, <2>3 DEF GoesBy
<1>9. Answers(ns, r) = {}
  <2>1. \A i \in 1..Len(ns) : ~(ns[i].kind = "ai" /\ ns[i].by = r)
        BY <1>2, <1>3, <1>6 DEF Silent, Grows
  <2> QED BY <2>1 DEF Answers
<1>10. /\ turn'[r].steps <= MaxIterations
       /\ 3 * Cardinality(Answers(ns, r)) <= turn'[r].steps + Ahead("agent")
  <2>1. Cardinality(Answers(ns, r)) = 0 BY <1>9, FS_EmptySet
  <2>2. turn[r].steps \in Nat /\ turn[r].steps <= MaxIterations
        BY DEF AgentTypeOK, Turn, HistInv, BudgetInv
  <2> QED BY <1>1, <2>1, <2>2 DEF Ahead
<1>11. "agent" \notin Unstarted BY DEF Unstarted
<1> QED BY <1>1, <1>5, <1>7, <1>8, <1>10, <1>11, HistSaves

LEMMA AnswerHist ==
    ASSUME AgentTypeOK, TurnInv, HistInv, NEW r \in Requests,
           NEW calls \in CallLists, AgentNode(r, calls)
    PROVE  HistInv'
<1> DEFINE s  == turn[r].state
           ms == s.messages
           m  == AIMessage(r, s.tier, calls)
           ns == Append(ms, m)
           pc == IF calls = << >> THEN "end" ELSE "tools"
<1>1. PICK st \in AgentState :
          /\ turn[r].pc = "agent" /\ turn[r].steps < MaxIterations
          /\ m \in Message
          /\ st.messages = ns
          /\ st.tier = s.tier /\ st.escalated = s.escalated
          /\ Saves(r, st, pc)
          /\ turn'[r].steps = turn[r].steps + 1
      BY AnswerSaves
<1>2. /\ m.kind = "ai" /\ m.by = r /\ m.tier = s.tier /\ m.calls = calls
      /\ ms \in Seq(Message) /\ turn[r].steps \in Nat
      BY DEF AIMessage, AgentTypeOK, Turn, AgentState
<1> HIDE DEF m
<1>3. /\ ns \in Seq(Message) /\ Grows(ms, ns)
      /\ Len(ns) = Len(ms) + 1 /\ Len(ms) \in Nat
      /\ ns[Len(ms) + 1] = m
      BY <1>1, <1>2, Appending, LenProperties
<1>4. /\ Tiered(ms) /\ GoesBy(s, r, Len(ms))
      /\ \A q \in Requests \ {r} : turn[q].pc \in Unstarted => Silent(ms, q)
      BY <1>1 DEF HistInv, AuthorInv, TierInv
<1>5. 3 * Cardinality(Answers(ms, r)) <= turn[r].steps
      BY <1>1, <1>2, AnswersCount DEF HistInv, BudgetInv, Ahead
<1>6. Cardinality(Answers(ns, r)) <= Cardinality(Answers(ms, r)) + 1
      BY <1>1, <1>2, OneMoreAnswer
<1> HIDE DEF ns
<1>7. /\ Cardinality(Answers(ns, r)) \in Nat
      /\ Cardinality(Answers(ms, r)) \in Nat
      BY <1>2, <1>3, AnswersCount
<1>8. ASSUME NEW q \in Requests \ {r}, turn[q].pc \in Unstarted
      PROVE  Silent(ns, q)
      BY <1>2, <1>3, <1>4, <1>8, SilentOn
<1>9. GoesBy(st, r, Len(ms))
  <2>1. AskedBy(ns, r, Len(ms)) <=> AskedBy(ms, r, Len(ms))
        BY <1>2, <1>3, AskedOn
  <2> QED BY <1>1, <1>4, <2>1 DEF GoesBy
<1>10. Tiered(ns)
  <2>1. m.tier = "deep" <=> AskedBy(ns, r, Len(ms))
        BY <1>1, <1>2, <1>9 DEF GoesBy
  <2>2. \A i \in (Len(ms) + 1)..Len(ns) :
            i = Len(ms) + 1 /\ i - 1 = Len(ms)
        BY <1>3
  <2>3. \A i \in (Len(ms) + 1)..Len(ns) :
            ns[i].tier = "deep" <=> AskedBy(ns, ns[i].by, i - 1)
        BY <1>2, <1>3, <2>1, <2>2
  <2> QED BY <1>2, <1>3, <1>4, <2>3, TieredOn
<1>11. calls = << >> => GoesBy(st, r, Len(ns))
  <2> SUFFICES ASSUME calls = << >> PROVE GoesBy(st, r, Len(ns)) OBVIOUS
  <2>1. \A j \in (Len(ms) + 1)..Len(ns) : ns[j].calls = << >> BY <1>2, <1>3
  <2>2. /\ Len(ms) \in Int /\ Len(ns) \in Int
        /\ Len(ms) <= Len(ms) /\ Len(ms) <= Len(ns) /\ Len(ns) <= Len(ns)
        BY <1>3
  <2>3. AskedBy(ns, r, Len(ns)) <=> AskedBy(ms, r, Len(ms))
    <3> HIDE DEF ms
    <3> QED BY <1>2, <1>3, <2>1, <2>2, AskedSame
  <2> QED BY <1>1, <1>4, <2>3 DEF GoesBy
<1>12. \E i \in 1..Len(ns) : Answer(ns, r, i) /\ GoesBy(st, r, i - 1)
  <2>1. Answer(ns, r, Len(ms) + 1) BY <1>2, <1>3 DEF Answer
  <2>2. /\ Len(ms) + 1 \in 1..Len(ns)
        /\ (Len(ms) + 1) - 1 = Len(ms)
        BY <1>3
  <2> QED BY <1>9, <2>1, <2>2
<1>13. 3 * Cardinality(Answers(ns, r)) <= turn[r].steps + 1 + Ahead(pc)
  <2>1. Ahead(pc) = 2 BY DEF Ahead
  <2> QED BY <1>2, <1>5, <1>6, <1>7, <2>1
<1>14. turn'[r].steps <= MaxIterations BY <1>1, <1>2
<1>15. pc \notin Unstarted BY DEF Unstarted
<1>16. pc \in {"agent", "end"} => GoesBy(st, r, Len(ns)) BY <1>11
<1> HIDE DEF pc
<1> QED BY <1>1, <1>8, <1>10, <1>12, <1>13, <1>14, <1>15, <1>16, HistSaves

LEMMA ResultsHist ==
    ASSUME AgentTypeOK, TurnInv, HistInv, NEW r \in Requests, ToolsNode(r)
    PROVE  HistInv'
<1> DEFINE s  == turn[r].state
           ms == s.messages
<1>1. PICK st \in AgentState, more \in Seq(Message) :
          /\ turn[r].pc = "tools" /\ turn[r].steps < MaxIterations
          /\ \A i \in 1..Len(more) :
                 more[i].kind = "tool" /\ more[i].calls = << >> /\ more[i].by = r
          /\ st.messages = ms \o more
          /\ st.tier = s.tier /\ st.escalated = s.escalated
          /\ Saves(r, st, "check")
          /\ turn'[r].steps = turn[r].steps + 1
      BY ResultsSave
<1> DEFINE ns == ms \o more
<1>2. ms \in Seq(Message) /\ turn[r].steps \in Nat
      BY DEF AgentTypeOK, Turn, AgentState
<1>3. /\ ns \in Seq(Message) /\ Grows(ms, ns)
      /\ Len(ns) = Len(ms) + Len(more)
      /\ Len(ms) \in Nat /\ Len(more) \in Nat
      /\ \A i \in 1..Len(more) : ns[Len(ms) + i] = more[i]
      BY <1>2, Concatenating, LenProperties
<1> HIDE DEF ns
<1>4. ASSUME NEW j \in (Len(ms) + 1)..Len(ns)
      PROVE  ns[j].kind = "tool" /\ ns[j].calls = << >> /\ ns[j].by = r
  <2>1. j - Len(ms) \in 1..Len(more) /\ Len(ms) + (j - Len(ms)) = j
        BY <1>3
  <2>2. ns[j] = more[j - Len(ms)] BY <1>3, <2>1
  <2> QED BY <1>1, <2>1, <2>2
<1>5. /\ Tiered(ms)
      /\ \E i \in 1..Len(ms) : Answer(ms, r, i) /\ GoesBy(s, r, i - 1)
      /\ \A q \in Requests \ {r} : turn[q].pc \in Unstarted => Silent(ms, q)
      BY <1>1 DEF HistInv, AuthorInv, TierInv
<1>6. 3 * Cardinality(Answers(ms, r)) <= turn[r].steps + 2
      BY <1>1, <1>2, AnswersCount DEF HistInv, BudgetInv, Ahead
<1>7. Answers(ns, r) = Answers(ms, r) BY <1>2, <1>3, <1>4, NoMoreAnswers
<1>8. ASSUME NEW q \in Requests \ {r}, turn[q].pc \in Unstarted
      PROVE  Silent(ns, q)
      BY <1>2, <1>3, <1>4, <1>5, <1>8, SilentOn
<1>9. Tiered(ns) BY <1>2, <1>3, <1>4, <1>5, TieredOn
<1>10. \E i \in 1..Len(ns) : Answer(ns, r, i) /\ GoesBy(st, r, i - 1)
  <2>1. PICK i \in 1..Len(ms) : Answer(ms, r, i) /\ GoesBy(s, r, i - 1)
        BY <1>5
  <2>2. Answer(ns, r, i)
    <3>1. ns[i] = ms[i] BY <1>3 DEF Grows
    <3>2. ASSUME NEW j \in (i + 1)..Len(ns)
          PROVE  ns[j].kind # "ai" /\ ns[j].calls = << >>
      <4>1. CASE j \in (i + 1)..Len(ms)
        <5>1. ms[j].kind # "ai" /\ ms[j].calls = << >>
              BY <2>1, <4>1 DEF Answer
        <5>2. j \in 1..Len(ms) BY <1>3, <4>1
        <5>3. ns[j] = ms[j] BY <1>3, <5>2 DEF Grows
        <5> QED BY <5>1, <5>3
      <4>2. CASE j \in (Len(ms) + 1)..Len(ns) BY <1>4, <4>2
      <4> QED BY <1>3, <4>1, <4>2
    <3> QED BY <2>1, <3>1, <3>2 DEF Answer
  <2>3. AskedBy(ns, r, i - 1) <=> AskedBy(ms, r, i - 1)
        BY <1>2, <1>3, AskedOn
  <2>4. GoesBy(st, r, i - 1) BY <1>1, <2>1, <2>3 DEF GoesBy, ns
  <2>5. i \in 1..Len(ns) BY <1>3
  <2> QED BY <2>2, <2>4, <2>5
<1>11. /\ turn'[r].steps <= MaxIterations
       /\ 3 * Cardinality(Answers(ns, r)) <= turn'[r].steps + Ahead("check")
  <2>1. Cardinality(Answers(ms, r)) \in Nat BY <1>2, AnswersCount
  <2> QED BY <1>1, <1>2, <1>6, <1>7, <2>1 DEF Ahead
<1>12. "check" \notin Unstarted BY DEF Unstarted
<1>13. st.messages = ns BY <1>1 DEF ns
<1> QED BY <1>1, <1>8, <1>9, <1>10, <1>11, <1>12, <1>13, HistSaves

LEMMA CheckHist ==
    ASSUME AgentTypeOK, TurnInv, HistInv, NEW r \in Requests,
           CheckEscalation(r)
    PROVE  HistInv'
<1> DEFINE s  == turn[r].state
           ms == s.messages
<1>1. PICK st \in AgentState :
          /\ turn[r].pc = "check" /\ turn[r].steps < MaxIterations
          /\ st.messages = ms
          /\ EscalationAsked(ms) => st.tier = "deep" /\ st.escalated = TRUE
          /\ ~EscalationAsked(ms) => st = s
          /\ Saves(r, st, "agent")
          /\ turn'[r].steps = turn[r].steps + 1
      BY CheckSaves
<1>2. /\ ms \in Seq(Message) /\ turn[r].steps \in Nat /\ Len(ms) \in Nat
      BY LenProperties DEF AgentTypeOK, Turn, AgentState
<1>3. /\ Tiered(ms)
      /\ \A q \in Requests \ {r} : turn[q].pc \in Unstarted => Silent(ms, q)
      BY <1>1 DEF HistInv, AuthorInv, TierInv
<1>4. PICK i \in 1..Len(ms) : Answer(ms, r, i) /\ GoesBy(s, r, i - 1)
      BY <1>1 DEF HistInv, TierInv
<1>5. EscalationAsked(ms) <=> Asks(ms[i])
  <2>1. LastAI(ms) = i BY <1>2, <1>4, LastAIIs
  <2> QED BY <2>1 DEF EscalationAsked, Asks
<1>6. AskedBy(ms, r, Len(ms)) <=> AskedBy(ms, r, i - 1) \/ Asks(ms[i])
  <2>1. AskedBy(ms, r, i) <=> AskedBy(ms, r, i - 1) \/ Asks(ms[i])
    <3>1. i - 1 \in Nat /\ (i - 1) + 1 = i BY <1>2
    <3>2. AskedBy(ms, r, (i - 1) + 1) <=>
              \/ AskedBy(ms, r, i - 1)
              \/ ms[(i - 1) + 1].by = r /\ Asks(ms[(i - 1) + 1])
          BY <3>1, AskedNext
    <3> QED BY <1>4, <3>1, <3>2 DEF Answer
  <2>2. AskedBy(ms, r, Len(ms)) <=> AskedBy(ms, r, i)
        BY <1>2, <1>4, GrowsOn, AskedSame DEF Answer
  <2> QED BY <2>1, <2>2
<1>7. GoesBy(st, r, Len(ms))
  <2>1. CASE Asks(ms[i]) BY <1>1, <1>5, <1>6, <2>1 DEF GoesBy
  <2>2. CASE ~Asks(ms[i]) BY <1>1, <1>4, <1>5, <1>6, <2>2 DEF GoesBy
  <2> QED BY <2>1, <2>2
<1>8. 3 * Cardinality(Answers(ms, r)) <= turn[r].steps + 1
      BY <1>1, <1>2, AnswersCount DEF HistInv, BudgetInv, Ahead
<1>9. /\ turn'[r].steps <= MaxIterations
      /\ 3 * Cardinality(Answers(ms, r)) <= turn'[r].steps + Ahead("agent")
      BY <1>1, <1>2, <1>8, AnswersCount DEF Ahead
<1>10. "agent" \notin Unstarted BY DEF Unstarted
<1> QED BY <1>1, <1>3, <1>7, <1>9, <1>10, HistSaves

LEMMA TurnStepHist ==
    ASSUME AgentTypeOK, TurnInv, HistInv, NEW r \in Requests, TurnStep(r)
    PROVE  HistInv'
<1>1. CASE StartStream(r) BY <1>1, StartHist
<1>2. ASSUME NEW calls \in CallLists, AgentNode(r, calls) PROVE HistInv'
      BY <1>2, AnswerHist
<1>3. CASE ToolsNode(r) BY <1>3, ResultsHist
<1>4. CASE CheckEscalation(r) BY <1>4, CheckHist
<1> QED BY <1>1, <1>2, <1>3, <1>4, OtherwiseWritesNothing, HistWritesNothing

\* A turn begins, or is given up.
LEMMA CallHist ==
    ASSUME AgentTypeOK, TurnInv, HistInv, NEW r \in Requests,
           NEW t \in Tokens, NEW e \in Employees, CallTurn(r, t, e)
    PROVE  HistInv'
<1>1. turn[r] = NoTurn BY DEF CallTurn, At, TurnInv, TurnOK
<1>2. turn'[r] = [NoTurn EXCEPT !.pc = "called", !.token = t, !.employee = e]
      BY DEF CallTurn, AgentTypeOK
<1>3. /\ turn'[r].state = turn[r].state /\ turn'[r].steps = turn[r].steps
      /\ turn[r].pc \in Unstarted /\ turn'[r].pc \in Unstarted
      BY <1>1, <1>2 DEF NoTurn, Unstarted
<1>4. (\A q \in Requests \ {r} : turn'[q] = turn[q]) /\ UNCHANGED memory
      BY CallInv DEF CallTurn
<1>5. WritesNothing BY <1>3, <1>4 DEF WritesNothing
<1> QED BY <1>5, HistWritesNothing

LEMMA AbandonHist ==
    ASSUME AgentTypeOK, HistInv, NEW r \in Requests, GoTo(r, "abandoned"),
           UNCHANGED memory
    PROVE  HistInv'
<1>1. WritesNothing
      BY DEF WritesNothing, GoTo, AgentTypeOK, Turn, EndedAt
<1> QED BY <1>1, HistWritesNothing

LEMMA InitHist == AgentInit => HistInv
<1> SUFFICES ASSUME AgentInit PROVE HistInv OBVIOUS
<1>1. /\ \A r \in Requests : /\ turn[r].pc = "idle" /\ turn[r].steps = 0
                             /\ turn[r].state.messages = << >>
      /\ \A g \in Requests, t \in Tokens : memory[g][t].messages = << >>
      BY DEF AgentInit, NoTurn, EmptyState, EmptyMemory
<1>2. Tiered(<< >>) /\ \A r : Silent(<< >>, r) /\ Answers(<< >>, r) = {}
  <2>1. Len(<< >>) = 0 BY EmptySeq
  <2> QED BY <2>1 DEF Tiered, Silent, Answers
<1>3. AuthorInv /\ TierInv BY <1>1, <1>2 DEF AuthorInv, TierInv
<1>4. BudgetInv
  <2>1. \A r \in Requests :
            /\ turn[r].steps = 0 /\ turn[r].pc = "idle"
            /\ Cardinality(Answers(turn[r].state.messages, r)) = 0
        BY <1>1, <1>2, FS_EmptySet
  <2>2. Ahead("idle") = 2 BY DEF Ahead
  <2> QED BY <2>1, <2>2 DEF BudgetInv
<1> QED BY <1>3, <1>4 DEF HistInv

-----------------------------------------------------------------------------
(* Turns that have their conversation to themselves.                       *)

\* Turns that run in one conversation know that they are not alone.
AloneInv ==
    \A q, r \in Requests :
        /\ q # r
        /\ turn[q].pc \in StreamingAt /\ turn[r].pc \in StreamingAt
        /\ turn[q].token = turn[r].token
        => ~alone[q]

\* What turn r called and asked for, by the history ms.
OwnReport(ms, r) ==
    LET own == {i \in 1..Len(ms) : ms[i].by = r}
    IN  [tools     |-> ToolsCalled(ms, own),
         escalated |-> \E i \in own : Asks(ms[i])]

\* A turn that is alone works on the conversation itself: what was there
\* before is by others, what came after is its own.
ThreadOK(r) ==
    /\ turn[r].pc = "opened" => turn[r].prior = Len(Thread(r).messages)
    /\ turn[r].pc \in StreamingAt \ {"opened"} =>
           /\ Thread(r) = turn[r].state
           /\ turn[r].prior <= Len(turn[r].state.messages)
           /\ \A i \in 1..Len(turn[r].state.messages) :
                  turn[r].state.messages[i].by = r <=> i > turn[r].prior
    /\ turn[r].pc = "done" =>
           turn[r].report = OwnReport(turn[r].state.messages, r)

ThreadInv == \A r \in Requests : alone[r] => ThreadOK(r)

\* The conversation as turn r knows it.
Base(r) ==
    IF At(r, "opened") THEN Thread(r).messages ELSE turn[r].state.messages

\* Turn r saves a state with messages of its own after what it knows.
Writes(r) ==
    /\ turn[r].pc \in StreamingAt
    /\ Base(r) \in Seq(Message)
    /\ \E st \in AgentState, to \in StreamingAt \ {"opened"} :
           /\ Saves(r, st, to)
           /\ Grows(Base(r), st.messages)
           /\ \A i \in (Len(Base(r)) + 1)..Len(st.messages) :
                  st.messages[i].by = r

\* A step that no turn in the graph survives but unchanged.
Quiet ==
    /\ UNCHANGED alone
    /\ UNCHANGED memory \/ \A r \in Requests : turn'[r].pc \notin StreamingAt
    /\ \A r \in Requests :
           turn'[r] = turn[r] \/ turn'[r].pc \notin StreamingAt \union {"done"}

LEMMA StartWrites ==
    ASSUME AgentTypeOK, TurnInv, NEW r \in Requests, StartStream(r)
    PROVE  Writes(r)
<1> DEFINE ms == Thread(r).messages
           m  == HumanMessage(r)
<1>1. /\ turn[r].pc = "opened" /\ ms \in Seq(Message) /\ m \in Message
      /\ InputState(r).messages = Append(ms, m)
      /\ Saves(r, InputState(r), "agent")
      BY StartSaves
<1>2. turn[r].graph \in Requests /\ turn[r].token \in Tokens
      /\ turn[r].employee \in Employees
      BY <1>1 DEF TurnInv, TurnOK, StreamingAt
<1>3. Base(r) = ms BY <1>1 DEF Base, At
<1>4. /\ Append(ms, m) \in Seq(Message) /\ Grows(ms, Append(ms, m))
      /\ Len(Append(ms, m)) = Len(ms) + 1 /\ Len(ms) \in Nat
      /\ Append(ms, m)[Len(ms) + 1] = m
      BY <1>1, Appending, LenProperties
<1>5. InputState(r) \in AgentState
      BY <1>2, <1>4 DEF InputState, AgentState, Tiers
<1>6. m.by = r BY DEF HumanMessage
<1>7. \A i \in (Len(ms) + 1)..Len(Append(ms, m)) : Append(ms, m)[i].by = r
      BY <1>4, <1>6
<1>8. "agent" \in StreamingAt \ {"opened"} /\ "opened" \in StreamingAt
      BY DEF StreamingAt
<1> HIDE DEF ms, m
<1> QED BY <1>1, <1>3, <1>4, <1>5, <1>7, <1>8 DEF Writes

LEMMA AnswerWrites ==
    ASSUME AgentTypeOK, TurnInv, NEW r \in Requests,
           NEW calls \in CallLists, AgentNode(r, calls)
    PROVE  Writes(r)
<1> DEFINE s  == turn[r].state
           ms == s.messages
           m  == AIMessage(r, s.tier, calls)
           pc == IF calls = << >> THEN "end" ELSE "tools"
<1>1. PICK st \in AgentState :
          /\ turn[r].pc = "agent"
          /\ m \in Message
          /\ st.messages = Append(ms, m)
          /\ Saves(r, st, pc)
      BY AnswerSaves
<1>2. ms \in Seq(Message) BY DEF AgentTypeOK, Turn, AgentState
<1>3. Base(r) = ms BY <1>1 DEF Base, At
<1>4. m.by = r BY DEF AIMessage
<1> HIDE DEF ms, m
<1>5. /\ Grows(ms, Append(ms, m))
      /\ Len(Append(ms, m)) = Len(ms) + 1 /\ Len(ms) \in Nat
      /\ Append(ms, m)[Len(ms) + 1] = m
      BY <1>1, <1>2, Appending, LenProperties
<1>6. \A i \in (Len(ms) + 1)..Len(Append(ms, m)) : Append(ms, m)[i].by = r
      BY <1>4, <1>5
<1>7. pc \in StreamingAt \ {"opened"} /\ "agent" \in StreamingAt
      BY DEF StreamingAt
<1> HIDE DEF pc
<1> QED BY <1>1, <1>2, <1>3, <1>5, <1>6, <1>7 DEF Writes

LEMMA ResultsWrite ==
    ASSUME AgentTypeOK, TurnInv, NEW r \in Requests, ToolsNode(r)
    PROVE  Writes(r)
<1> DEFINE ms == turn[r].state.messages
<1>1. PICK st \in AgentState, ns \in Seq(Message) :
          /\ turn[r].pc = "tools"
          /\ \A i \in 1..Len(ns) : ns[i].by = r
          /\ st.messages = ms \o ns
          /\ Saves(r, st, "check")
      BY ResultsSave
<1>2. ms \in Seq(Message) BY DEF AgentTypeOK, Turn, AgentState
<1>3. Base(r) = ms BY <1>1 DEF Base, At
<1> HIDE DEF ms
<1>4. /\ Grows(ms, ms \o ns)
      /\ Len(ms \o ns) = Len(ms) + Len(ns)
      /\ Len(ms) \in Nat /\ Len(ns) \in Nat
      /\ \A i \in 1..Len(ns) : (ms \o ns)[Len(ms) + i] = ns[i]
      BY <1>2, Concatenating, LenProperties
<1>5. ASSUME NEW j \in (Len(ms) + 1)..Len(ms \o ns)
      PROVE  (ms \o ns)[j].by = r
  <2>1. j - Len(ms) \in 1..Len(ns) /\ Len(ms) + (j - Len(ms)) = j
        BY <1>4
  <2>2. (ms \o ns)[j] = ns[j - Len(ms)] BY <1>4, <2>1
  <2> QED BY <1>1, <2>1, <2>2
<1>6. "check" \in StreamingAt \ {"opened"} /\ "tools" \in StreamingAt
      BY DEF StreamingAt
<1> QED BY <1>1, <1>2, <1>3, <1>4, <1>5, <1>6 DEF Writes

LEMMA CheckWrites ==
    ASSUME AgentTypeOK, TurnInv, NEW r \in Requests, CheckEscalation(r)
    PROVE  Writes(r)
<1> DEFINE ms == turn[r].state.messages
<1>1. PICK st \in AgentState :
          /\ turn[r].pc = "check"
          /\ st.messages = ms
          /\ Saves(r, st, "agent")
      BY CheckSaves
<1>2. ms \in Seq(Message) BY DEF AgentTypeOK, Turn, AgentState
<1>3. Base(r) = ms BY <1>1 DEF Base, At
<1> HIDE DEF ms
<1>4. Grows(ms, ms) /\ Len(ms) \in Nat BY <1>2, GrowsOn, LenProperties
<1>5. {"agent", "check"} \subseteq StreamingAt \ {"opened"} BY DEF StreamingAt
<1> QED BY <1>1, <1>2, <1>3, <1>4, <1>5 DEF Writes

LEMMA StepKinds ==
    ASSUME AgentTypeOK, TurnInv, NEW r \in Requests, TurnStep(r)
    PROVE  \/ Writes(r)
           \/ OpenTurn(r)
           \/ FinishTurn(r)
           \/ Quiet /\ UNCHANGED memory
<1>1. \A q \in Requests \ {r} : turn'[q] = turn[q] BY TurnStepFrame
<1> USE DEF AgentTypeOK, Turn, StreamingAt, At, GoTo, Raise, Quiet
<1>2. CASE FindGraph(r) BY <1>1, <1>2 DEF FindGraph
<1>3. CASE BuildGraph(r) \/ BuildFails(r)
      BY <1>1, <1>3 DEF BuildGraph, BuildFails
<1>4. CASE ReturnGraph(r) BY <1>1, <1>4 DEF ReturnGraph
<1>5. CASE AgentFails(r) BY <1>1, <1>5 DEF AgentFails
<1>6. CASE ToolsRaise(r) BY <1>1, <1>6 DEF ToolsRaise
<1>7. CASE OutOfSteps(r) BY <1>1, <1>7 DEF OutOfSteps
<1> QED
      BY <1>2, <1>3, <1>4, <1>5, <1>6, <1>7, StartWrites, AnswerWrites,
         ResultsWrite, CheckWrites DEF TurnStep

LEMMA InitAlone == AgentInit => AloneInv /\ ThreadInv
BY DEF AgentInit, NoTurn, AloneInv, ThreadInv, ThreadOK, StreamingAt

LEMMA QuietAlone ==
    ASSUME AgentTypeOK, AloneInv, ThreadInv, Quiet
    PROVE  AloneInv' /\ ThreadInv'
<1>1. AloneInv' BY DEF Quiet, AloneInv
<1>2. ASSUME NEW r \in Requests, alone'[r] PROVE ThreadOK(r)'
  <2>1. CASE turn'[r].pc \notin StreamingAt \union {"done"}
        BY <2>1 DEF ThreadOK, StreamingAt
  <2>2. CASE turn'[r].pc \in StreamingAt
    <3>1. turn'[r] = turn[r] /\ UNCHANGED memory /\ alone[r]
          BY <1>2, <2>2 DEF Quiet
    <3> QED BY <3>1 DEF ThreadInv, ThreadOK, Thread
  <2>3. CASE turn'[r].pc = "done"
    <3>1. turn'[r] = turn[r] /\ alone[r] BY <1>2, <2>3 DEF Quiet
    <3>2. turn'[r].report = OwnReport(turn'[r].state.messages, r)
          BY <2>3, <3>1 DEF ThreadInv, ThreadOK
    <3> QED BY <2>3, <3>2 DEF ThreadOK, StreamingAt
  <2> QED BY <2>1, <2>2, <2>3
<1> QED BY <1>1, <1>2 DEF ThreadInv

LEMMA OpenAlone ==
    ASSUME AgentTypeOK, AloneInv, ThreadInv, NEW r \in Requests, OpenTurn(r)
    PROVE  AloneInv' /\ ThreadInv'
<1>1. /\ turn[r].pc = "bound" /\ turn'[r].pc = "opened"
      /\ turn'[r].token = turn[r].token /\ turn'[r].graph = turn[r].graph
      /\ turn'[r].prior = Len(Thread(r).messages)
      /\ \A q \in Requests \ {r} : turn'[q] = turn[q]
      /\ \A q \in Requests : alone'[q] <=> alone[q] /\ q \notin Overlapped(r)
      /\ UNCHANGED memory
      BY DEF OpenTurn, At, AgentTypeOK, Turn
<1>2. AloneInv'
  <2> SUFFICES ASSUME NEW p \in Requests, NEW q \in Requests, p # q,
                      turn'[p].pc \in StreamingAt, turn'[q].pc \in StreamingAt,
                      turn'[p].token = turn'[q].token
               PROVE  ~alone'[p]
      BY DEF AloneInv
  <2>1. CASE p = r
    <3>1. q \in Running(turn[r].token) \ {r} BY <1>1, <2>1 DEF Running
    <3>2. r \in Overlapped(r) BY <3>1 DEF Overlapped
    <3> QED BY <1>1, <2>1, <3>2
  <2>2. CASE q = r
    <3>1. p \in Running(turn[r].token) \ {r} BY <1>1, <2>2 DEF Running
    <3>2. p \in Overlapped(r) BY <3>1 DEF Overlapped
    <3> QED BY <1>1, <3>2
  <2>3. CASE p # r /\ q # r BY <1>1, <2>3 DEF AloneInv
  <2> QED BY <2>1, <2>2, <2>3
<1>3. ASSUME NEW q \in Requests, alone'[q] PROVE ThreadOK(q)'
  <2>1. CASE q = r BY <1>1, <2>1 DEF ThreadOK, Thread
  <2>2. CASE q # r
    <3>1. turn'[q] = turn[q] /\ UNCHANGED memory /\ alone[q]
          BY <1>1, <1>3, <2>2
    <3> QED BY <3>1 DEF ThreadInv, ThreadOK, Thread
  <2> QED BY <2>1, <2>2
<1> QED BY <1>2, <1>3 DEF ThreadInv

LEMMA WritesAlone ==
    ASSUME AgentTypeOK, TurnInv, AuthorInv, AloneInv, ThreadInv,
           NEW r \in Requests, Writes(r)
    PROVE  AloneInv' /\ ThreadInv'
<1> DEFINE ms == Base(r)
<1>1. PICK st \in AgentState, to \in StreamingAt \ {"opened"} :
          /\ Saves(r, st, to)
          /\ Grows(ms, st.messages)
          /\ \A i \in (Len(ms) + 1)..Len(st.messages) : st.messages[i].by = r
      BY DEF Writes
<1>2. turn[r].pc \in StreamingAt /\ ms \in Seq(Message) BY DEF Writes
<1>3. /\ turn'[r].pc = to /\ turn'[r].state = st
      /\ turn'[r].token = turn[r].token /\ turn'[r].graph = turn[r].graph
      /\ turn'[r].prior = turn[r].prior
      /\ \A q \in Requests \ {r} : turn'[q] = turn[q]
      /\ turn[r].graph \in Requests /\ turn[r].token \in Tokens
      /\ \A g \in Requests, t \in Tokens :
             memory'[g][t] = IF g = turn[r].graph /\ t = turn[r].token
                             THEN st ELSE memory[g][t]
      /\ UNCHANGED alone
      BY <1>1 DEF Saves
<1>4. AloneInv' BY <1>1, <1>2, <1>3 DEF AloneInv
<1>5. ASSUME alone'[r] PROVE ThreadOK(r)'
  <2>1. ThreadOK(r) BY <1>3, <1>5 DEF ThreadInv
  <2>2. Thread(r)' = turn'[r].state BY <1>3 DEF Thread
  <2>3. /\ Len(ms) \in Nat /\ Len(st.messages) \in Nat
        /\ turn[r].prior \in Nat
        BY <1>2, LenProperties DEF AgentState, AgentTypeOK, Turn
  <2>4. /\ turn[r].prior <= Len(ms)
        /\ \A i \in 1..Len(ms) : ms[i].by = r <=> i > turn[r].prior
    <3>1. CASE turn[r].pc = "opened"
      <4>1. ms = Thread(r).messages /\ turn[r].prior = Len(ms)
            BY <2>1, <3>1 DEF ThreadOK, Base, At
      <4>2. Silent(ms, r)
            BY <1>3, <3>1, <4>1 DEF AuthorInv, Unstarted, Thread
      <4> QED BY <2>3, <4>1, <4>2 DEF Silent
    <3>2. CASE turn[r].pc # "opened"
      <4>1. ms = turn[r].state.messages BY <3>2 DEF Base, At
      <4> QED BY <1>2, <2>1, <3>2, <4>1 DEF ThreadOK
    <3> QED BY <3>1, <3>2
  <2> HIDE DEF ms
  <2>5. turn[r].prior <= Len(st.messages) BY <1>1, <2>3, <2>4 DEF Grows
  <2>6. ASSUME NEW i \in 1..Len(st.messages)
        PROVE  st.messages[i].by = r <=> i > turn[r].prior
    <3>1. CASE i \in 1..Len(ms) BY <1>1, <2>4, <3>1 DEF Grows
    <3>2. CASE i \in (Len(ms) + 1)..Len(st.messages)
          BY <1>1, <2>3, <2>4, <3>2
    <3> QED BY <2>3, <3>1, <3>2
  <2>7. turn'[r].pc # "opened" /\ turn'[r].pc # "done"
        BY <1>3 DEF StreamingAt
  <2> QED BY <1>3, <2>2, <2>5, <2>6, <2>7 DEF ThreadOK
<1>6. ASSUME NEW q \in Requests \ {r}, alone'[q] PROVE ThreadOK(q)'
  <2>1. turn'[q] = turn[q] /\ ThreadOK(q) BY <1>3, <1>6 DEF ThreadInv
  <2>2. CASE turn[q].pc \in StreamingAt
    <3>1. turn[q].token # turn[r].token BY <1>2, <1>3, <1>6, <2>2 DEF AloneInv
    <3>2. turn[q].graph \in Requests /\ turn[q].token \in Tokens
          BY <2>2 DEF TurnInv, TurnOK, StreamingAt
    <3>3. Thread(q)' = Thread(q) BY <1>3, <2>1, <3>1, <3>2 DEF Thread
    <3> QED BY <2>1, <3>3 DEF ThreadOK
  <2>3. CASE turn[q].pc \notin StreamingAt
        BY <2>1, <2>3 DEF ThreadOK, StreamingAt
  <2> QED BY <2>2, <2>3
<1> QED BY <1>4, <1>5, <1>6 DEF ThreadInv

LEMMA FinishAlone ==
    ASSUME AgentTypeOK, TurnInv, TierInv, AloneInv, ThreadInv,
           NEW r \in Requests, FinishTurn(r)
    PROVE  AloneInv' /\ ThreadInv'
<1> DEFINE final  == Thread(r)
           report == [tools |-> ToolsCalled(final.messages,
                               (turn[r].prior + 1)..Len(final.messages)),
                      escalated |-> final.escalated]
<1>1. /\ turn[r].pc = "end" /\ turn'[r].pc = "done"
      /\ turn'[r].report = report
      /\ turn'[r].state = turn[r].state
      /\ \A q \in Requests \ {r} : turn'[q] = turn[q]
      /\ UNCHANGED <<memory, alone>>
      BY DEF FinishTurn, At, AgentTypeOK, Turn
<1>2. AloneInv' BY <1>1 DEF AloneInv, StreamingAt
<1>3. ASSUME alone'[r] PROVE ThreadOK(r)'
  <2> DEFINE ms  == turn[r].state.messages
             own == {i \in 1..Len(ms) : ms[i].by = r}
  <2>1. ThreadOK(r) BY <1>1, <1>3 DEF ThreadInv
  <2>2. /\ final = turn[r].state
        /\ \A i \in 1..Len(ms) : ms[i].by = r <=> i > turn[r].prior
        BY <1>1, <2>1 DEF ThreadOK, StreamingAt
  <2>3. Len(ms) \in Nat /\ turn[r].prior \in Nat
        BY LenProperties DEF AgentTypeOK, Turn, AgentState
  <2>4. own = (turn[r].prior + 1)..Len(ms) BY <2>2, <2>3
  <2>5. turn[r].state.escalated <=> \E i \in own : Asks(ms[i])
        BY <1>1 DEF TierInv, GoesBy, AskedBy
  <2>6. report.escalated = \E i \in own : Asks(ms[i])
    <3>1. report.escalated \in BOOLEAN
          BY <2>2 DEF AgentTypeOK, Turn, AgentState
    <3>2. report.escalated <=> \E i \in own : Asks(ms[i]) BY <2>2, <2>5
    <3> QED BY <3>1, <3>2
  <2>7. report.tools = ToolsCalled(ms, own) BY <2>2, <2>4
  <2>8. report = OwnReport(ms, r) BY <2>6, <2>7 DEF OwnReport
  <2> QED BY <1>1, <2>8 DEF ThreadOK, StreamingAt
<1>4. ASSUME NEW q \in Requests \ {r}, alone'[q] PROVE ThreadOK(q)'
  <2>1. turn'[q] = turn[q] /\ ThreadOK(q) BY <1>1, <1>4 DEF ThreadInv
  <2> QED BY <1>1, <2>1 DEF ThreadOK, Thread
<1> QED BY <1>2, <1>3, <1>4 DEF ThreadInv

LEMMA TurnStepAlone ==
    ASSUME AgentTypeOK, TurnInv, HistInv, AloneInv, ThreadInv,
           NEW r \in Requests, TurnStep(r)
    PROVE  AloneInv' /\ ThreadInv'
BY StepKinds, WritesAlone, OpenAlone, FinishAlone, QuietAlone DEF HistInv

\* A turn begins, or is given up.
LEMMA CallAlone ==
    ASSUME AgentTypeOK, TurnInv, AloneInv, ThreadInv, NEW r \in Requests,
           NEW t \in Tokens, NEW e \in Employees, CallTurn(r, t, e)
    PROVE  AloneInv' /\ ThreadInv'
<1>1. Quiet BY CallInv DEF Quiet, CallTurn, StreamingAt
<1> QED BY <1>1, QuietAlone

LEMMA AbandonAlone ==
    ASSUME AgentTypeOK, AloneInv, ThreadInv, NEW r \in Requests,
           GoTo(r, "abandoned"), UNCHANGED <<memory, alone>>
    PROVE  AloneInv' /\ ThreadInv'
<1>1. Quiet BY DEF Quiet, GoTo, AgentTypeOK, Turn, StreamingAt
<1> QED BY <1>1, QuietAlone

-----------------------------------------------------------------------------
(* Which graph a turn may hold.                                            *)

\* No turn holds the graph of one that has not built any yet.
GraphOwned ==
    \A q \in Requests : turn[q].pc \in {"idle", "called", "building"} =>
        graph # q /\ \A r \in Requests : turn[r].graph # q

LEMMA TurnStepGraph ==
    ASSUME AgentTypeOK, NEW r \in Requests, TurnStep(r)
    PROVE  \/ /\ turn[r].pc = "building" /\ turn'[r].pc = "returning"
              /\ graph' = r /\ turn'[r].graph = turn[r].graph
           \/ /\ turn'[r].pc = "bound" /\ turn'[r].graph = graph
              /\ graph' = graph
           \/ /\ turn'[r].pc \in {"idle", "called", "building"} =>
                     turn[r].pc \in {"idle", "called", "building"}
              /\ turn'[r].graph = turn[r].graph
              /\ graph' = graph
<1> USE DEF AgentTypeOK, Turn, At, GoTo, Raise, Advance
<1>1. CASE FindGraph(r) BY <1>1 DEF FindGraph
<1>2. CASE BuildGraph(r) \/ BuildFails(r)
      BY <1>2 DEF BuildGraph, BuildFails
<1>3. CASE ReturnGraph(r) BY <1>3 DEF ReturnGraph
<1>4. CASE OpenTurn(r) BY <1>4 DEF OpenTurn
<1>5. CASE StartStream(r) BY <1>5 DEF StartStream
<1>6. ASSUME NEW calls \in CallLists, AgentNode(r, calls)
      PROVE  /\ turn'[r].pc \notin {"idle", "called", "building"}
             /\ turn'[r].graph = turn[r].graph
             /\ graph' = graph
      BY <1>6 DEF AgentNode, RouteAfterAgent
<1>7. CASE AgentFails(r) BY <1>7 DEF AgentFails
<1>8. CASE ToolsNode(r) BY <1>8 DEF ToolsNode
<1>9. CASE ToolsRaise(r) BY <1>9 DEF ToolsRaise
<1>10. CASE CheckEscalation(r) BY <1>10 DEF CheckEscalation
<1>11. CASE OutOfSteps(r) BY <1>11 DEF OutOfSteps
<1>12. CASE FinishTurn(r) BY <1>12 DEF FinishTurn
<1> QED
      BY <1>1, <1>2, <1>3, <1>4, <1>5, <1>6, <1>7, <1>8, <1>9, <1>10, <1>11,
         <1>12 DEF TurnStep

LEMMA TurnStepOwned ==
    ASSUME AgentTypeOK, GraphOwned, NEW r \in Requests, TurnStep(r)
    PROVE  GraphOwned'
<1>1. \A q \in Requests \ {r} : turn'[q] = turn[q] BY TurnStepFrame
<1>2. SUFFICES ASSUME NEW q \in Requests,
                      turn'[q].pc \in {"idle", "called", "building"}
               PROVE  graph' # q /\ \A p \in Requests : turn'[p].graph # q
      BY DEF GraphOwned
<1>3. turn[q].pc \in {"idle", "called", "building"}
      BY <1>1, <1>2, TurnStepGraph
<1>4. graph # q /\ \A p \in Requests : turn[p].graph # q
      BY <1>3 DEF GraphOwned
<1>5. graph' = r => q # r BY <1>2, <1>4, TurnStepGraph
<1>6. graph' # q BY <1>4, <1>5, TurnStepGraph
<1>7. turn'[r].graph # q BY <1>4, TurnStepGraph
<1> QED BY <1>1, <1>4, <1>6, <1>7

-----------------------------------------------------------------------------
(* How a turn counts its nodes.                                            *)

\* The nodes come round in threes; the results of a turn's calls are all it
\* may still owe the history; an error is what a turn was raised with.
CountInv ==
    \A r \in Requests :
        /\ turn[r].pc \in Unstarted => turn[r].steps = 0
        /\ turn[r].pc = "agent" => turn[r].steps % 3 = 0
        /\ turn[r].pc = "tools" =>
               turn[r].steps % 3 = 1 /\ ResultsDue(turn[r].state.messages)
        /\ turn[r].pc = "check" => turn[r].steps % 3 = 2
        /\ turn[r].pc # "raised" => turn[r].error = "none"

\* Every turn stays where it was with the count it had, moves on before its
\* first node, or ends.
LEMMA CountElsewhere ==
    ASSUME CountInv, WritesNothing,
           \A r \in Requests : turn'[r].pc # "raised" =>
               turn[r].pc # "raised" /\ turn'[r].error = turn[r].error
    PROVE  CountInv'
BY DEF CountInv, WritesNothing, Unstarted, EndedAt

LEMMA CountSaves ==
    ASSUME CountInv, NEW r \in Requests, NEW st, NEW pc, Saves(r, st, pc),
           turn[r].pc \in StreamingAt,
           pc \in {"agent", "tools", "check", "end"},
           pc = "agent" => turn'[r].steps % 3 = 0,
           pc = "tools" => turn'[r].steps % 3 = 1 /\ ResultsDue(st.messages),
           pc = "check" => turn'[r].steps % 3 = 2
    PROVE  CountInv'
<1>1. /\ turn'[r].pc = pc /\ turn'[r].state = st
      /\ turn'[r].error = turn[r].error
      /\ \A q \in Requests \ {r} : turn'[q] = turn[q]
      BY DEF Saves
<1>2. turn'[r].error = "none" BY <1>1 DEF CountInv, StreamingAt
<1>3. ASSUME NEW q \in Requests
      PROVE  /\ turn'[q].pc \in Unstarted => turn'[q].steps = 0
             /\ turn'[q].pc = "agent" => turn'[q].steps % 3 = 0
             /\ turn'[q].pc = "tools" =>
                    /\ turn'[q].steps % 3 = 1
                    /\ ResultsDue(turn'[q].state.messages)
             /\ turn'[q].pc = "check" => turn'[q].steps % 3 = 2
             /\ turn'[q].pc # "raised" => turn'[q].error = "none"
  <2>1. CASE q = r BY <1>1, <1>2, <2>1 DEF Unstarted
  <2>2. CASE q # r
    <3>1. turn'[q] = turn[q] BY <1>1, <2>2
    <3> QED BY <3>1 DEF CountInv
  <2> QED BY <2>1, <2>2
<1> QED BY <1>3 DEF CountInv, ResultsDue

LEMMA TurnStepErrors ==
    ASSUME AgentTypeOK, NEW r \in Requests, TurnStep(r)
    PROVE  /\ turn[r].pc # "raised"
           /\ turn'[r].pc # "raised" => turn'[r].error = turn[r].error
<1> USE DEF AgentTypeOK, Turn, At, GoTo, Raise, Advance
<1>1. CASE FindGraph(r) BY <1>1 DEF FindGraph
<1>2. CASE BuildGraph(r) \/ BuildFails(r)
      BY <1>2 DEF BuildGraph, BuildFails
<1>3. CASE ReturnGraph(r) BY <1>3 DEF ReturnGraph
<1>4. CASE OpenTurn(r) BY <1>4 DEF OpenTurn
<1>5. CASE StartStream(r) BY <1>5 DEF StartStream
<1>6. ASSUME NEW calls \in CallLists, AgentNode(r, calls)
      PROVE  turn[r].pc # "raised" /\ turn'[r].error = turn[r].error
      BY <1>6 DEF AgentNode
<1>7. CASE AgentFails(r) BY <1>7 DEF AgentFails
<1>8. CASE ToolsNode(r) BY <1>8 DEF ToolsNode
<1>9. CASE ToolsRaise(r) BY <1>9 DEF ToolsRaise
<1>10. CASE CheckEscalation(r) BY <1>10 DEF CheckEscalation
<1>11. CASE OutOfSteps(r) BY <1>11 DEF OutOfSteps
<1>12. CASE FinishTurn(r) BY <1>12 DEF FinishTurn
<1> QED
      BY <1>1, <1>2, <1>3, <1>4, <1>5, <1>6, <1>7, <1>8, <1>9, <1>10, <1>11,
         <1>12 DEF TurnStep

LEMMA TurnStepCount ==
    ASSUME AgentTypeOK, TurnInv, CountInv, NEW r \in Requests, TurnStep(r)
    PROVE  CountInv'
<1>0. turn[r].steps \in Nat BY DEF AgentTypeOK, Turn
<1>1. CASE StartStream(r)
  <2>1. /\ turn[r].pc = "opened" /\ Saves(r, InputState(r), "agent")
        /\ turn'[r].steps = turn[r].steps
        BY <1>1, StartSaves
  <2>2. turn'[r].steps % 3 = 0 BY <2>1 DEF CountInv, Unstarted
  <2> QED BY <2>1, <2>2, CountSaves DEF StreamingAt
<1>2. ASSUME NEW calls \in CallLists, AgentNode(r, calls) PROVE CountInv'
  <2> DEFINE ms == turn[r].state.messages
             m  == AIMessage(r, turn[r].state.tier, calls)
             pc == IF calls = << >> THEN "end" ELSE "tools"
  <2>1. PICK st \in AgentState :
            /\ turn[r].pc = "agent" /\ ApiAccepts(ms) /\ m \in Message
            /\ st.messages = Append(ms, m)
            /\ Saves(r, st, pc) /\ turn'[r].steps = turn[r].steps + 1
        BY <1>2, AnswerSaves
  <2>2. ms \in Seq(Message) BY DEF AgentTypeOK, Turn, AgentState
  <2> HIDE DEF m, ms
  <2>3. ResultsDue(st.messages) BY <2>1, <2>2, AnswerDue
  <2>4. turn'[r].steps % 3 = 1
    <3>1. turn[r].steps % 3 = 0 BY <2>1 DEF CountInv
    <3> QED BY <1>0, <2>1, <3>1
  <2> QED BY <2>1, <2>3, <2>4, CountSaves DEF StreamingAt
<1>3. CASE ToolsNode(r)
  <2>1. PICK st \in AgentState :
            /\ turn[r].pc = "tools"
            /\ Saves(r, st, "check") /\ turn'[r].steps = turn[r].steps + 1
        BY <1>3, ResultsSave
  <2>2. turn'[r].steps % 3 = 2 BY <1>0, <2>1 DEF CountInv
  <2> QED BY <2>1, <2>2, CountSaves DEF StreamingAt
<1>4. CASE CheckEscalation(r)
  <2>1. PICK st \in AgentState :
            /\ turn[r].pc = "check"
            /\ Saves(r, st, "agent") /\ turn'[r].steps = turn[r].steps + 1
        BY <1>4, CheckSaves
  <2>2. turn'[r].steps % 3 = 0 BY <1>0, <2>1 DEF CountInv
  <2> QED BY <2>1, <2>2, CountSaves DEF StreamingAt
<1>5. CASE WritesNothing
      BY <1>5, TurnStepFrame, TurnStepErrors, CountElsewhere
<1> QED BY <1>1, <1>2, <1>3, <1>4, <1>5, OtherwiseWritesNothing

=============================================================================
