------------------------- MODULE ChatService_proof -------------------------
(***************************************************************************)
(* Proofs about ChatService, for any employees, tokens, requests, answers  *)
(* of the model and recursion limit.                                       *)
(***************************************************************************)
EXTENDS ChatService, AgentHistory_proof

USE NoneAssumption DEF NoneAssumption
USE AgentAssumption DEF AgentAssumption

-----------------------------------------------------------------------------
(* The invariant; TypeOK and TurnInv hold of every turn (AgentGraph_proof). *)

\* A turn runs for the employee its token was issued to.
OwnerInv ==
    \A r \in Requests :
        turn[r].pc # "idle" => turn[r].employee = issued[turn[r].token]

\* A session is only ever the session of the employee the token was issued to.
ScopedSessions == \A t \in Tokens : sessions[t] \in {None, issued[t]}

Inv == TypeOK /\ ScopedSessions /\ TurnInv /\ OwnerInv

-----------------------------------------------------------------------------
(* Types.                                                                  *)

LEMMA InitInv == Init => Inv
<1> SUFFICES ASSUME Init PROVE Inv OBVIOUS
<1>1. SessionTypeOK BY DEF Init, SessionInit, NoSessions, SessionTypeOK
<1>2. AgentTypeOK BY EmptyTypes DEF Init, AgentInit, AgentTypeOK
<1>3. TypeOK BY <1>1, <1>2 DEF Init, TypeOK, Streams
<1>4. TurnInv BY DEF Init, AgentInit, TurnInv, TurnOK, NoTurn, StreamingAt
<1>5. ScopedSessions BY DEF Init, SessionInit, NoSessions, ScopedSessions
<1>6. OwnerInv BY DEF Init, AgentInit, OwnerInv, NoTurn
<1> QED BY <1>3, <1>4, <1>5, <1>6 DEF Inv

LEMMA StepType ==
    ASSUME Inv, [Next]_vars
    PROVE  TypeOK'
<1> AgentTypeOK /\ SessionTypeOK /\ TurnInv BY DEF Inv, TypeOK
<1> USE DEF TypeOK, Respond, Streams, agentVars, sessionVars
<1>1. ASSUME NEW e \in Employees, NEW t \in Tokens, Login(e, t) PROVE TypeOK'
      BY <1>1 DEF Login, CreateSession, SessionTypeOK, AgentTypeOK, Inv
<1>2. ASSUME NEW t \in Tokens, Logout(t) PROVE TypeOK'
      BY <1>2 DEF Logout, DeleteSession, SessionTypeOK, AgentTypeOK, Inv
<1>3. ASSUME NEW r \in Requests, NEW t \in Tokens, Chat(r, t) PROVE TypeOK'
  <2>1. GetSession(t) \in Employees
        BY <1>3 DEF Chat, Authenticated, GetSession, SessionTypeOK
  <2>2. AgentTypeOK' BY <1>3, <2>1, CallInv DEF Chat
  <2> QED BY <1>3, <2>2 DEF Chat, SessionTypeOK, Inv
<1>4. ASSUME NEW r \in Requests, NEW t \in Tokens, RefuseChat(r, t)
      PROVE  TypeOK'
      BY <1>4 DEF RefuseChat, SessionTypeOK, AgentTypeOK, Inv
<1>5. ASSUME NEW r \in Requests, RunTurn(r) PROVE TypeOK'
      BY <1>5, TurnStepType DEF RunTurn, SessionTypeOK, Inv
<1>6. ASSUME NEW r \in Requests, SendDone(r) PROVE TypeOK'
      BY <1>6 DEF SendDone, SessionTypeOK, AgentTypeOK, Inv
<1>7. ASSUME NEW r \in Requests, LogQuery(r) PROVE TypeOK'
      BY <1>7 DEF LogQuery, LogLine, SessionTypeOK, AgentTypeOK, Inv
<1>8. ASSUME NEW r \in Requests, SendError(r) PROVE TypeOK'
      BY <1>8 DEF SendError, LogLine, SessionTypeOK, AgentTypeOK, Inv
<1>9. ASSUME NEW r \in Requests, Break(r) PROVE TypeOK'
      BY <1>9 DEF Break, SessionTypeOK, AgentTypeOK, Inv
<1>10. ASSUME NEW r \in Requests, Disconnect(r) PROVE TypeOK'
  <2>1. CloseTurn(r) => AgentTypeOK' BY AbandonInv DEF CloseTurn, At
  <2>2. AgentTypeOK' BY <1>10, <2>1 DEF Disconnect, AgentTypeOK
  <2> QED BY <1>10, <2>2 DEF Disconnect, SessionTypeOK, Inv
<1>11. CASE Restart
  <2>0. \A r \in Requests : turn[r] \in Turn BY DEF AgentTypeOK
  <2>1. \A r \in Requests : [turn[r] EXCEPT !.pc = "abandoned"] \in Turn
        BY <2>0 DEF Turn, TurnPCs, EndedAt
  <2>2. turn' \in [Requests -> Turn] BY <1>11, <2>1 DEF Restart, AgentTypeOK
  <2>3. AgentTypeOK' BY <1>11, <2>2, EmptyTypes DEF Restart, AgentTypeOK
  <2>4. SessionTypeOK' BY <1>11 DEF Restart, NoSessions, SessionTypeOK
  <2>5. stream' \in [Requests -> Streams] BY <1>11 DEF Restart, Inv
  <2> QED BY <1>11, <2>3, <2>4, <2>5 DEF Restart, Inv
<1>12. CASE UNCHANGED vars
      BY <1>12 DEF vars, SessionTypeOK, AgentTypeOK, Inv
<1> QED
      BY <1>1, <1>2, <1>3, <1>4, <1>5, <1>6, <1>7, <1>8, <1>9, <1>10, <1>11,
         <1>12 DEF Next, Serve

-----------------------------------------------------------------------------
(* The control invariant.                                                  *)

LEMMA StepTurnInv ==
    ASSUME Inv, [Next]_vars
    PROVE  TurnInv' /\ OwnerInv'
<1> AgentTypeOK /\ SessionTypeOK /\ ScopedSessions /\ TurnInv /\ OwnerInv
    BY DEF Inv, TypeOK
<1> USE DEF agentVars, sessionVars
<1>1. ASSUME NEW e \in Employees, NEW t \in Tokens, Login(e, t)
      PROVE  TurnInv' /\ OwnerInv'
  <2>1. issued[t] = None BY <1>1 DEF Login, CreateSession, FreshToken
  <2>2. \A u \in Tokens \ {t} : issued'[u] = issued[u]
        BY <1>1 DEF Login, CreateSession, SessionTypeOK
  <2>3. UNCHANGED <<turn, graph>> BY <1>1 DEF Login
  <2> QED BY <2>1, <2>2, <2>3 DEF TurnInv, TurnOK, OwnerInv
<1>2. ASSUME UNCHANGED <<turn, graph, issued>> PROVE TurnInv' /\ OwnerInv'
      BY <1>2 DEF TurnInv, TurnOK, OwnerInv
<1>3. ASSUME NEW r \in Requests, NEW t \in Tokens, Chat(r, t)
      PROVE  TurnInv' /\ OwnerInv'
  <2>1. /\ GetSession(t) \in Employees
        /\ GetSession(t) = issued[t]
        BY <1>3
        DEF Chat, Authenticated, GetSession, SessionTypeOK, ScopedSessions
  <2>2. CallTurn(r, t, GetSession(t)) /\ UNCHANGED issued BY <1>3 DEF Chat
  <2>3. /\ TurnInv'
        /\ turn'[r].token = t
        /\ turn'[r].employee = GetSession(t)
        /\ \A q \in Requests \ {r} : turn'[q] = turn[q]
        BY <2>1, <2>2, CallInv
  <2> QED BY <2>1, <2>2, <2>3 DEF OwnerInv
<1>4. ASSUME NEW r \in Requests, RunTurn(r) PROVE TurnInv' /\ OwnerInv'
  <2>1. TurnStep(r) /\ UNCHANGED issued BY <1>4 DEF RunTurn
  <2> QED BY <2>1, TurnStepInv, TurnStepFrame DEF OwnerInv
<1>5. ASSUME NEW r \in Requests, Disconnect(r) PROVE TurnInv' /\ OwnerInv'
  <2>1. CASE CloseTurn(r) /\ UNCHANGED sessionVars
        BY <2>1, AbandonInv DEF CloseTurn, At, OwnerInv
  <2>2. CASE UNCHANGED <<sessionVars, agentVars>> BY <1>2, <2>2
  <2> QED BY <1>5, <2>1, <2>2 DEF Disconnect
<1>6. CASE Restart
  <2>1. UNCHANGED issued BY <1>6 DEF Restart
  <2>2. ASSUME NEW r \in Requests
        PROVE  /\ TurnOK(r)'
               /\ turn'[r].pc = "idle" <=> turn[r].pc = "idle"
               /\ turn'[r].token = turn[r].token
               /\ turn'[r].employee = turn[r].employee
    <3>1. CASE turn[r].pc \in {"idle"} \union EndedAt
          BY <1>6, <3>1 DEF Restart, TurnInv, TurnOK, EndedAt, StreamingAt
    <3>2. CASE turn[r].pc \notin {"idle"} \union EndedAt
      <4>1. turn[r] \in Turn BY DEF AgentTypeOK
      <4>2. turn'[r] = [turn[r] EXCEPT !.pc = "abandoned"]
            BY <1>6, <3>2 DEF Restart
      <4> QED BY <3>2, <4>1, <4>2 DEF TurnInv, TurnOK, Turn, StreamingAt
    <3> QED BY <3>1, <3>2
  <2> QED BY <2>1, <2>2 DEF TurnInv, OwnerInv
<1> QED
      BY <1>1, <1>2, <1>3, <1>4, <1>5, <1>6
      DEF Next, Serve, Logout, DeleteSession, RefuseChat, SendDone, LogQuery,
          SendError, Break, vars

LEMMA StepSessions ==
    ASSUME Inv, [Next]_vars
    PROVE  ScopedSessions'
<1> SessionTypeOK /\ ScopedSessions BY DEF Inv, TypeOK
<1> USE DEF ScopedSessions, SessionTypeOK, sessionVars
<1>1. ASSUME NEW e \in Employees, NEW t \in Tokens, Login(e, t)
      PROVE  ScopedSessions'
      BY <1>1 DEF Login, CreateSession
<1>2. ASSUME NEW t \in Tokens, Logout(t) PROVE ScopedSessions'
      BY <1>2 DEF Logout, DeleteSession
<1>3. CASE Restart BY <1>3 DEF Restart, NoSessions
<1>4. CASE UNCHANGED sessionVars BY <1>4
<1> QED
      BY <1>1, <1>2, <1>3, <1>4
      DEF Next, Serve, Chat, RefuseChat, RunTurn, SendDone, LogQuery, SendError,
          Break, Disconnect, vars

LEMMA Invariant == Spec => []Inv
<1>1. Inv /\ [Next]_vars => Inv'
      BY StepType, StepSessions, StepTurnInv DEF Inv
<1> QED BY <1>1, InitInv, PTL DEF Spec

\* Every variable keeps its type, and with it every message, report and
\* checkpoint of a conversation (api.py, agent.py, session_store.py).
THEOREM TypeCorrect == Spec => []TypeOK
BY Invariant, PTL DEF Inv

-----------------------------------------------------------------------------
(* Tokens.                                                                 *)

\* A token that lost its session, by logout or restart, never has one again
\* and admits no further request (session_store.py:23-34, api.py:42-44).
THEOREM DeadTokens == Spec => DeadTokensStayDead
<1> DEFINE Dead ==
        \A t \in Tokens : issued[t] # None /\ sessions[t] = None =>
            /\ sessions'[t] = None
            /\ \A r \in Requests : At(r, "idle") => turn'[r].token # t
<1>1. ASSUME Inv, [Next]_vars PROVE Dead
  <2> SUFFICES ASSUME NEW t \in Tokens, issued[t] # None, sessions[t] = None
               PROVE  /\ sessions'[t] = None
                      /\ \A r \in Requests : At(r, "idle") => turn'[r].token # t
      OBVIOUS
  <2> AgentTypeOK /\ SessionTypeOK /\ TurnInv BY <1>1 DEF Inv, TypeOK
  <2>1. \A r \in Requests : At(r, "idle") => turn[r].token # t
        BY DEF At, TurnInv, TurnOK, NoTurn
  <2> USE DEF agentVars, sessionVars, SessionTypeOK
  <2>2. ASSUME NEW e \in Employees, NEW u \in Tokens, Login(e, u)
        PROVE  sessions'[t] = None /\ UNCHANGED turn
        BY <2>2 DEF Login, CreateSession, FreshToken
  <2>3. ASSUME NEW u \in Tokens, Logout(u)
        PROVE  sessions'[t] = None /\ UNCHANGED turn
        BY <2>3 DEF Logout, DeleteSession
  <2>4. ASSUME NEW r \in Requests, NEW u \in Tokens, Chat(r, u)
        PROVE  /\ sessions'[t] = None
               /\ \A q \in Requests : At(q, "idle") => turn'[q].token # t
    <3>1. u # t BY <2>4 DEF Chat, Authenticated, GetSession
    <3>2. turn' = [turn EXCEPT ![r] = [NoTurn EXCEPT !.pc = "called",
                                       !.token = u, !.employee = GetSession(u)]]
          BY <2>4 DEF Chat, CallTurn
    <3>3. turn'[r].token = u BY <3>2 DEF AgentTypeOK, NoTurn
    <3>4. \A q \in Requests \ {r} : turn'[q] = turn[q] BY <3>2 DEF AgentTypeOK
    <3> QED BY <2>1, <2>4, <3>1, <3>3, <3>4 DEF Chat
  <2>5. ASSUME NEW r \in Requests, RunTurn(r)
        PROVE  /\ sessions'[t] = None
               /\ \A q \in Requests : At(q, "idle") => turn'[q].token # t
        BY <2>1, <2>5, TurnStepFrame DEF RunTurn, At
  <2>6. ASSUME NEW r \in Requests, Disconnect(r)
        PROVE  /\ sessions'[t] = None
               /\ \A q \in Requests : At(q, "idle") => turn'[q].token # t
        BY <2>1, <2>6 DEF Disconnect, CloseTurn, GoTo, At, AgentTypeOK, Turn
  <2>7. CASE Restart
        BY <2>1, <2>7 DEF Restart, NoSessions, At
  <2>8. CASE UNCHANGED <<sessions, turn>> BY <2>1, <2>8
  <2> QED
        BY <1>1, <2>1, <2>2, <2>3, <2>4, <2>5, <2>6, <2>7, <2>8
        DEF Next, Serve, RefuseChat, SendDone, LogQuery, SendError, Break, vars
<1>2. Inv /\ [Next]_vars => [Dead]_vars BY <1>1
<1> QED BY <1>2, Invariant, PTL DEF Spec, DeadTokensStayDead

-----------------------------------------------------------------------------
(* Records.                                                                *)

\* The messages ms hold nobody's record but that of token t's employee.
ScopedTo(ms, t) == \A i \in 1..Len(ms) : ms[i].about \in {None, issued[t]}

\* RecordScoped says so of what a turn works on; a turn takes that from the
\* checkpoints, so they must be as clean.
ScopeInv ==
    /\ \A g \in Requests, t \in Tokens : ScopedTo(memory[g][t].messages, t)
    /\ \A r \in Requests : ScopedTo(turn[r].state.messages, turn[r].token)

LEMMA ScopedEmpty == \A t : ScopedTo(<< >>, t)
BY DEF ScopedTo

LEMMA ScopedAppend ==
    ASSUME NEW t, NEW ms \in Seq(Message), ScopedTo(ms, t),
           NEW m \in Message, m.about \in {None, issued[t]}
    PROVE  ScopedTo(Append(ms, m), t)
BY AppendProperties DEF ScopedTo

LEMMA ScopedConcat ==
    ASSUME NEW t, NEW ms \in Seq(Message), ScopedTo(ms, t),
           NEW ns \in Seq(Message), ScopedTo(ns, t)
    PROVE  ScopedTo(ms \o ns, t)
<1> SUFFICES ASSUME NEW i \in 1..Len(ms \o ns)
             PROVE  (ms \o ns)[i].about \in {None, issued[t]}
    BY DEF ScopedTo
<1>1. /\ Len(ms) \in Nat /\ Len(ns) \in Nat
      /\ i \in 1..(Len(ms) + Len(ns))
      /\ (ms \o ns)[i] = IF i <= Len(ms) THEN ms[i] ELSE ns[i - Len(ms)]
      BY ConcatProperties, LenProperties
<1>2. CASE i <= Len(ms) BY <1>1, <1>2 DEF ScopedTo
<1>3. CASE ~(i <= Len(ms))
  <2>1. i - Len(ms) \in 1..Len(ns) BY <1>1, <1>3
  <2> QED BY <1>1, <1>3, <2>1 DEF ScopedTo
<1> QED BY <1>2, <1>3

\* Saving a clean state keeps everything clean.
LEMMA ScopedAdvance ==
    ASSUME AgentTypeOK, ScopeInv, NEW r \in Requests, NEW s \in AgentState,
           NEW pc, NEW nodes, Advance(r, s, pc, nodes), UNCHANGED issued,
           turn[r].graph \in Requests, turn[r].token \in Tokens,
           ScopedTo(s.messages, turn[r].token)
    PROVE  ScopeInv'
<1>1. /\ turn'[r].state = s /\ turn'[r].token = turn[r].token
      /\ \A q \in Requests \ {r} : turn'[q] = turn[q]
      BY DEF Advance, AgentTypeOK, Turn
<1>2. \A q \in Requests : ScopedTo(turn[q].state.messages, turn[q].token)'
      BY <1>1 DEF ScopeInv, ScopedTo
<1>3. \A g \in Requests, t \in Tokens :
          memory'[g][t] = IF g = turn[r].graph /\ t = turn[r].token THEN s
                          ELSE memory[g][t]
      BY DEF Advance, Save, AgentTypeOK
<1>4. \A g \in Requests, t \in Tokens : ScopedTo(memory[g][t].messages, t)'
      BY <1>3 DEF ScopeInv, ScopedTo
<1> QED BY <1>2, <1>4 DEF ScopeInv

\* A step that writes neither a checkpoint nor a turn's history.
LEMMA ScopedElsewhere ==
    ASSUME ScopeInv, UNCHANGED <<memory, issued>>,
           \A r \in Requests : /\ turn'[r].token = turn[r].token
                               /\ turn'[r].state = turn[r].state
    PROVE  ScopeInv'
BY DEF ScopeInv, ScopedTo

LEMMA TurnStepScoped ==
    ASSUME AgentTypeOK, TurnInv, OwnerInv, ScopeInv, NEW r \in Requests,
           TurnStep(r), UNCHANGED issued
    PROVE  ScopeInv'
<1> DEFINE s == turn[r].state
           t == turn[r].token
<1>1. /\ s \in AgentState
      /\ s.messages \in Seq(Message) /\ s.tier \in Tiers
      BY DEF AgentTypeOK, Turn, AgentState
<1>2. /\ turn[r].pc # "idle"
      /\ t \in Tokens /\ turn[r].employee \in Employees
      /\ turn[r].employee = issued[t]
      BY TurnStepFrame DEF TurnInv, TurnOK, OwnerInv
<1>3. ScopedTo(s.messages, t) BY DEF ScopeInv
<1>4. ASSUME UNCHANGED memory, turn'[r].state = turn[r].state PROVE ScopeInv'
      BY <1>4, TurnStepFrame, ScopedElsewhere
<1>5. CASE StartStream(r)
  <2>1. turn[r].graph \in Requests
        BY <1>5 DEF StartStream, At, TurnInv, TurnOK, StreamingAt
  <2>2. Thread(r) \in AgentState BY <1>2, <2>1, ThreadType
  <2>3. Thread(r).messages \in Seq(Message) BY <2>2 DEF AgentState
  <2>4. ScopedTo(Thread(r).messages, t) BY <1>2, <2>1 DEF ScopeInv, Thread
  <2>5. HumanMessage(r) \in Message /\ HumanMessage(r).about = None
        BY MessageTypes DEF HumanMessage
  <2>6. /\ Append(Thread(r).messages, HumanMessage(r)) \in Seq(Message)
        /\ ScopedTo(Append(Thread(r).messages, HumanMessage(r)), t)
        BY <2>3, <2>4, <2>5, ScopedAppend, AppendProperties
  <2>7. /\ InputState(r) \in AgentState
        /\ ScopedTo(InputState(r).messages, t)
        BY <1>2, <2>6 DEF InputState, AgentState, Tiers
  <2> QED BY <1>2, <1>5, <2>1, <2>7, ScopedAdvance DEF StartStream
<1>6. ASSUME NEW calls \in CallLists, AgentNode(r, calls) PROVE ScopeInv'
  <2> DEFINE m == AIMessage(r, s.tier, calls)
             next == [s EXCEPT !.messages = Append(@, m)]
  <2>1. turn[r].graph \in Requests
        BY <1>6 DEF AgentNode, At, TurnInv, TurnOK, StreamingAt
  <2>2. m \in Message /\ m.about = None BY <1>1, MessageTypes DEF AIMessage
  <2>3. /\ Append(s.messages, m) \in Seq(Message)
        /\ ScopedTo(Append(s.messages, m), t)
        BY <1>1, <1>3, <2>2, ScopedAppend, AppendProperties
  <2>4. next \in AgentState /\ ScopedTo(next.messages, t)
        BY <1>1, <2>3 DEF AgentState
  <2>5. Advance(r, next, RouteAfterAgent(calls), 1) BY <1>6 DEF AgentNode
  <2> HIDE DEF next
  <2> QED BY <1>2, <2>1, <2>4, <2>5, ScopedAdvance
<1>7. CASE ToolsNode(r)
  <2> DEFINE next == [s EXCEPT !.messages = @ \o ToolResults(r)]
  <2>1. /\ turn[r].graph \in Requests
        /\ s.messages # << >> /\ s.employee = turn[r].employee
        BY <1>7 DEF ToolsNode, At, TurnInv, TurnOK, StreamingAt
  <2>2. /\ PendingCalls(r) \in Seq(Tools)
        /\ ToolResults(r) \in Seq(Message)
        BY <2>1, ToolResultsType
  <2>3. \A tool : ToolResult(r, tool).about \in {None, issued[t]}
        BY <1>2, <2>1 DEF ToolResult, ToolMessage
  <2>4. Len(PendingCalls(r)) \in Nat BY <2>2, LenProperties
  <2>5. /\ Len(ToolResults(r)) = Len(PendingCalls(r))
        /\ \A i \in 1..Len(PendingCalls(r)) :
               ToolResults(r)[i] = ToolResult(r, PendingCalls(r)[i])
        BY <2>2, <2>4, LenProperties DEF ToolResults
  <2>6. ScopedTo(ToolResults(r), t) BY <2>3, <2>5 DEF ScopedTo
  <2>7. /\ s.messages \o ToolResults(r) \in Seq(Message)
        /\ ScopedTo(s.messages \o ToolResults(r), t)
        BY <1>1, <1>3, <2>2, <2>6, ScopedConcat, ConcatProperties
  <2>8. next \in AgentState /\ ScopedTo(next.messages, t)
        BY <1>1, <2>7 DEF AgentState
  <2>9. Advance(r, next, "check", 1) BY <1>7 DEF ToolsNode
  <2> HIDE DEF next
  <2> QED BY <1>2, <2>1, <2>8, <2>9, ScopedAdvance
<1>8. CASE CheckEscalation(r)
  <2> DEFINE next == IF EscalationAsked(s.messages)
                     THEN [s EXCEPT !.tier = "deep", !.escalated = TRUE] ELSE s
  <2>1. turn[r].graph \in Requests
        BY <1>8 DEF CheckEscalation, At, TurnInv, TurnOK, StreamingAt
  <2>2. next \in AgentState /\ next.messages = s.messages
        BY <1>1 DEF AgentState, Tiers
  <2>3. Advance(r, next, "agent", 1) BY <1>8 DEF CheckEscalation
  <2> HIDE DEF next
  <2> QED BY <1>2, <1>3, <2>1, <2>2, <2>3, ScopedAdvance
<1> USE DEF AgentTypeOK, Turn, GoTo, Raise
<1>9. CASE FindGraph(r) BY <1>4, <1>9 DEF FindGraph
<1>10. CASE BuildGraph(r) \/ BuildFails(r)
      BY <1>4, <1>10 DEF BuildGraph, BuildFails
<1>11. CASE ReturnGraph(r) BY <1>4, <1>11 DEF ReturnGraph
<1>12. CASE OpenTurn(r) BY <1>4, <1>12 DEF OpenTurn
<1>13. CASE AgentFails(r) BY <1>4, <1>13 DEF AgentFails
<1>14. CASE ToolsRaise(r) BY <1>4, <1>14 DEF ToolsRaise
<1>15. CASE OutOfSteps(r) BY <1>4, <1>15 DEF OutOfSteps
<1>16. CASE FinishTurn(r) BY <1>4, <1>16 DEF FinishTurn
<1> QED
      BY <1>5, <1>6, <1>7, <1>8, <1>9, <1>10, <1>11, <1>12, <1>13, <1>14,
         <1>15, <1>16 DEF TurnStep

LEMMA InitScoped == Init => ScopeInv
<1> SUFFICES ASSUME Init PROVE ScopeInv OBVIOUS
<1>1. \A g \in Requests, t \in Tokens : memory[g][t].messages = << >>
      BY DEF Init, AgentInit, EmptyMemory, EmptyState
<1>2. \A r \in Requests : turn[r].state.messages = << >>
      BY DEF Init, AgentInit, NoTurn, EmptyState
<1> QED BY <1>1, <1>2, ScopedEmpty DEF ScopeInv

LEMMA StepScoped ==
    ASSUME Inv, ScopeInv, [Next]_vars
    PROVE  ScopeInv'
<1> AgentTypeOK /\ SessionTypeOK /\ TurnInv /\ OwnerInv BY DEF Inv, TypeOK
<1> USE DEF agentVars, sessionVars
<1>1. ASSUME NEW e \in Employees, NEW u \in Tokens, Login(e, u) PROVE ScopeInv'
  <2>1. UNCHANGED <<memory, turn>> BY <1>1 DEF Login
  <2>2. /\ issued[u] = None
        /\ \A t \in Tokens \ {u} : issued'[t] = issued[t]
        BY <1>1 DEF Login, CreateSession, FreshToken, SessionTypeOK
  <2>4. \A r \in Requests : ScopedTo(turn[r].state.messages, turn[r].token)'
    <3> SUFFICES ASSUME NEW r \in Requests
                 PROVE  ScopedTo(turn[r].state.messages, turn[r].token)'
        OBVIOUS
    <3>1. CASE turn[r].pc = "idle"
      <4>1. turn'[r].state.messages = << >>
            BY <2>1, <3>1 DEF TurnInv, TurnOK, NoTurn, EmptyState
      <4> QED BY <4>1 DEF ScopedTo
    <3>2. CASE turn[r].pc # "idle"
      <4>1. turn[r].token \in Tokens /\ issued[turn[r].token] # None
            BY <3>2 DEF TurnInv, TurnOK, OwnerInv
      <4>2. issued'[turn[r].token] = issued[turn[r].token] BY <2>2, <4>1
      <4>3. ScopedTo(turn[r].state.messages, turn[r].token) BY DEF ScopeInv
      <4> QED BY <2>1, <4>2, <4>3 DEF ScopedTo
    <3> QED BY <3>1, <3>2
  <2>5. \A g \in Requests, t \in Tokens : ScopedTo(memory[g][t].messages, t)'
        BY <2>1, <2>2 DEF ScopeInv, ScopedTo
  <2> QED BY <2>4, <2>5 DEF ScopeInv
<1>2. ASSUME UNCHANGED <<memory, turn, issued>> PROVE ScopeInv'
      BY <1>2, ScopedElsewhere
<1>3. ASSUME NEW r \in Requests, NEW t \in Tokens, Chat(r, t) PROVE ScopeInv'
  <2>1. GetSession(t) \in Employees
        BY <1>3 DEF Chat, Authenticated, GetSession, SessionTypeOK
  <2>2. turn'[r].state.messages = << >>
        BY <1>3, <2>1, CallInv DEF Chat, EmptyState
  <2>3. \A q \in Requests \ {r} : turn'[q] = turn[q]
        BY <1>3, <2>1, CallInv DEF Chat
  <2>4. UNCHANGED <<memory, issued>> BY <1>3 DEF Chat, CallTurn
  <2> QED BY <2>2, <2>3, <2>4 DEF ScopeInv, ScopedTo
<1>4. ASSUME NEW r \in Requests, RunTurn(r) PROVE ScopeInv'
      BY <1>4, TurnStepScoped DEF RunTurn
<1>5. ASSUME NEW r \in Requests, Disconnect(r) PROVE ScopeInv'
  <2>1. CASE CloseTurn(r) /\ UNCHANGED sessionVars
        BY <2>1, ScopedElsewhere DEF CloseTurn, GoTo, AgentTypeOK, Turn
  <2>2. CASE UNCHANGED <<sessionVars, agentVars>> BY <1>2, <2>2
  <2> QED BY <1>5, <2>1, <2>2 DEF Disconnect
<1>6. CASE Restart
  <2>1. \A r \in Requests : /\ turn'[r].token = turn[r].token
                            /\ turn'[r].state = turn[r].state
        BY <1>6 DEF Restart, AgentTypeOK, Turn
  <2>2. UNCHANGED issued BY <1>6 DEF Restart
  <2>3. \A g \in Requests, t \in Tokens : memory'[g][t].messages = << >>
        BY <1>6 DEF Restart, EmptyMemory, EmptyState
  <2>4. \A r \in Requests : ScopedTo(turn[r].state.messages, turn[r].token)'
        BY <2>1, <2>2 DEF ScopeInv, ScopedTo
  <2>5. \A g \in Requests, t \in Tokens : ScopedTo(memory[g][t].messages, t)'
        BY <2>3 DEF ScopedTo
  <2> QED BY <2>4, <2>5 DEF ScopeInv
<1> QED
      BY <1>1, <1>2, <1>3, <1>4, <1>5, <1>6
      DEF Next, Serve, Logout, DeleteSession, RefuseChat, SendDone, LogQuery,
          SendError, Break, vars

\* Whatever the model of a turn is shown of anybody's employee record is the
\* record of the employee the turn's token was issued to, for any number of
\* employees, sessions, overlapping requests, logouts and restarts
\* (agent.py:57-65, 202-211; api.py:38-45, 68-78).
THEOREM RecordsAreScoped == Spec => []RecordScoped
<1>1. Inv /\ ScopeInv /\ [Next]_vars => Inv' /\ ScopeInv'
      BY StepType, StepSessions, StepTurnInv, StepScoped DEF Inv
<1>2. ScopeInv => RecordScoped BY DEF ScopeInv, ScopedTo, RecordScoped
<1> QED BY <1>1, <1>2, InitInv, InitScoped, PTL DEF Spec

-----------------------------------------------------------------------------
(* Histories and reports.                                                  *)

\* What a step of the service is to the agent.
LEMMA AgentCases ==
    ASSUME Inv, [Next]_vars
    PROVE  \/ \E r \in Requests : TurnStep(r)
           \/ \E r \in Requests, t \in Tokens, e \in Employees : CallTurn(r, t, e)
           \/ \E r \in Requests : CloseTurn(r)
           \/ Restart
           \/ UNCHANGED agentVars
<1>1. ASSUME NEW r \in Requests, NEW t \in Tokens, Chat(r, t)
      PROVE  \E e \in Employees : CallTurn(r, t, e)
  <2>1. GetSession(t) \in Employees
        BY <1>1 DEF Chat, Authenticated, GetSession, Inv, TypeOK, SessionTypeOK
  <2> QED BY <1>1, <2>1 DEF Chat
<1> QED
      BY <1>1
      DEF Next, Serve, Login, Logout, RefuseChat, RunTurn, SendDone, LogQuery,
          SendError, Break, Disconnect, vars

\* A restart leaves no turn running and no conversation.
LEMMA RestartIs ==
    ASSUME AgentTypeOK, Restart
    PROVE  /\ WritesNothing /\ Quiet
           /\ \A r \in Requests :
                  /\ turn'[r].pc = IF turn[r].pc \in {"idle"} \union EndedAt
                                   THEN turn[r].pc ELSE "abandoned"
                  /\ turn'[r].token = turn[r].token
                  /\ turn'[r].graph = turn[r].graph
                  /\ turn'[r].state = turn[r].state
                  /\ turn'[r].steps = turn[r].steps
                  /\ turn'[r].error = turn[r].error
           /\ \A g \in Requests, t \in Tokens : memory'[g][t].messages = << >>
<1>1. ASSUME NEW r \in Requests
      PROVE  /\ turn'[r].pc = IF turn[r].pc \in {"idle"} \union EndedAt
                              THEN turn[r].pc ELSE "abandoned"
             /\ turn'[r].token = turn[r].token
             /\ turn'[r].graph = turn[r].graph
             /\ turn'[r].state = turn[r].state
             /\ turn'[r].steps = turn[r].steps
             /\ turn'[r].error = turn[r].error
             /\ turn'[r].pc # "abandoned" => turn'[r] = turn[r]
      BY DEF Restart, AgentTypeOK, Turn
<1>2. \A g \in Requests, t \in Tokens : memory'[g][t].messages = << >>
      BY DEF Restart, EmptyMemory, EmptyState
<1>3. WritesNothing BY <1>1, <1>2 DEF WritesNothing, EndedAt
<1>4. Quiet BY <1>1 DEF Quiet, Restart, EndedAt, StreamingAt
<1> QED BY <1>1, <1>2, <1>3, <1>4

TurnsInv == HistInv /\ AloneInv /\ ThreadInv

LEMMA StepTurns ==
    ASSUME Inv, TurnsInv, [Next]_vars
    PROVE  TurnsInv'
<1> AgentTypeOK /\ TurnInv BY DEF Inv, TypeOK
<1> HistInv /\ AloneInv /\ ThreadInv BY DEF TurnsInv
<1>1. ASSUME NEW r \in Requests, TurnStep(r) PROVE TurnsInv'
      BY <1>1, TurnStepHist, TurnStepAlone DEF TurnsInv
<1>2. ASSUME NEW r \in Requests, NEW t \in Tokens, NEW e \in Employees,
             CallTurn(r, t, e)
      PROVE  TurnsInv'
      BY <1>2, CallHist, CallAlone DEF TurnsInv
<1>3. ASSUME NEW r \in Requests, CloseTurn(r) PROVE TurnsInv'
      BY <1>3, AbandonHist, AbandonAlone DEF CloseTurn, TurnsInv
<1>4. CASE Restart
      BY <1>4, RestartIs, HistWritesNothing, QuietAlone DEF TurnsInv
<1>5. CASE UNCHANGED agentVars
  <2>1. WritesNothing /\ Quiet BY <1>5 DEF agentVars, WritesNothing, Quiet
  <2> QED BY <2>1, HistWritesNothing, QuietAlone DEF TurnsInv
<1> QED BY <1>1, <1>2, <1>3, <1>4, <1>5, AgentCases

LEMMA TurnsInvariant == Spec => [](Inv /\ TurnsInv)
<1>1. Init => TurnsInv BY InitHist, InitAlone DEF Init, TurnsInv
<1>2. TurnsInv /\ Inv /\ [Next]_vars => TurnsInv' BY StepTurns
<1> QED BY <1>1, <1>2, Invariant, PTL DEF Spec

\* Within one turn the deep model answers exactly after the light one has
\* asked for it, however turns of the conversation follow each other or
\* overlap, and whatever the turns before escalated (agent.py:132-154, 208).
THEOREM DeepWhenAsked == Spec => []TierDiscipline
<1>1. TurnsInv => TierDiscipline
      BY DEF TurnsInv, HistInv, TierInv, Tiered, AskedBy, Asks, TierDiscipline
<1> QED BY <1>1, TurnsInvariant, PTL

\* A turn makes at most one model call per three nodes, rounded up, of the
\* recursion limit, whatever that limit is (config.py, agent.py:200).
THEOREM CallsAreBudgeted == Spec => []ModelCallBudget
<1>1. ASSUME Inv, TurnsInv PROVE ModelCallBudget
  <2> SUFFICES ASSUME NEW r \in Requests
               PROVE  3 * Cardinality(Answers(turn[r].state.messages, r))
                          <= MaxIterations + 2
      BY DEF ModelCallBudget, Answers
  <2>1. /\ turn[r].steps <= MaxIterations /\ turn[r].steps \in Nat
        /\ 3 * Cardinality(Answers(turn[r].state.messages, r))
               <= turn[r].steps + Ahead(turn[r].pc)
        BY <1>1 DEF TurnsInv, HistInv, BudgetInv, Inv, TypeOK, AgentTypeOK, Turn
  <2>2. Ahead(turn[r].pc) \in Nat /\ Ahead(turn[r].pc) <= 2 BY DEF Ahead
  <2>3. Cardinality(Answers(turn[r].state.messages, r)) \in Nat
        BY <1>1, AnswersCount DEF Inv, TypeOK, AgentTypeOK, Turn, AgentState
  <2> QED BY <2>1, <2>2, <2>3
<1> QED BY <1>1, TurnsInvariant, PTL

\* The done event of a turn that had its conversation to itself reports the
\* tools that turn called, and whether it escalated: nothing of the turns
\* before it, nor of other conversations (agent.py:202-203, 220-234).
THEOREM ReportsAreOwn == Spec => []ReportsOwnTurn
<1>1. TurnsInv => ReportsOwnTurn
      BY DEF TurnsInv, ThreadInv, ThreadOK, OwnReport, Asks, At, ReportsOwnTurn
<1> QED BY <1>1, TurnsInvariant, PTL

-----------------------------------------------------------------------------
(* What every step of the service leaves to a turn.                        *)

\* A request that is called was not known before.
LEMMA CallIs ==
    ASSUME AgentTypeOK, TurnInv, NEW r \in Requests, NEW t \in Tokens,
           NEW e \in Employees, CallTurn(r, t, e)
    PROVE  /\ WritesNothing /\ UNCHANGED <<graph, memory, alone>>
           /\ turn[r].pc = "idle" /\ turn[r].token = None
           /\ turn'[r].pc = "called" /\ turn'[r].token = t
           /\ turn'[r].graph = None /\ turn'[r].error = "none"
           /\ \A q \in Requests \ {r} : turn'[q] = turn[q]
<1>1. turn[r] = NoTurn BY DEF CallTurn, At, TurnInv, TurnOK
<1>2. turn'[r] = [NoTurn EXCEPT !.pc = "called", !.token = t, !.employee = e]
      BY DEF CallTurn, AgentTypeOK
<1>3. /\ turn'[r].state = turn[r].state /\ turn'[r].steps = turn[r].steps
      /\ turn[r].pc = "idle" /\ turn'[r].pc = "called"
      /\ turn[r].token = None /\ turn'[r].token = t
      /\ turn'[r].graph = None /\ turn'[r].error = "none"
      BY <1>1, <1>2 DEF NoTurn
<1>4. /\ \A q \in Requests \ {r} : turn'[q] = turn[q]
      /\ UNCHANGED <<graph, memory, alone>>
      BY CallInv DEF CallTurn
<1>5. WritesNothing BY <1>3, <1>4 DEF WritesNothing, Unstarted
<1> QED BY <1>3, <1>4, <1>5

LEMMA CloseIs ==
    ASSUME AgentTypeOK, NEW r \in Requests, CloseTurn(r)
    PROVE  /\ WritesNothing /\ UNCHANGED <<graph, memory, alone>>
           /\ turn[r].pc \in {"called", "agent"} /\ turn'[r].pc = "abandoned"
           /\ turn'[r].token = turn[r].token
           /\ turn'[r].graph = turn[r].graph
           /\ turn'[r].error = turn[r].error
           /\ \A q \in Requests \ {r} : turn'[q] = turn[q]
BY DEF CloseTurn, GoTo, WritesNothing, AgentTypeOK, Turn, EndedAt

\* Turns keep their token, lose their solitude for good, and keep the error
\* they were raised with.
LEMMA TurnsKept ==
    ASSUME Inv, [Next]_vars
    PROVE  \A r \in Requests :
               /\ alone'[r] => alone[r]
               /\ turn[r].pc # "idle" => turn'[r].token = turn[r].token
               /\ turn[r].pc = "raised" => turn'[r].error = turn[r].error
<1> AgentTypeOK /\ TurnInv BY DEF Inv, TypeOK
<1>1. ASSUME NEW r \in Requests, TurnStep(r)
      PROVE  \A q \in Requests :
                 /\ alone'[q] => alone[q]
                 /\ turn[q].pc # "idle" => turn'[q].token = turn[q].token
                 /\ turn[q].pc = "raised" => turn'[q].error = turn[q].error
  <2>1. \A q \in Requests : alone'[q] => alone[q]
        BY <1>1, StepKinds DEF Writes, Saves, OpenTurn, FinishTurn, Quiet
  <2> QED BY <1>1, <2>1, TurnStepFrame, TurnStepErrors
<1>2. ASSUME NEW r \in Requests, NEW t \in Tokens, NEW e \in Employees,
             CallTurn(r, t, e)
      PROVE  \A q \in Requests :
                 /\ alone'[q] => alone[q]
                 /\ turn[q].pc # "idle" => turn'[q].token = turn[q].token
                 /\ turn[q].pc = "raised" => turn'[q].error = turn[q].error
      BY <1>2, CallIs
<1>3. ASSUME NEW r \in Requests, CloseTurn(r)
      PROVE  \A q \in Requests :
                 /\ alone'[q] => alone[q]
                 /\ turn[q].pc # "idle" => turn'[q].token = turn[q].token
                 /\ turn[q].pc = "raised" => turn'[q].error = turn[q].error
      BY <1>3, CloseIs
<1>4. CASE Restart BY <1>4, RestartIs DEF Restart
<1>5. CASE UNCHANGED agentVars BY <1>5 DEF agentVars
<1> QED BY <1>1, <1>2, <1>3, <1>4, <1>5, AgentCases

\* A conversation whose turns were alone so far had none that was not.
LEMMA AloneBefore ==
    ASSUME Inv, [Next]_vars, NEW t \in Tokens, AllAlone(t)'
    PROVE  AllAlone(t)
<1> SUFFICES ASSUME NEW r \in Requests, turn[r].token = t PROVE alone[r]
    BY DEF AllAlone, TurnsOn
<1>1. turn[r].pc # "idle" BY DEF Inv, TurnInv, TurnOK, NoTurn
<1>2. turn'[r].token = t BY <1>1, TurnsKept
<1>3. alone'[r] BY <1>2 DEF AllAlone, TurnsOn
<1> QED BY <1>3, TurnsKept

-----------------------------------------------------------------------------
(* Graphs and counts, along every step.                                    *)

LEMMA StepOwned ==
    ASSUME Inv, GraphOwned, [Next]_vars
    PROVE  GraphOwned'
<1> AgentTypeOK /\ TurnInv BY DEF Inv, TypeOK
<1>1. ASSUME NEW r \in Requests, TurnStep(r) PROVE GraphOwned'
      BY <1>1, TurnStepOwned
<1>2. ASSUME NEW r \in Requests, NEW t \in Tokens, NEW e \in Employees,
             CallTurn(r, t, e)
      PROVE  GraphOwned'
      BY <1>2, CallIs DEF GraphOwned
<1>3. ASSUME NEW r \in Requests, CloseTurn(r) PROVE GraphOwned'
      BY <1>3, CloseIs DEF GraphOwned
<1>4. CASE Restart
  <2>1. graph' = None BY <1>4 DEF Restart
  <2> QED BY <1>4, <2>1, RestartIs DEF GraphOwned
<1>5. CASE UNCHANGED agentVars BY <1>5 DEF agentVars, GraphOwned
<1> QED BY <1>1, <1>2, <1>3, <1>4, <1>5, AgentCases

LEMMA StepCount ==
    ASSUME Inv, CountInv, [Next]_vars
    PROVE  CountInv'
<1> AgentTypeOK /\ TurnInv BY DEF Inv, TypeOK
<1>1. ASSUME NEW r \in Requests, TurnStep(r) PROVE CountInv'
      BY <1>1, TurnStepCount
<1>2. ASSUME NEW r \in Requests, NEW t \in Tokens, NEW e \in Employees,
             CallTurn(r, t, e)
      PROVE  CountInv'
  <2>1. turn[r].error = "none" /\ turn'[r].error = "none"
        BY <1>2, CallIs DEF CountInv
  <2> QED BY <1>2, <2>1, CallIs, CountElsewhere
<1>3. ASSUME NEW r \in Requests, CloseTurn(r) PROVE CountInv'
      BY <1>3, CloseIs, CountElsewhere
<1>4. CASE Restart BY <1>4, RestartIs, CountElsewhere DEF EndedAt
<1>5. CASE UNCHANGED agentVars BY <1>5 DEF agentVars, CountInv, ResultsDue
<1> QED BY <1>1, <1>2, <1>3, <1>4, <1>5, AgentCases

-----------------------------------------------------------------------------
(* Answered turns are remembered.                                          *)

\* What turn r saw and said is at the front of its conversation.
Remembered(r) ==
    graph = turn[r].graph /\ AllAlone(turn[r].token) =>
        Grows(turn[r].state.messages, memory[graph][turn[r].token].messages)

RememberInv ==
    \A r \in Requests :
        /\ stream[r] \in {"done", "closed"} => turn[r].pc = "done"
        /\ turn[r].pc = "done" => turn[r].graph \in Requests /\ Remembered(r)

\* The turns that were done, and the graph and memory, stay as they are.
LEMMA RememberElsewhere ==
    ASSUME Inv, RememberInv, [Next]_vars, NEW r \in Requests,
           turn[r].pc = "done", turn'[r] = turn[r], UNCHANGED <<graph, memory>>
    PROVE  turn'[r].graph \in Requests /\ Remembered(r)'
<1>1. turn[r].token \in Tokens BY DEF Inv, TurnInv, TurnOK
<1>2. AllAlone(turn[r].token)' => AllAlone(turn[r].token)
      BY <1>1, AloneBefore DEF AllAlone, TurnsOn
<1>3. turn[r].graph \in Requests /\ Remembered(r) BY DEF RememberInv
<1> QED BY <1>2, <1>3 DEF Remembered, Grows

LEMMA RememberWrites ==
    ASSUME Inv, TurnsInv, RememberInv, [Next]_vars, NEW p \in Requests,
           TurnStep(p), Writes(p), NEW r \in Requests, turn'[r].pc = "done"
    PROVE  turn'[r].graph \in Requests /\ Remembered(r)'
<1> AgentTypeOK /\ TurnInv BY DEF Inv, TypeOK
<1>1. PICK st \in AgentState, to \in StreamingAt \ {"opened"} :
          /\ Saves(p, st, to)
          /\ Grows(Base(p), st.messages)
      BY DEF Writes
<1>2. /\ turn'[p].pc = to /\ \A q \in Requests \ {p} : turn'[q] = turn[q]
      /\ turn'[p].token = turn[p].token
      /\ \A g \in Requests, t \in Tokens :
             memory'[g][t] = IF g = turn[p].graph /\ t = turn[p].token
                             THEN st ELSE memory[g][t]
      /\ UNCHANGED <<graph, alone>>
      /\ Base(p) \in Seq(Message) /\ turn[p].pc \in StreamingAt
      BY <1>1 DEF Saves, Writes
<1>3. r # p /\ turn'[r] = turn[r]
      BY <1>1, <1>2 DEF StreamingAt
<1>4. turn[r].pc = "done" BY <1>3
<1>5. turn[r].graph \in Requests /\ turn[r].token \in Tokens /\ Remembered(r)
      BY <1>4 DEF RememberInv, TurnInv, TurnOK
<1> DEFINE g == turn[r].graph
           t == turn[r].token
           ms == turn[r].state.messages
<1>6. SUFFICES ASSUME graph = g, AllAlone(t)'
               PROVE  Grows(ms, memory'[g][t].messages)
      BY <1>2, <1>3, <1>5 DEF Remembered, AllAlone, TurnsOn, Grows
<1>7. Grows(ms, memory[g][t].messages)
      BY <1>3, <1>5, <1>6, AloneBefore DEF Remembered, AllAlone, TurnsOn
<1>8. CASE g = turn[p].graph /\ t = turn[p].token
  <2>1. alone[p] BY <1>2, <1>6, <1>8 DEF AllAlone, TurnsOn
  <2>2. ThreadOK(p) BY <2>1 DEF TurnsInv, ThreadInv
  <2>3. Base(p) = memory[g][t].messages
        BY <1>2, <1>8, <2>2 DEF ThreadOK, Base, Thread, At
  <2>4. ms \in Seq(Message) /\ st.messages \in Seq(Message)
        BY <1>1 DEF AgentTypeOK, Turn, AgentState
  <2>5. Grows(ms, st.messages) BY <1>1, <1>2, <1>7, <2>3, <2>4, GrowsOn
  <2>6. memory'[g][t] = st BY <1>2, <1>5, <1>8
  <2> QED BY <2>5, <2>6
<1>9. CASE ~(g = turn[p].graph /\ t = turn[p].token)
  <2>1. memory'[g][t] = memory[g][t] BY <1>2, <1>5, <1>9
  <2> QED BY <1>7, <2>1
<1> QED BY <1>8, <1>9

LEMMA RememberFinish ==
    ASSUME Inv, TurnsInv, NEW r \in Requests, FinishTurn(r)
    PROVE  turn'[r].graph \in Requests /\ Remembered(r)'
<1> AgentTypeOK /\ TurnInv BY DEF Inv, TypeOK
<1>1. /\ turn[r].pc = "end"
      /\ turn'[r].state = turn[r].state
      /\ turn'[r].token = turn[r].token /\ turn'[r].graph = turn[r].graph
      /\ UNCHANGED <<graph, memory, alone>>
      BY DEF FinishTurn, At, AgentTypeOK, Turn
<1>2. turn[r].graph \in Requests
      BY <1>1 DEF TurnInv, TurnOK, StreamingAt
<1>3. ASSUME graph = turn[r].graph, AllAlone(turn[r].token)'
      PROVE  Grows(turn[r].state.messages,
                   memory[graph][turn[r].token].messages)
  <2>1. alone[r] BY <1>1, <1>3 DEF AllAlone, TurnsOn
  <2>2. Thread(r) = turn[r].state
        BY <1>1, <2>1 DEF TurnsInv, ThreadInv, ThreadOK, StreamingAt
  <2>3. turn[r].state.messages \in Seq(Message)
        BY DEF AgentTypeOK, Turn, AgentState
  <2> QED BY <1>3, <2>2, <2>3, GrowsOn DEF Thread
<1> QED BY <1>1, <1>2, <1>3 DEF Remembered, AllAlone, TurnsOn, Grows

LEMMA RememberTurns ==
    ASSUME Inv, TurnsInv, GraphOwned, RememberInv, [Next]_vars,
           NEW r \in Requests, turn'[r].pc = "done"
    PROVE  turn'[r].graph \in Requests /\ Remembered(r)'
<1> AgentTypeOK /\ TurnInv BY DEF Inv, TypeOK
<1>1. ASSUME NEW p \in Requests, TurnStep(p)
      PROVE  turn'[r].graph \in Requests /\ Remembered(r)'
  <2>1. CASE Writes(p) BY <1>1, <2>1, RememberWrites
  <2>2. CASE FinishTurn(p)
    <3>1. CASE r = p BY <2>2, <3>1, RememberFinish
    <3>2. CASE r # p
      <4>1. turn'[r] = turn[r] /\ UNCHANGED <<graph, memory>>
            BY <1>1, <2>2, <3>2, TurnStepFrame DEF FinishTurn
      <4> QED BY <4>1, RememberElsewhere
    <3> QED BY <3>1, <3>2
  <2>3. CASE OpenTurn(p)
    <3>1. turn'[p].pc = "opened" /\ UNCHANGED <<graph, memory>>
          BY <2>3 DEF OpenTurn, AgentTypeOK, Turn
    <3>2. turn'[r] = turn[r] BY <1>1, <3>1, TurnStepFrame
    <3> QED BY <3>1, <3>2, RememberElsewhere
  <2>4. CASE Quiet /\ UNCHANGED memory
    <3>1. turn'[r] = turn[r] BY <2>4 DEF Quiet
    <3>2. CASE graph' = graph BY <2>4, <3>1, <3>2, RememberElsewhere
    <3>3. CASE graph' = p /\ turn[p].pc = "building"
      <4>1. turn[r].graph # p /\ turn[r].graph \in Requests
            BY <3>1, <3>3 DEF GraphOwned, RememberInv
      <4> QED BY <3>1, <3>3, <4>1 DEF Remembered
    <3> QED BY <1>1, <3>2, <3>3, TurnStepGraph
  <2> QED BY <1>1, <2>1, <2>2, <2>3, <2>4, StepKinds
<1>2. ASSUME NEW p \in Requests, NEW t \in Tokens, NEW e \in Employees,
             CallTurn(p, t, e)
      PROVE  turn'[r].graph \in Requests /\ Remembered(r)'
  <2>1. turn'[r] = turn[r] /\ UNCHANGED <<graph, memory>> BY <1>2, CallIs
  <2> QED BY <2>1, RememberElsewhere
<1>3. ASSUME NEW p \in Requests, CloseTurn(p)
      PROVE  turn'[r].graph \in Requests /\ Remembered(r)'
  <2>1. turn'[r] = turn[r] /\ UNCHANGED <<graph, memory>> BY <1>3, CloseIs
  <2> QED BY <2>1, RememberElsewhere
<1>4. CASE Restart
  <2>1. graph' = None BY <1>4 DEF Restart
  <2>2. turn[r].pc = "done" /\ turn'[r].graph = turn[r].graph
        BY <1>4, RestartIs
  <2>3. turn[r].graph \in Requests BY <2>2 DEF RememberInv
  <2> QED BY <2>1, <2>2, <2>3 DEF Remembered
<1>5. CASE UNCHANGED agentVars
      BY <1>5, RememberElsewhere DEF agentVars
<1> QED BY <1>1, <1>2, <1>3, <1>4, <1>5, AgentCases

\* A response is done, or closed, only after its turn.
LEMMA RememberStreams ==
    ASSUME Inv, RememberInv, [Next]_vars, NEW r \in Requests,
           stream'[r] \in {"done", "closed"}
    PROVE  turn'[r].pc = "done"
<1> AgentTypeOK /\ TurnInv BY DEF Inv, TypeOK
<1> stream \in [Requests -> Streams] BY DEF Inv, TypeOK
<1> USE DEF Respond, agentVars
<1>1. ASSUME NEW p \in Requests, RunTurn(p) PROVE turn'[r].pc = "done"
  <2>1. stream[p] = "open" /\ TurnStep(p) /\ UNCHANGED stream
        BY <1>1 DEF RunTurn
  <2>2. r # p /\ turn[r].pc = "done" BY <2>1 DEF RememberInv
  <2> QED BY <2>1, <2>2, TurnStepFrame
<1>2. ASSUME NEW p \in Requests, NEW t \in Tokens, Chat(p, t)
      PROVE  turn'[r].pc = "done"
  <2>1. stream[p] = "none" /\ stream'[p] = "open"
        /\ \A q \in Requests \ {p} : stream'[q] = stream[q]
        BY <1>2 DEF Chat
  <2>2. r # p /\ turn[r].pc = "done" BY <2>1 DEF RememberInv
  <2>3. \A q \in Requests \ {p} : turn'[q] = turn[q]
        BY <1>2 DEF Chat, CallTurn, AgentTypeOK
  <2> QED BY <2>2, <2>3
<1>3. ASSUME NEW p \in Requests, SendDone(p) PROVE turn'[r].pc = "done"
      BY <1>3 DEF SendDone, At, RememberInv
<1>4. ASSUME NEW p \in Requests, LogQuery(p) PROVE turn'[r].pc = "done"
      BY <1>4 DEF LogQuery, RememberInv
<1>5. ASSUME NEW p \in Requests, SendError(p) \/ Break(p)
      PROVE  turn'[r].pc = "done"
      BY <1>5 DEF SendError, Break, RememberInv
<1>6. ASSUME NEW p \in Requests, Disconnect(p) PROVE turn'[r].pc = "done"
  <2>1. stream'[p] = "gone" /\ \A q \in Requests \ {p} : stream'[q] = stream[q]
        BY <1>6 DEF Disconnect
  <2>2. r # p /\ turn[r].pc = "done" BY <2>1 DEF RememberInv
  <2>3. turn'[r] = turn[r] BY <1>6, <2>2, CloseIs DEF Disconnect
  <2> QED BY <2>2, <2>3
<1>7. ASSUME NEW p \in Requests, NEW t \in Tokens, RefuseChat(p, t)
      PROVE  turn'[r].pc = "done"
      BY <1>7 DEF RefuseChat, RememberInv
<1>8. CASE Restart
  <2>1. stream[r] \in {"done", "closed"} BY <1>8 DEF Restart
  <2>2. turn[r].pc = "done" BY <2>1 DEF RememberInv
  <2> QED BY <1>8, <2>2, RestartIs DEF EndedAt
<1>9. CASE UNCHANGED <<turn, stream>> BY <1>9 DEF RememberInv
<1> QED
      BY <1>1, <1>2, <1>3, <1>4, <1>5, <1>6, <1>7, <1>8, <1>9
      DEF Next, Serve, Login, Logout, vars

LEMMA RememberInvariant ==
    Spec => [](Inv /\ TurnsInv /\ GraphOwned /\ RememberInv)
<1>1. Init => GraphOwned /\ RememberInv
      BY DEF Init, AgentInit, NoTurn, GraphOwned, RememberInv
<1>2. Inv /\ TurnsInv /\ GraphOwned /\ RememberInv /\ [Next]_vars
          => GraphOwned' /\ RememberInv'
      BY StepOwned, RememberTurns, RememberStreams DEF RememberInv
<1> QED BY <1>1, <1>2, TurnsInvariant, PTL DEF Spec

LEMMA GrowsIsPrefix ==
    ASSUME NEW ms \in Seq(Message), NEW ns \in Seq(Message), Grows(ms, ns)
    PROVE  IsPrefix(ms, ns)
<1>1. Len(ms) \in Nat /\ Len(ns) \in Nat /\ Len(ms) <= Len(ns)
      BY LenProperties DEF Grows
<1>2. SubSeq(ms, 1, Len(ms)) = ms BY SubSeqFull
<1>3. /\ SubSeq(ns, 1, Len(ms)) \in Seq(Message)
      /\ Len(SubSeq(ns, 1, Len(ms))) = Len(ms)
      /\ \A i \in 1..Len(ms) : SubSeq(ns, 1, Len(ms))[i] = ns[i]
      BY <1>1, SubSeqProperties
<1>4. SubSeq(ns, 1, Len(ms)) = ms
      BY <1>1, <1>3, SeqEqual DEF Grows
<1> QED BY <1>1, <1>2, <1>4 DEF IsPrefix

\* While turns of a conversation do not overlap, everything an answered turn
\* was shown and said stays at the front of the conversation until the
\* process restarts: through any number of later turns, answered, failed or
\* given up, and of cold-start graphs (agent.py:34, 165).
THEOREM AnswersAreRemembered == Spec => []AnsweredTurnsRemembered
<1>1. ASSUME Inv, RememberInv PROVE AnsweredTurnsRemembered
  <2> SUFFICES ASSUME NEW r \in Requests, stream[r] \in {"done", "closed"},
                      graph = turn[r].graph, AllAlone(turn[r].token)
               PROVE  IsPrefix(turn[r].state.messages,
                               memory[graph][turn[r].token].messages)
      BY DEF AnsweredTurnsRemembered
  <2> DEFINE ms == turn[r].state.messages
             ns == memory[graph][turn[r].token].messages
  <2>1. turn[r].pc = "done" /\ turn[r].graph \in Requests /\ Grows(ms, ns)
        BY <1>1 DEF RememberInv, Remembered
  <2>2. turn[r].token \in Tokens BY <1>1, <2>1 DEF Inv, TurnInv, TurnOK
  <2>3. ms \in Seq(Message) /\ ns \in Seq(Message)
        BY <1>1, <2>1, <2>2 DEF Inv, TypeOK, AgentTypeOK, Turn, AgentState
  <2> HIDE DEF ms, ns
  <2>4. IsPrefix(ms, ns) BY <2>1, <2>3, GrowsIsPrefix
  <2> QED BY <2>4 DEF ms, ns
<1> QED BY <1>1, RememberInvariant, PTL

-----------------------------------------------------------------------------
(* Histories stay usable.                                                  *)

NoToolErrors(t) == \A r \in TurnsOn(t) : turn[r].error \notin {"web", "tool"}

\* The calls that conversation t of graph g lacks results for are being made.
Awaited(g, t) ==
    \E r \in Requests :
        turn[r].pc = "tools" /\ turn[r].token = t /\ turn[r].graph = g

UsableInv ==
    \A t \in Tokens, g \in Requests :
        AllAlone(t) /\ NoToolErrors(t) =>
            ApiAccepts(memory[g][t].messages) \/ Awaited(g, t)

LEMMA NoErrorsBefore ==
    ASSUME Inv, CountInv, [Next]_vars, NEW t \in Tokens, NoToolErrors(t)'
    PROVE  NoToolErrors(t)
<1> SUFFICES ASSUME NEW r \in Requests, turn[r].token = t
             PROVE  turn[r].error \notin {"web", "tool"}
    BY DEF NoToolErrors, TurnsOn
<1>1. turn[r].pc # "idle" BY DEF Inv, TurnInv, TurnOK, NoTurn
<1>2. turn'[r].error \notin {"web", "tool"}
      BY <1>1, TurnsKept DEF NoToolErrors, TurnsOn
<1> QED BY <1>2, TurnsKept DEF CountInv

\* Nobody but an alone turn itself has calls under way in its conversation.
LEMMA NotAwaited ==
    ASSUME TurnsInv, NEW r \in Requests, alone[r], turn[r].pc \in StreamingAt,
           turn[r].pc # "tools"
    PROVE  ~Awaited(turn[r].graph, turn[r].token)
BY DEF TurnsInv, AloneInv, Awaited, StreamingAt

\* A turn saves a history that is in order, or makes the calls it asks for.
LEMMA UsableSaves ==
    ASSUME Inv, CountInv, UsableInv, [Next]_vars, NEW r \in Requests,
           turn[r].pc \in StreamingAt, NEW st, NEW pc, Saves(r, st, pc),
           /\ AllAlone(turn[r].token) /\ NoToolErrors(turn[r].token)
           => ApiAccepts(st.messages) \/ pc = "tools"
    PROVE  UsableInv'
<1> SUFFICES ASSUME NEW t \in Tokens, NEW g \in Requests,
                    AllAlone(t)', NoToolErrors(t)'
             PROVE  ApiAccepts(memory'[g][t].messages) \/ Awaited(g, t)'
    BY DEF UsableInv, ApiAccepts
<1>1. AllAlone(t) /\ NoToolErrors(t) BY AloneBefore, NoErrorsBefore
<1>2. /\ turn'[r].pc = pc /\ turn'[r].token = turn[r].token
      /\ turn'[r].graph = turn[r].graph
      /\ \A q \in Requests \ {r} : turn'[q] = turn[q]
      /\ memory'[g][t] = IF g = turn[r].graph /\ t = turn[r].token
                         THEN st ELSE memory[g][t]
      BY DEF Saves
<1>3. CASE g = turn[r].graph /\ t = turn[r].token
  <2>1. memory'[g][t] = st BY <1>2, <1>3
  <2>2. ApiAccepts(st.messages) \/ pc = "tools" BY <1>1, <1>3
  <2> QED BY <1>2, <1>3, <2>1, <2>2 DEF Awaited
<1>4. CASE ~(g = turn[r].graph /\ t = turn[r].token)
  <2>1. memory'[g][t] = memory[g][t] BY <1>2, <1>4
  <2>2. ASSUME Awaited(g, t) PROVE Awaited(g, t)'
    <3>1. PICK q \in Requests :
              turn[q].pc = "tools" /\ turn[q].token = t /\ turn[q].graph = g
          BY <2>2 DEF Awaited
    <3>2. q # r BY <1>4, <3>1
    <3>3. turn'[q] = turn[q] BY <1>2, <3>2
    <3> QED BY <3>1, <3>3 DEF Awaited
  <2> QED BY <1>1, <2>1, <2>2 DEF UsableInv
<1> QED BY <1>3, <1>4

\* A step that saves nothing leaves calls awaited, unless it gives them up.
LEMMA UsableElsewhere ==
    ASSUME Inv, CountInv, UsableInv, [Next]_vars, UNCHANGED memory,
           \A r \in Requests : turn[r].pc = "tools" =>
               \/ turn'[r] = turn[r]
               \/ turn'[r].token = turn[r].token
                  /\ turn'[r].error \in {"web", "tool"}
    PROVE  UsableInv'
<1> SUFFICES ASSUME NEW t \in Tokens, NEW g \in Requests,
                    AllAlone(t)', NoToolErrors(t)'
             PROVE  ApiAccepts(memory'[g][t].messages) \/ Awaited(g, t)'
    BY DEF UsableInv, ApiAccepts
<1>1. AllAlone(t) /\ NoToolErrors(t) BY AloneBefore, NoErrorsBefore
<1>2. ASSUME Awaited(g, t) PROVE Awaited(g, t)'
  <2>1. PICK q \in Requests :
            turn[q].pc = "tools" /\ turn[q].token = t /\ turn[q].graph = g
        BY <1>2 DEF Awaited
  <2>2. turn'[q] = turn[q] BY <2>1 DEF NoToolErrors, TurnsOn
  <2> QED BY <2>1, <2>2 DEF Awaited
<1> QED BY <1>1, <1>2 DEF UsableInv

LEMMA UsableStart ==
    ASSUME Inv, TurnsInv, CountInv, UsableInv, [Next]_vars,
           NEW r \in Requests, StartStream(r)
    PROVE  UsableInv'
<1> AgentTypeOK /\ TurnInv BY DEF Inv, TypeOK
<1> DEFINE ms == Thread(r).messages
           m  == HumanMessage(r)
<1>1. /\ turn[r].pc = "opened" /\ ms \in Seq(Message) /\ m \in Message
      /\ InputState(r).messages = Append(ms, m)
      /\ Saves(r, InputState(r), "agent")
      BY StartSaves
<1>2. turn[r].graph \in Requests /\ turn[r].token \in Tokens
      BY <1>1 DEF Saves
<1>3. ASSUME AllAlone(turn[r].token), NoToolErrors(turn[r].token)
      PROVE  ApiAccepts(InputState(r).messages)
  <2>1. alone[r] BY <1>3 DEF AllAlone, TurnsOn
  <2>2. ~Awaited(turn[r].graph, turn[r].token)
        BY <1>1, <2>1, NotAwaited DEF StreamingAt
  <2>3. ApiAccepts(ms) BY <1>2, <1>3, <2>2 DEF UsableInv, Thread
  <2>4. m.calls = << >> /\ m.kind # "tool" BY DEF HumanMessage
  <2> HIDE DEF ms, m
  <2> QED BY <1>1, <2>3, <2>4, QuestionKeepsOrder
<1> QED BY <1>1, <1>3, UsableSaves DEF StreamingAt

LEMMA UsableAnswer ==
    ASSUME Inv, CountInv, UsableInv, [Next]_vars, NEW r \in Requests,
           NEW calls \in CallLists, AgentNode(r, calls)
    PROVE  UsableInv'
<1> AgentTypeOK /\ TurnInv BY DEF Inv, TypeOK
<1> DEFINE ms == turn[r].state.messages
           m  == AIMessage(r, turn[r].state.tier, calls)
           pc == IF calls = << >> THEN "end" ELSE "tools"
<1>1. PICK st \in AgentState :
          /\ turn[r].pc = "agent" /\ ApiAccepts(ms) /\ m \in Message
          /\ st.messages = Append(ms, m)
          /\ Saves(r, st, pc)
      BY AnswerSaves
<1>2. ms \in Seq(Message) BY DEF AgentTypeOK, Turn, AgentState
<1>3. m.calls = calls BY DEF AIMessage
<1> HIDE DEF ms, m
<1>4. calls = << >> => ApiAccepts(st.messages) BY <1>1, <1>2, <1>3, AnswerDue
<1>5. ApiAccepts(st.messages) \/ pc = "tools" BY <1>4
<1> HIDE DEF pc
<1> QED BY <1>1, <1>5, UsableSaves DEF StreamingAt

LEMMA UsableResults ==
    ASSUME Inv, CountInv, UsableInv, [Next]_vars, NEW r \in Requests,
           ToolsNode(r)
    PROVE  UsableInv'
<1> AgentTypeOK /\ TurnInv BY DEF Inv, TypeOK
<1> DEFINE ms == turn[r].state.messages
<1>1. PICK st \in AgentState, ns \in Seq(Message) :
          /\ turn[r].pc = "tools" /\ ms # << >>
          /\ Len(ns) = Len(LastMessage(turn[r].state).calls)
          /\ \A i \in 1..Len(ns) : ns[i].kind = "tool" /\ ns[i].calls = << >>
          /\ st.messages = ms \o ns
          /\ Saves(r, st, "check")
      BY ResultsSave
<1>2. ms \in Seq(Message) /\ LastMessage(turn[r].state) = ms[Len(ms)]
      BY DEF AgentTypeOK, Turn, AgentState, LastMessage
<1>3. ResultsDue(ms) BY <1>1 DEF CountInv
<1> HIDE DEF ms
<1>4. ApiAccepts(st.messages) BY <1>1, <1>2, <1>3, ResultsRestoreOrder
<1> QED BY <1>1, <1>4, UsableSaves DEF StreamingAt

LEMMA UsableCheck ==
    ASSUME Inv, TurnsInv, CountInv, UsableInv, [Next]_vars,
           NEW r \in Requests, CheckEscalation(r)
    PROVE  UsableInv'
<1> AgentTypeOK /\ TurnInv BY DEF Inv, TypeOK
<1>1. PICK st \in AgentState :
          /\ turn[r].pc = "check"
          /\ st.messages = turn[r].state.messages
          /\ Saves(r, st, "agent")
      BY CheckSaves
<1>2. turn[r].graph \in Requests /\ turn[r].token \in Tokens
      BY <1>1 DEF Saves
<1>3. ASSUME AllAlone(turn[r].token), NoToolErrors(turn[r].token)
      PROVE  ApiAccepts(st.messages)
  <2>1. alone[r] BY <1>3 DEF AllAlone, TurnsOn
  <2>2. ~Awaited(turn[r].graph, turn[r].token)
        BY <1>1, <2>1, NotAwaited DEF StreamingAt
  <2>3. ApiAccepts(Thread(r).messages) BY <1>2, <1>3, <2>2 DEF UsableInv, Thread
  <2>4. Thread(r) = turn[r].state
        BY <1>1, <2>1 DEF TurnsInv, ThreadInv, ThreadOK, StreamingAt
  <2> QED BY <1>1, <2>3, <2>4
<1> QED BY <1>1, <1>3, UsableSaves DEF StreamingAt

\* The limit never falls on the tools node: results that are due are saved.
LEMMA LimitSparesTools ==
    ASSUME MaxIterations % 3 # 1, AgentTypeOK, HistInv, CountInv,
           NEW r \in Requests, OutOfSteps(r)
    PROVE  turn[r].pc # "tools"
<1>1. turn[r].steps >= MaxIterations BY DEF OutOfSteps, LimitReached
<1>2. turn[r].steps <= MaxIterations BY DEF HistInv, BudgetInv
<1>3. turn[r].steps \in Nat BY DEF AgentTypeOK, Turn
<1>4. turn[r].steps = MaxIterations BY <1>1, <1>2, <1>3
<1> QED BY <1>4 DEF CountInv

LEMMA StepUsable ==
    ASSUME MaxIterations % 3 # 1, Inv, TurnsInv, CountInv, UsableInv,
           [Next]_vars
    PROVE  UsableInv'
<1> AgentTypeOK /\ TurnInv BY DEF Inv, TypeOK
<1>1. ASSUME NEW r \in Requests, TurnStep(r), ~StartStream(r),
             \A calls \in CallLists : ~AgentNode(r, calls),
             ~ToolsNode(r), ~CheckEscalation(r)
      PROVE  UsableInv'
  <2>1. UNCHANGED memory BY <1>1, OtherwiseWritesNothing
  <2>2. \A q \in Requests \ {r} : turn'[q] = turn[q] BY <1>1, TurnStepFrame
  <2>3. turn'[r].token = turn[r].token BY <1>1, TurnStepFrame
  <2>4. ASSUME turn[r].pc = "tools" PROVE turn'[r].error \in {"web", "tool"}
    <3>1. ToolsRaise(r)
      <4>1. ~OutOfSteps(r) BY <2>4, LimitSparesTools DEF TurnsInv
      <4> QED BY <1>1, <2>4, <4>1
              DEF TurnStep, FindGraph, BuildGraph, BuildFails, ReturnGraph,
                  OpenTurn, AgentFails, FinishTurn, At
    <3>2. \A tool : ToolErrors(tool) \subseteq {"web", "tool"}
          BY DEF ToolErrors
    <3> QED BY <3>1, <3>2 DEF ToolsRaise, Raise, AgentTypeOK, Turn
  <2> QED BY <2>1, <2>2, <2>3, <2>4, UsableElsewhere
<1>2. ASSUME NEW r \in Requests, TurnStep(r) PROVE UsableInv'
      BY <1>1, <1>2, UsableStart, UsableAnswer, UsableResults, UsableCheck
<1>3. ASSUME NEW r \in Requests, NEW t \in Tokens, NEW e \in Employees,
             CallTurn(r, t, e)
      PROVE  UsableInv'
      BY <1>3, CallIs, UsableElsewhere
<1>4. ASSUME NEW r \in Requests, CloseTurn(r) PROVE UsableInv'
      BY <1>4, CloseIs, UsableElsewhere
<1>5. CASE Restart
  <2>1. ApiAccepts(<< >>)
    <3>1. Len(<< >>) = 0 BY EmptySeq
    <3> QED BY <3>1 DEF ApiAccepts
  <2>2. \A g \in Requests, t \in Tokens : ApiAccepts(memory'[g][t].messages)
        BY <1>5, <2>1, RestartIs
  <2> QED BY <2>2 DEF UsableInv, ApiAccepts
<1>6. CASE UNCHANGED agentVars
      BY <1>6, UsableElsewhere DEF agentVars
<1> QED BY <1>2, <1>3, <1>4, <1>5, <1>6, AgentCases

LEMMA InitUsable == Init => CountInv /\ UsableInv
<1> SUFFICES ASSUME Init PROVE CountInv /\ UsableInv OBVIOUS
<1>1. ApiAccepts(<< >>)
  <2>1. Len(<< >>) = 0 BY EmptySeq
  <2> QED BY <2>1 DEF ApiAccepts
<1>2. /\ \A r \in Requests : turn[r] = NoTurn
      /\ \A g \in Requests, t \in Tokens : memory[g][t].messages = << >>
      BY DEF Init, AgentInit, EmptyMemory, EmptyState
<1>3. CountInv BY <1>2 DEF NoTurn, CountInv
<1> QED BY <1>1, <1>2, <1>3 DEF UsableInv

\* Between turns that did not overlap, the Messages API accepts the history
\* unless a tool raised: hanging up, failed model calls and the recursion
\* limit leave conversations that can go on.  The limit must not leave a
\* remainder of one in threes, or it falls between an answer's calls and
\* their results; the code's MAX_ITERATIONS = 12 does not (config.py:25,
\* agent.py:156-165, 200).
THEOREM HistoriesStayUsable ==
    ASSUME MaxIterations % 3 # 1
    PROVE  Spec => []HistoryStaysUsable
<1>1. Inv /\ TurnsInv /\ CountInv /\ UsableInv /\ [Next]_vars
          => CountInv' /\ UsableInv'
      BY StepCount, StepUsable
<1>2. UsableInv => HistoryStaysUsable
  <2> SUFFICES ASSUME UsableInv, NEW t \in Tokens, NEW g \in Requests,
                      Running(t) = {}, AllAlone(t), NoToolErrors(t)
               PROVE  ApiAccepts(memory[g][t].messages)
      BY DEF HistoryStaysUsable, NoToolErrors
  <2>1. ~Awaited(g, t) BY DEF Awaited, Running, StreamingAt
  <2> QED BY <2>1 DEF UsableInv
<1> QED BY <1>1, <1>2, InitUsable, TurnsInvariant, PTL DEF Spec

=============================================================================
