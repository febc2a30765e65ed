---------------------------- MODULE ChatService ----------------------------
(***************************************************************************)
(* api.py: the web layer.  It composes the session store and the agent:    *)
(* a chat request is admitted against the session store, then streamed by  *)
(* a generator that runs one turn of the agent after the handler returned. *)
(* Each request runs in a thread of its own, so the steps of requests,     *)
(* logins and logouts interleave; the client may hang up and the process   *)
(* may be restarted at any moment.                                         *)
(***************************************************************************)
EXTENDS AgentGraph, SessionStore, SequencesExt

VARIABLES
    stream,     \* stream[r]: what request r's HTTP response has come to
    logged      \* logged[r]: JSON lines logged for request r

vars == <<agentVars, sessionVars, stream, logged>>

\* "done" is a stream whose done event is out and whose log line is not yet.
Streams ==
    {"none", "401", "open", "done", "closed", "error", "broken", "gone"}

TypeOK ==
    /\ SessionTypeOK
    /\ AgentTypeOK
    /\ stream \in [Requests -> Streams]
    /\ logged \in [Requests -> Nat]

Init ==
    /\ SessionInit
    /\ AgentInit
    /\ stream = [r \in Requests |-> "none"]
    /\ logged = [r \in Requests |-> 0]

Respond(r, from, to) ==
    /\ stream[r] = from
    /\ stream' = [stream EXCEPT ![r] = to]

\* log_query and log_error each write one line.
LogLine(r) == logged' = [logged EXCEPT ![r] = @ + 1]

-----------------------------------------------------------------------------
(* Handlers.                                                               *)

\* POST /login with a password that verifies; any other login is a 401 that
\* changes nothing.
Login(e, t) ==
    /\ CreateSession(e, t)
    /\ UNCHANGED <<agentVars, stream, logged>>

Authenticated(t) == GetSession(t) # None

Logout(t) ==
    /\ Authenticated(t)
    /\ DeleteSession(t)
    /\ UNCHANGED <<agentVars, stream, logged>>

\* POST /chat: the session is looked up now, the turn runs later.
Chat(r, t) ==
    /\ Authenticated(t)
    /\ CallTurn(r, t, GetSession(t))
    /\ Respond(r, "none", "open")
    /\ UNCHANGED <<sessionVars, logged>>

RefuseChat(r, t) ==
    /\ ~Authenticated(t)
    /\ Respond(r, "none", "401")
    /\ UNCHANGED <<sessionVars, agentVars, logged>>

-----------------------------------------------------------------------------
(* event_stream.                                                           *)

RunTurn(r) ==
    /\ stream[r] = "open"
    /\ TurnStep(r)
    /\ UNCHANGED <<sessionVars, stream, logged>>

SendDone(r) ==
    /\ At(r, "done")
    /\ Respond(r, "open", "done")
    /\ UNCHANGED <<sessionVars, agentVars, logged>>

LogQuery(r) ==
    /\ Respond(r, "done", "closed")
    /\ LogLine(r)
    /\ UNCHANGED <<sessionVars, agentVars>>

\* anthropic.AnthropicError and GraphRecursionError
Caught == {"model", "limit", "web"}

SendError(r) ==
    /\ At(r, "raised")
    /\ turn[r].error \in Caught
    /\ Respond(r, "open", "error")
    /\ LogLine(r)
    /\ UNCHANGED <<sessionVars, agentVars>>

\* Any other exception escapes the generator and cuts the response off.
Break(r) ==
    /\ At(r, "raised")
    /\ turn[r].error \notin Caught
    /\ Respond(r, "open", "broken")
    /\ UNCHANGED <<sessionVars, agentVars, logged>>

\* The client hangs up: the generator is closed where it is suspended, before
\* its first step, at a streamed token or at the done event.
Disconnect(r) ==
    \/ /\ CloseTurn(r)
       /\ Respond(r, "open", "gone")
       /\ UNCHANGED <<sessionVars, logged>>
    \/ /\ Respond(r, "done", "gone")
       /\ UNCHANGED <<sessionVars, agentVars, logged>>

\* Everything but the log lives in the process.
Restart ==
    /\ sessions' = NoSessions
    /\ graph' = None
    /\ memory' = EmptyMemory
    /\ turn' = [r \in Requests |->
                   IF turn[r].pc \in {"idle"} \union EndedAt THEN turn[r]
                   ELSE [turn[r] EXCEPT !.pc = "abandoned"]]
    /\ stream' = [r \in Requests |->
                     IF stream[r] \in {"open", "done"} THEN "gone" ELSE stream[r]]
    /\ UNCHANGED <<issued, alone, logged>>

\* What the server does for request r of its own accord.
Serve(r) ==
    \/ RunTurn(r)
    \/ SendDone(r)
    \/ LogQuery(r)
    \/ SendError(r)
    \/ Break(r)

Next ==
    \/ \E e \in Employees, t \in Tokens : Login(e, t)
    \/ \E t \in Tokens : Logout(t)
    \/ \E r \in Requests, t \in Tokens : Chat(r, t) \/ RefuseChat(r, t)
    \/ \E r \in Requests : Serve(r) \/ Disconnect(r)
    \/ Restart

Spec == Init /\ [][Next]_vars

\* A request's thread is scheduled until its response ends; every call it
\* makes (model API, tools) returns or raises.  Clients and crashes are free.
FairSpec == Spec /\ \A r \in Requests : WF_vars(Serve(r))

-----------------------------------------------------------------------------
(* Properties.                                                             *)

TurnsOn(t) == {r \in Requests : turn[r].token = t}

AllAlone(t) == \A r \in TurnsOn(t) : alone[r]

\* Whatever the model of a turn is shown of anybody's employee record is the
\* record of the employee the turn's token was issued to, however tokens,
\* logouts, restarts and earlier turns of the conversation interleave
\* (InjectedState in search_employee_record, agent.py:57-65).
RecordScoped ==
    \A r \in Requests : \A i \in 1..Len(turn[r].state.messages) :
        turn[r].state.messages[i].about \in {None, issued[turn[r].token]}

\* Within one turn the deep model answers exactly after the light one has
\* asked for it: escalation lasts to the end of the turn and no longer, even
\* when earlier turns of the conversation escalated (agent.py:132-154,208).
TierDiscipline ==
    \A r \in Requests :
        LET ms == turn[r].state.messages
        IN  \A i \in 1..Len(ms) : ms[i].kind = "ai" =>
                (ms[i].tier = "deep"
                    <=> \E j \in 1..(i - 1) :
                            /\ ms[j].by = ms[i].by
                            /\ \E k \in 1..Len(ms[j].calls) :
                                   ms[j].calls[k] = Escalate)

\* A turn makes at most one model call per three nodes, rounded up, of the
\* recursion limit: MAX_ITERATIONS = 12 pays for four (config.py, agent.py:200).
ModelCallBudget ==
    \A r \in Requests :
        LET ms == turn[r].state.messages
        IN  3 * Cardinality({i \in 1..Len(ms) : ms[i].kind = "ai" /\ ms[i].by = r})
                <= MaxIterations + 2

\* The done event of a turn that had its conversation to itself reports the
\* tools that turn called, and whether it escalated: nothing of the turns
\* before it (agent.py:202-203, 220-234).
ReportsOwnTurn ==
    \A r \in Requests : At(r, "done") /\ alone[r] =>
        LET ms  == turn[r].state.messages
            own == {i \in 1..Len(ms) : ms[i].by = r}
        IN  turn[r].report =
                [tools     |-> ToolsCalled(ms, own),
                 escalated |-> \E i \in own : \E k \in 1..Len(ms[i].calls) :
                                   ms[i].calls[k] = Escalate]

\* While turns of a conversation do not overlap, everything an answered turn
\* was shown and said stays at the front of the conversation until the
\* process restarts (agent.py:34, 165; multi-turn memory).
AnsweredTurnsRemembered ==
    \A r \in Requests :
        LET t == turn[r].token IN
        /\ stream[r] \in {"done", "closed"}
        /\ graph = turn[r].graph
        /\ AllAlone(t)
        => IsPrefix(turn[r].state.messages, memory[graph][t].messages)

\* Between turns that did not overlap, the Messages API accepts the history
\* unless a tool raised: hanging up, a failed model call and the recursion
\* limit all leave a conversation that can go on (agent.py:156-165).
HistoryStaysUsable ==
    \A t \in Tokens, g \in Requests :
        /\ Running(t) = {}
        /\ AllAlone(t)
        /\ \A r \in TurnsOn(t) : turn[r].error \notin {"web", "tool"}
        => ApiAccepts(memory[g][t].messages)

\* A token that lost its session, by logout or restart, never has one again
\* and admits no further request (session_store.py:23-34, api.py:42-44).
DeadTokensStayDead ==
    [][\A t \in Tokens :
          issued[t] # None /\ sessions[t] = None =>
              /\ sessions'[t] = None
              /\ \A r \in Requests : At(r, "idle") => turn'[r].token # t]_vars

\* Every admitted chat request's response ends (api.py:72-112), whatever the
\* model answers and whatever fails.
ResponsesEnd ==
    \A r \in Requests :
        stream[r] = "open" ~> stream[r] \in {"closed", "error", "broken", "gone"}

=============================================================================
