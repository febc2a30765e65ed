----------------------------- MODULE ChatClaims -----------------------------
(***************************************************************************)
(* What the documents and docstrings of the repository say of a chat turn  *)
(* that the code does not keep.  Each is refuted by a run of its own.      *)
(***************************************************************************)
EXTENDS ChatService

\* "LangGraph's add_messages reducer appends the new turn's messages onto
\* whatever's already checkpointed for that thread_id"
\* (TECHNICAL_OVERVIEW.md:318): but for a restart, a conversation only grows.
ConversationOnlyGrows ==
    [][\A g \in Requests, t \in Tokens :
          \/ IsPrefix(memory[g][t].messages, memory'[g][t].messages)
          \/ graph # None /\ graph' = None]_vars

\* "SSE error event -- graceful fallback message shown, session untouched"
\* (TECHNICAL_OVERVIEW.md:288): after an error event, with no other turn
\* under way, the conversation can go on.
ErrorLeavesSessionUsable ==
    \A r \in Requests :
        LET t == turn[r].token IN
        /\ stream[r] = "error"
        /\ graph = turn[r].graph
        /\ AllAlone(t)
        /\ Running(t) = {}
        => ApiAccepts(memory[graph][t].messages)

=============================================================================
