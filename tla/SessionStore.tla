---------------------------- MODULE SessionStore ----------------------------
(***************************************************************************)
(* hr_rag/session_store.py: the in-memory map from bearer token to the     *)
(* employee who logged in.  The map says who a token is; what was said     *)
(* under the token is kept elsewhere (AgentGraph), under the same key.     *)
(*                                                                         *)
(* secrets.token_urlsafe(32) is modelled by what callers rely on: it       *)
(* returns a token that was never returned before, not even by an earlier  *)
(* process.  The ghost variable issued remembers every token ever handed   *)
(* out and to whom; the code keeps no such record.                         *)
(***************************************************************************)

EXTENDS Portal

VARIABLES
    sessions,       \* _SESSIONS: the employee of each live token, or None
    issued          \* ghost: the employee each token was ever issued to

sessionVars == <<sessions, issued>>

SessionTypeOK ==
    /\ sessions \in [Tokens -> Employees \union {None}]
    /\ issued \in [Tokens -> Employees \union {None}]

NoSessions == [t \in Tokens |-> None]

SessionInit ==
    /\ sessions = NoSessions
    /\ issued = [t \in Tokens |-> None]

\* Mutant: a token may come back once its session is gone.
FreshTokenReused(t) == sessions[t] = None

FreshToken(t) == issued[t] = None

CreateSession(e, t) ==
    /\ FreshToken(t)
    /\ sessions' = [sessions EXCEPT ![t] = e]
    /\ issued' = [issued EXCEPT ![t] = e]

\* Mutant: the lookup still finds a deleted session.
GetSessionDeleted(t) == issued[t]

GetSession(t) == sessions[t]

DeleteSession(t) ==
    /\ sessions' = [sessions EXCEPT ![t] = None]
    /\ UNCHANGED issued

=============================================================================
