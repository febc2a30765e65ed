---------------------------- MODULE Conversation ----------------------------
(***************************************************************************)
(* What a conversation promises a caller who waits for each turn to end    *)
(* before asking again (TECHNICAL_OVERVIEW.md, "Request lifecycle"):       *)
(*   - a turn ends by being answered or by failing;                        *)
(*   - what has been said stays said, and is only ever added to by the     *)
(*     turn under way;                                                     *)
(*   - an answered turn ends with its answer;                              *)
(*   - only a turn that fails can make the conversation unusable, and no   *)
(*     turn is answered afterwards.                                        *)
(***************************************************************************)
EXTENDS Naturals, Sequences, SequencesExt

CONSTANT Turns

VARIABLES
    history,    \* the messages so far; message m is of turn m.by
    outcome,    \* outcome[r]: what has become of turn r
    usable      \* whether a further turn can be answered

vars == <<history, outcome, usable>>

Init ==
    /\ history = << >>
    /\ outcome = [r \in Turns |-> "none"]
    /\ usable = TRUE

Running(r) == outcome[r] = "running"

Begin(r) ==
    /\ \A q \in Turns : ~Running(q)
    /\ outcome[r] = "none"
    /\ outcome' = [outcome EXCEPT ![r] = "running"]
    /\ UNCHANGED <<history, usable>>

Say(r) ==
    /\ Running(r)
    /\ IsPrefix(history, history')
    /\ \A i \in (Len(history) + 1)..Len(history') : history'[i].by = r
    /\ UNCHANGED <<outcome, usable>>

Answer(r) ==
    /\ Running(r)
    /\ usable
    /\ history # << >>
    /\ history[Len(history)].by = r
    /\ outcome' = [outcome EXCEPT ![r] = "answered"]
    /\ UNCHANGED <<history, usable>>

Fail(r) ==
    /\ Running(r)
    /\ outcome' = [outcome EXCEPT ![r] = "failed"]
    /\ usable' \in {usable, FALSE}
    /\ UNCHANGED history

Next == \E r \in Turns : Begin(r) \/ Say(r) \/ Answer(r) \/ Fail(r)

Spec == Init /\ [][Next]_vars

=============================================================================
