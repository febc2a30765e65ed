---------------------------- MODULE MCTerminal ----------------------------
(***************************************************************************)
(* TerminalClient on a small instance, with the answers of the model that  *)
(* take every route of the graph.                                          *)
(***************************************************************************)
EXTENDS TerminalClient

MCCallLists ==
    {<< >>,
     <<"search_web">>,
     <<"search_policy_db", "escalate_to_deep_reasoning">>}

=============================================================================
