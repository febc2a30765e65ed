--------------------------- MODULE MCChatService ---------------------------
(***************************************************************************)
(* ChatService on small instances.  The answers of the model are chosen so *)
(* that every route of the graph is taken: an answer, a record lookup, a   *)
(* web search (whose failure the API layer catches), a policy search       *)
(* (whose failure it does not), alone and beside an escalation.            *)
(***************************************************************************)
EXTENDS ChatClaims

ShortCallLists ==
    {<< >>, <<"search_employee_record", "search_web">>}

AllCallLists ==
    {<< >>,
     <<"search_employee_record">>,
     <<"search_web">>,
     <<"search_policy_db", "escalate_to_deep_reasoning">>}

\* Nothing tells one employee, token or request from another.
Symmetry ==
    Permutations(Employees) \union Permutations(Tokens)
        \union Permutations(Requests)

=============================================================================
