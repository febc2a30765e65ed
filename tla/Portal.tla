------------------------------- MODULE Portal -------------------------------
(***************************************************************************)
(* The names every component of the HR portal shares: who can log in, the  *)
(* bearer tokens that tie a request to a login and to a conversation, and  *)
(* Python's None.                                                          *)
(***************************************************************************)

CONSTANTS
    Employees,      \* employee ids that can log in
    Tokens,         \* the tokens that can be handed out (bounds the logins)
    None

ASSUME NoneAssumption == None \notin Employees /\ None \notin Tokens

=============================================================================
