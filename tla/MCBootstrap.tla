----------------------------- MODULE MCBootstrap -----------------------------
(* Bootstrap on small instances. *)
EXTENDS Bootstrap, TLC

CONSTANTS e1, e2, employees, leaves, expenses

MCCatalog == <<leaves, expenses>>

\* Everybody has a core record; not everybody has a row in each other table.
MCRows ==
    (employees :> {e1, e2}) @@ (leaves :> {e1, e2}) @@ (expenses :> {e1})

=============================================================================
