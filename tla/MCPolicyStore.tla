--------------------------- MODULE MCPolicyStore ---------------------------
(***************************************************************************)
(* PolicyStore on small instances.                                         *)
(***************************************************************************)
EXTENDS PolicyClaims

\* One chunk, or all of them; the store is empty only during an ingest.
GrowingFolders ==
    LET first == CHOOSE id \in Ids : TRUE
    IN  UNION {{[id \in Ids |-> IF id \in present THEN text ELSE None] :
                    present \in {{first}, Ids}} : text \in Texts}

\* For searches without an ingest: no chunk up to all of them, each with a text
\* of its own.
NumberedIds == 1..4

OwnText(id) == 10 + id

OwnTexts == {OwnText(id) : id \in NumberedIds}

NumberedFolders ==
    {[id \in NumberedIds |-> IF id <= n THEN OwnText(id) ELSE None] : n \in 0..4}

=============================================================================
