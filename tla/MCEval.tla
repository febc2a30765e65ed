------------------------------ MODULE MCEval ------------------------------
(***************************************************************************)
(* EvalHarness on corpora of four chunks, more than the pool, which is     *)
(* more than the results, of as many chunks as results, of fewer, and of   *)
(* none: golden queries with one and with two answers.                     *)
(***************************************************************************)
EXTENDS EvalHarness

MCIds == {"c1", "c2", "c3", "c4"}

MCCorpora == {MCIds, {"c2", "c3"}, {"c1"}, {"c2"}, {}}

MCGolden == <<{"c1"}, {"c2", "c3"}, {"c4"}>>

=============================================================================
