------------------------- MODULE MCAnalysisWorkflow -------------------------
(* Small instances of AnalysisWorkflow.  Reviewers' requests are           *)
(* interchangeable: each is only its place in the functions over Requests. *)
EXTENDS AnalysisInductive, TLC

RequestSymmetry == Permutations(Requests)
=============================================================================
