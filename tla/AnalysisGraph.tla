---------------------------- MODULE AnalysisGraph ----------------------------
(***************************************************************************)
(* The constant part of the analysis workflow: the two enumerations that   *)
(* the session row stores, the nodes of the LangGraph graph, its edges,    *)
(* and the status that each node writes before it works.                   *)
(***************************************************************************)

(* The values of AnalysisStatus. *)
AnalysisStatus ==
  {"pending", "validating", "introspecting", "analyzing_project", "modeling",
   "analyzing_performance", "analyzing_security", "merging",
   "generating_erd", "awaiting_approval", "approved", "rejected",
   "generating_sql", "updating_openproject", "completed", "failed"}

ApprovalState == {"pending", "approved", "rejected"}

(* What a reviewer can decide. *)
Decision == {"approved", "rejected"}

Nodes ==
  {"validate_input", "analyze_project", "model_schema",
   "analyze_performance", "analyze_security", "merge_results",
   "generate_erd", "await_approval", "generate_sql", "update_openproject"}

(* The status each node persists as its first statement. *)
StatusOf == [n \in Nodes |->
  CASE n = "validate_input"      -> "introspecting"
    [] n = "analyze_project"     -> "analyzing_project"
    [] n = "model_schema"        -> "modeling"
    [] n = "analyze_performance" -> "analyzing_performance"
    [] n = "analyze_security"    -> "analyzing_security"
    [] n = "merge_results"       -> "merging"
    [] n = "generate_erd"        -> "generating_erd"
    [] n = "await_approval"      -> "awaiting_approval"
    [] n = "generate_sql"        -> "generating_sql"
    [] n = "update_openproject"  -> "updating_openproject"]

(* Mutant: the router lets anything but a rejection through.               *)
RouteByDefault(approval) ==
  IF approval = "rejected" THEN {"analyze_project"} ELSE {"generate_sql"}

(* The router behind the gate.  A pending decision routes to END. *)
RouteAfterApproval(approval) ==
  CASE approval = "approved" -> {"generate_sql"}
    [] approval = "rejected" -> {"analyze_project"}
    [] OTHER                 -> {}

(* Mutant: the fan-out sends only one branch.                              *)
EdgesOneBranch(n, approval) ==
  CASE n = "validate_input"      -> {"analyze_project"}
    [] n = "analyze_project"     -> {"model_schema"}
    [] n = "model_schema"        -> {"analyze_performance"}
    [] n = "analyze_performance" -> {"merge_results"}
    [] n = "merge_results"       -> {"generate_erd"}
    [] n = "generate_erd"        -> {"await_approval"}
    [] n = "await_approval"      -> RouteAfterApproval(approval)
    [] n = "generate_sql"        -> {"update_openproject"}
    [] OTHER                     -> {}

(* The edges that leave a node, given the approval channel.  An empty set  *)
(* is END.  The two branches of the fan-out both lead to the merge.        *)
EdgesFrom(n, approval) ==
  CASE n = "validate_input"      -> {"analyze_project"}
    [] n = "analyze_project"     -> {"model_schema"}
    [] n = "model_schema"        -> {"analyze_performance", "analyze_security"}
    [] n = "analyze_performance" -> {"merge_results"}
    [] n = "analyze_security"    -> {"merge_results"}
    [] n = "merge_results"       -> {"generate_erd"}
    [] n = "generate_erd"        -> {"await_approval"}
    [] n = "await_approval"      -> RouteAfterApproval(approval)
    [] n = "generate_sql"        -> {"update_openproject"}
    [] OTHER                     -> {}

(* interrupt_before of the compiled graph. *)
InterruptBefore == {"await_approval"}

(* Nodes that raise "Missing relational_model" when the channel is empty. *)
ReadsModel == {"analyze_performance", "analyze_security", "generate_erd",
               "generate_sql"}
=============================================================================
