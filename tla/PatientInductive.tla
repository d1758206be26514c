--------------------------- MODULE PatientInductive ---------------------------
(***************************************************************************)
(* The inductive invariant behind the safety properties of PatientReview.  *)
(* What a patient reviewer adds to IInv is that one task at a time acts on *)
(* the session; so the model in its memory, the checkpoint, the snapshot   *)
(* and the artifacts move together, the row's status tells how far it has  *)
(* come, and at most one delivery ever begins.                             *)
(***************************************************************************)
EXTENDS PatientReview, AnalysisInductive

Asked == row.status = "awaiting_approval"

Delivering ==
  row.status \in {"generating_sql", "updating_openproject", "completed"}

OneDriver == \A p, q \in Procs : Live(p) /\ Live(q) => p = q

NotBegun ==
  /\ pc[Starter] = "idle" => row.status = "absent"
  /\ pc[Starter] = "queued" => row.status = "pending"

(* What the reviewer is asked about is one model throughout.               *)
AskedAboutOne ==
  Asked => /\ checkpoint.values.model = artifacts.diagram
           /\ snapshot.model = artifacts.diagram

(* A decision on its way: it was made on the diagram that is still shown,  *)
(* and the row, then the checkpoint, repeat it.                            *)
DecisionStands(r) ==
  /\ Live(r) /\ pc[r] # "running" =>
       Asked /\ request[r].shown = artifacts.diagram
  /\ pc[r] = "accepted" => row.approval = request[r].readApproval
  /\ pc[r] \in {"queued", "updating", "invoking"} =>
       row.approval = request[r].decision
  /\ pc[r] = "updating" => vals[r].model = checkpoint.values.model
  /\ pc[r] = "invoking" =>
       checkpoint.next = RouteAfterApproval(request[r].decision)

DecisionsStand == \A r \in Requests : DecisionStands(r)

(* A running graph holds the checkpoint's model until model_schema makes   *)
(* another, and the snapshot and the artifacts follow from it; and while   *)
(* the row awaits approval it has just drawn the diagram, or has not begun *)
(* to act on a decision.                                                   *)
InStep(p) ==
  /\ Scheduling(p) # {}
  /\ task[p]["await_approval"] = "off"
  /\ task[p]["model_schema"] # "done" =>
       vals[p].model = checkpoint.values.model
  /\ task[p]["merge_results"] = "done" \/ task[p]["generate_erd"] # "off" =>
       snapshot.model = vals[p].model
  /\ task[p]["generate_erd"] \in {"announce", "done"} =>
       artifacts.diagram = vals[p].model
  /\ task[p]["generate_erd"] = "done" => vals[p].diagram = vals[p].model
  /\ Asked => \A n \in Scheduling(p) :
       \/ n = "generate_erd" /\ task[p][n] = "done"
       \/ n \in {"generate_sql", "analyze_project"} /\ task[p][n] = "enter"

(* A graph that delivers acts on an approval of the diagram shown.         *)
DeliversApproved(p) ==
  /\ p \in Approvals
  /\ row.approval = "approved"
  /\ artifacts.diagram = request[p].shown
  /\ vals[p].model = request[p].shown
  /\ task[p]["generate_sql"] # "enter" => Delivering
  /\ task[p]["generate_sql"] \in {"enter", "work"} =>
       artifacts.sql = 0 /\ ticket = <<>>
  /\ task[p]["generate_sql"] = "done" \/ task[p]["update_openproject"] # "off"
       => /\ artifacts.sql = request[p].shown
          /\ vals[p].sql = request[p].shown

GraphsInStep ==
  \A p \in Procs : pc[p] = "running" =>
    /\ InStep(p)
    /\ Scheduling(p) \cap Delivery # {} => DeliversApproved(p)
    /\ Delivering => Scheduling(p) \subseteq Delivery
    /\ row.status = "completed" => task[p]["update_openproject"] = "done"

(* Nothing is delivered before the status says so, and then it is what     *)
(* some approver was shown.                                                *)
DeliveredIsShown ==
  /\ ~Delivering => artifacts.sql = 0 /\ ticket = <<>>
  /\ Delivering => row.approval = "approved"
  /\ ticket # <<>> => artifacts.sql # 0
  /\ artifacts.sql # 0 =>
       /\ artifacts.sql = artifacts.diagram
       /\ \E r \in Approvals : artifacts.sql = request[r].shown
  /\ \A i \in DOMAIN ticket :
       ticket[i].what \in {"sql", "comment"} =>
         ticket[i].model = artifacts.sql

(* Inductive together with TypeOK and IInv.                                *)
PInv ==
  /\ OneDriver
  /\ NotBegun
  /\ AskedAboutOne
  /\ DecisionsStand
  /\ GraphsInStep
  /\ DeliveredIsShown
  /\ RestAgrees

-----------------------------------------------------------------------------
(* What the refinement of ReviewLoop needs besides, until something fails: *)
(* every copy of the channel values on the way from a rejection to its     *)
(* proposal carries the feedback that is asked for, and the ticket has     *)
(* what the delivery has come to.                                          *)

WishOf(p) == IF p = Starter THEN None ELSE request[p].feedback

(* A decision is carried into the graph with its feedback, and with the    *)
(* diagram it was made on.                                                 *)
Carries(r, v) ==
  /\ v.diagram = artifacts.diagram
  /\ r \notin Approvals => v.feedback = WishOf(r)

CarriedOver(r) ==
  /\ Live(r) /\ pc[r] # "running" =>
       checkpoint.values.diagram = artifacts.diagram
  /\ pc[r] = "updating" => Carries(r, vals[r])
  /\ pc[r] = "invoking" => Carries(r, checkpoint.values)

(* Feedback into the IR, the IR into the model.                            *)
AnswersWish(p) ==
  /\ task[p]["validate_input"] # "off" \/ task[p]["analyze_project"] \in {"enter", "work"}
       => vals[p].feedback = WishOf(p)
  /\ task[p]["analyze_project"] = "done" \/ task[p]["model_schema"] \in {"enter", "work"}
       => vals[p].ir.feedback = WishOf(p)
  /\ task[p]["model_schema"] = "done" => proposals[vals[p].model] = WishOf(p)
  /\ \A n \in Branches \cup {"merge_results", "generate_erd"} :
       task[p][n] # "off" => proposals[vals[p].model] = WishOf(p)

(* How much update_openproject has put on the ticket in each phase.        *)
PostedBy(phase) ==
  CASE phase = "upload_sql"           -> 1
    [] phase = "comment"              -> 2
    [] phase \in {"complete", "done"} -> 3
    [] OTHER                          -> 0

DeliversPackage(p) ==
  /\ Scheduling(p) \subseteq Delivery
  /\ vals[p].diagram = artifacts.diagram
  /\ Len(ticket) = PostedBy(task[p]["update_openproject"])
  /\ task[p]["update_openproject"] = "done" => row.status = "completed"

LInv ==
  faults = 0 =>
    /\ \A r \in Requests : CarriedOver(r)
    /\ \A p \in Procs : pc[p] = "running" =>
         IF p \in Approvals THEN DeliversPackage(p) ELSE AnswersWish(p)
=============================================================================
