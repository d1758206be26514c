-------------------------- MODULE DocumentedPromises --------------------------
(***************************************************************************)
(* Sentences of the README and of comments in the code, stated over the    *)
(* state of AnalysisWorkflow, that the code does not keep.  Each is        *)
(* checked by a run of its own, whose counterexample is the scenario.      *)
(***************************************************************************)
EXTENDS PatientReview

(* README.md:162 on approve: the workflow will wake up in the background   *)
(* and go on to update OpenProject.  An approval whose update is followed  *)
(* by the checkpoint of the graph that was about to pause is forgotten:    *)
(* the gate is run with a pending decision, and the graph ends there.      *)
ApprovalDelivers ==
  \A r \in Requests :
    pc[r] = "queued" /\ r \in Approvals ~> row.status = "completed"

(* README.md:149: the script is submitted together with the diagram.  If   *)
(* the server dies after awaiting_approval was persisted and before the    *)
(* checkpoint, the approved script goes out without its diagram.           *)
ScriptWithDiagram ==
  \A i \in DOMAIN ticket : ticket[i].what = "sql" =>
    \E j \in 1..i : ticket[j] = [what |-> "erd", model |-> ticket[i].model]

(* api/routes/analysis.py:360: approve is safe as an idempotent GET.  The  *)
(* handler does not move the status it tests, so a repeated approve is     *)
(* accepted too and delivers again.                                        *)
DeliveredOnce ==
  \A i, j \in DOMAIN ticket :
    ticket[i].what = "comment" /\ ticket[j].what = "comment" => i = j

(* README.md:149: approve is for a proposal the user has looked at.  An    *)
(* approve and a reject that are both accepted can approve the model that  *)
(* the rejection produces, unseen: the property is ScriptWasShown, for     *)
(* reviewers that do not wait for each other.                              *)
ApprovedWasSeen == ScriptWasShown

(* README.md:101: the proposed actions of GET /diagram are the measures    *)
(* for the proposal shown.  The list reducers keep what was recommended on *)
(* rejected models.                                                        *)
SnapshotIsCurrent ==
  LET current(recs) == \A i \in DOMAIN recs : recs[i] = snapshot.model
  IN current(snapshot.perf) /\ current(snapshot.sec)
=============================================================================
