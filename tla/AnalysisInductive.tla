-------------------------- MODULE AnalysisInductive --------------------------
(***************************************************************************)
(* The inductive invariant behind the safety properties of                 *)
(* AnalysisWorkflow.  It says, node by node, what the channel values hold  *)
(* when a node is about to run (Ready) and when it has returned            *)
(* (Returned); that the same is true of what the latest checkpoint has     *)
(* left to run; and that no decision is let through before a first model   *)
(* has been checkpointed.                                                  *)
(***************************************************************************)
EXTENDS AnalysisWorkflow

(* From the start of a loop to the gate there is no decision in the graph. *)
BeforeGate == {"validate_input", "model_schema", "analyze_performance",
               "analyze_security", "merge_results", "generate_erd",
               "await_approval"}

AfterModel == {"analyze_performance", "analyze_security", "merge_results",
               "generate_erd", "await_approval", "generate_sql",
               "update_openproject"}

Delivery == {"generate_sql", "update_openproject"}

Branches == {"analyze_performance", "analyze_security"}

Undecided(v) == v.approval = "pending" /\ v.feedback = None

GateOpen == \E r \in Approvals : pc[r] # "accepted"

Ready(n, v) ==
  /\ n \in BeforeGate => Undecided(v)
  /\ n = "model_schema" => v.ir # None
  /\ n \in AfterModel => v.model # 0
  /\ n = "merge_results" =>
       EndsWith(v.perf, v.model) /\ EndsWith(v.sec, v.model)
  /\ n = "await_approval" => artifacts.diagram # 0
  /\ n \in Delivery => GateOpen
  /\ n = "update_openproject" => v.sql # 0 /\ artifacts.sql # 0

Returned(n, v) ==
  /\ n \in BeforeGate \cup {"analyze_project"} => Undecided(v)
  /\ n = "analyze_project" => v.ir # None
  /\ n \in AfterModel \cup {"model_schema"} => v.model # 0
  /\ n = "analyze_performance" => EndsWith(v.perf, v.model)
  /\ n = "analyze_security" => EndsWith(v.sec, v.model)
  /\ n = "generate_erd" => artifacts.diagram # 0
  /\ n \in Delivery => GateOpen
  /\ n = "generate_sql" => v.sql # 0 /\ artifacts.sql # 0

(* The nodes of a superstep: one, or the two branches.                     *)
IsSuperstep(S) ==
  /\ "analyze_performance" \in S <=> "analyze_security" \in S
  /\ \A m, n \in S : m = n \/ {m, n} = Branches

Active(p, n) == pc[p] = "running" /\ task[p][n] # "off"

(* Each running graph is in one superstep, and its nodes find and leave    *)
(* what they should.                                                       *)
GraphSound(p) ==
  /\ IsSuperstep(Scheduling(p))
  /\ \A n \in Nodes :
       /\ task[p][n] \notin {"off", "done"} => Ready(n, vals[p])
       /\ task[p][n] = "done" => Returned(n, vals[p])
  /\ task[p]["generate_erd"] = "announce" => artifacts.diagram # 0

GraphsSound == \A p \in Procs : pc[p] = "running" => GraphSound(p)

(* Whoever loads the latest checkpoint gets a superstep that can run.      *)
CheckpointSound ==
  /\ IsSuperstep(checkpoint.next)
  /\ \A n \in checkpoint.next : Ready(n, checkpoint.values)

(* A decision is only ever let through once a diagram exists, and from     *)
(* then on every copy of the channel values has a model.                   *)
Untouched(r) == pc[r] \in {"idle", "refused"}

DecisionsFollowModel ==
  /\ \A r \in Requests : ~Untouched(r) => artifacts.diagram # 0
  /\ row.status = "awaiting_approval" => artifacts.diagram # 0
  /\ artifacts.diagram # 0 =>
       /\ checkpoint.values.model # 0
       /\ pc[Starter] \notin {"idle", "queued"}
       /\ \A p \in Procs :
            pc[p] \in {"running", "updating"} => vals[p].model # 0
  /\ \A p \in Procs, n \in AfterModel :
       Active(p, n) => checkpoint.values.model # 0

(* A request carries a decision from the moment it is accepted, and the    *)
(* state update it prepares carries that decision.                         *)
RequestsSound ==
  /\ \A r \in Requests :
       /\ Untouched(r) <=> request[r].decision = "none"
       /\ pc[r] = "updating" => vals[r].approval = request[r].decision

(* Scripts come through the gate, and completed only after the upload.     *)
SqlPosted == \E i \in DOMAIN ticket : ticket[i].what = "sql"

DeliverySound ==
  /\ GateNeedsApproval
  /\ \A p \in Procs :
       /\ pc[p] = "running"
       /\ task[p]["update_openproject"] \in {"comment", "complete", "done"}
       => SqlPosted
  /\ row.status = "completed" => artifacts.sql # 0 /\ SqlPosted

SnapshotSound ==
  snapshot.model # 0 =>
    /\ EndsWith(snapshot.perf, snapshot.model)
    /\ EndsWith(snapshot.sec, snapshot.model)

(* Inductive: true at first, and kept by every step; together with TypeOK  *)
(* it implies every safety property of AnalysisWorkflow.                   *)
IInv ==
  /\ GraphsSound
  /\ CheckpointSound
  /\ DecisionsFollowModel
  /\ RequestsSound
  /\ DeliverySound
  /\ SnapshotSound
=============================================================================
