---------------------------- MODULE PatientProofs ----------------------------
(***************************************************************************)
(* Theorems about PatientReview for any number of requests, any set of     *)
(* feedback texts and any number of failures.                              *)
(***************************************************************************)
EXTENDS PatientInductive, AnalysisProofs

-----------------------------------------------------------------------------
(* A patient reviewer's steps are steps of AnalysisWorkflow, so what holds *)
(* there holds here.                                                       *)

LEMMA PatientSteps == PatientNext => Next
BY DEF PatientNext, PatientDecision, Next

LEMMA PatientInherits == PatientSpec => [](TypeOK /\ IInv)
<1>1. [PatientNext]_vars => [Next]_vars
  BY PatientSteps
<1>2. PatientSpec => Spec
  BY <1>1, PTL DEF PatientSpec, Spec
<1>3. QED
  BY <1>2, Invariance, PTL

(* Nothing of the session is at work before POST /analysis/start.          *)
LEMMA IdleIsQuiet ==
  ASSUME IInv, NEW p \in Procs, Live(p)
  PROVE  pc[Starter] # "idle"
BY DEF IInv, DecisionsFollowModel, Untouched, Live, Procs

(* While one task is at work, no other is.                                 *)
LEMMA OthersAreQuiet ==
  ASSUME OneDriver, NEW p \in Procs, Live(p), NEW q \in Procs, q # p
  PROVE  ~Live(q)
BY DEF OneDriver

(* The three ways out of Asked and Delivering for the status of a node.    *)
LEMMA StatusByNode ==
  ASSUME NEW n \in Nodes \ {"await_approval"}
  PROVE  /\ StatusOf[n] \notin {"awaiting_approval", "completed", "absent"}
         /\ n \in Delivery <=>
              StatusOf[n] \in {"generating_sql", "updating_openproject", "completed"}
BY DEF Nodes, StatusOf, Delivery

-----------------------------------------------------------------------------
(* Initially nobody is live and nothing is delivered.                      *)
LEMMA PInvInit == Init => PInv
BY DEF Init, PInv, OneDriver, NotBegun, AskedAboutOne, DecisionsStand,
   DecisionStands, GraphsInStep, DeliveredIsShown, RestAgrees, Asked,
   Delivering, Live, Quiet, GetStatus, NoRow, Procs, NoRequest

(* A step after which nobody is live, and which changes at most the        *)
(* memory of the tasks.                                                    *)
LEMMA StopKeepsPInv ==
  ASSUME PInv, UNCHANGED <<row, snapshot, artifacts, checkpoint, ticket, request>>,
         \A p \in Procs : ~Live(p)',
         pc'[Starter] = "idle" => pc[Starter] = "idle",
         faults' = 0 => faults = 0 /\ Quiet
  PROVE  PInv'
<1>1. OneDriver' /\ DecisionsStand' /\ GraphsInStep'
  BY DEF OneDriver, DecisionsStand, DecisionStands, GraphsInStep, Live, Procs
<1>2. NotBegun' /\ AskedAboutOne'
  <2>1. ~Live(Starter)'
    BY DEF Procs
  <2>2. QED
    BY <2>1 DEF PInv, NotBegun, AskedAboutOne, Asked, Live
<1>3. DeliveredIsShown'
  BY DEF PInv, DeliveredIsShown, Delivering, Approvals
<1>4. RestAgrees'
  BY DEF PInv, RestAgrees, GetStatus, GetDiagram
<1>5. QED
  BY <1>1, <1>2, <1>3, <1>4 DEF PInv

(* A step that raises, or a crash, stops all there is, and is counted.     *)
LEMMA FaultyKeepsPInv ==
  ASSUME TypeOK, IInv, PInv, InputsPresent, Faulty
  PROVE  PInv'
<1>1. CASE Crash
  <2>1. pc \in [Procs -> PCs] /\ faults \in Nat
    BY DEF TypeOK
  <2>2. \A p \in Procs : ~Live(p)'
    BY <1>1, <2>1 DEF Crash, Live
  <2>3. pc'[Starter] = "idle" => pc[Starter] = "idle"
    BY <1>1, <2>1 DEF Crash, Procs
  <2>4. faults' # 0
    BY <1>1, <2>1 DEF Crash
  <2>5. QED
    BY <1>1, <2>2, <2>3, <2>4, StopKeepsPInv DEF Crash
<1>2. ASSUME NEW p \in Procs, Raise(p) PROVE PInv'
  <2>1. pc \in [Procs -> PCs] /\ faults \in Nat
    BY DEF TypeOK
  <2>2. ASSUME NEW q \in Procs PROVE ~Live(q)'
    <3>1. CASE q = p
      BY <1>2, <2>1, <3>1 DEF Raise, Live
    <3>2. CASE q # p
      <4>1. ~Live(q)
        BY <1>2, <3>2, OthersAreQuiet DEF Raise, PInv
      <4>2. QED
        BY <1>2, <2>1, <3>2, <4>1 DEF Raise, Live
    <3>3. QED
      BY <3>1, <3>2
  <2>3. pc'[Starter] = "idle" => pc[Starter] = "idle"
    BY <1>2, <2>1 DEF Raise, Procs
  <2>4. faults' # 0
    BY <1>2, <2>1 DEF Raise, InputsPresent
  <2>5. QED
    BY <1>2, <2>2, <2>3, <2>4, StopKeepsPInv DEF Raise
<1>3. QED
  BY <1>1, <1>2 DEF Faulty

-----------------------------------------------------------------------------
(* The start of the session.                                               *)

LEMMA StartKeepsPInv ==
  ASSUME TypeOK, IInv, PInv, StartAnalysis
  PROVE  PInv'
<1>1. pc \in [Procs -> PCs] /\ Starter \in Procs
  BY DEF TypeOK, Procs
<1>2. \A p \in Procs : ~Live(p)
  BY IdleIsQuiet DEF StartAnalysis
<1>3. /\ row' = [status |-> "pending", approval |-> "pending", feedback |-> None]
      /\ row.status = "absent"
      /\ pc' = [pc EXCEPT ![Starter] = "queued"]
      /\ UNCHANGED <<snapshot, artifacts, checkpoint, ticket, request, vals, task, faults>>
  BY DEF StartAnalysis, PInv, NotBegun
<1>4. \A p \in Procs : Live(p)' => p = Starter
  BY <1>1, <1>2, <1>3 DEF Live
<1>5. OneDriver' /\ NotBegun' /\ AskedAboutOne'
  BY <1>1, <1>3, <1>4 DEF OneDriver, NotBegun, AskedAboutOne, Asked
<1>6. DecisionsStand'
  BY <1>4, StarterAssumption DEF DecisionsStand, DecisionStands, Live, Procs
<1>7. GraphsInStep'
  BY <1>1, <1>3, <1>4 DEF GraphsInStep, Live
<1>8. DeliveredIsShown'
  BY <1>3 DEF PInv, DeliveredIsShown, Delivering, Approvals
<1>9. RestAgrees'
  BY <1>3 DEF RestAgrees, GetStatus
<1>10. QED
  BY <1>5, <1>6, <1>7, <1>8, <1>9 DEF PInv

LEMMA BeginKeepsPInv ==
  ASSUME TypeOK, IInv, PInv, BeginWorkflow
  PROVE  PInv'
<1>1. /\ pc \in [Procs -> PCs] /\ Starter \in Procs
      /\ task \in [Procs -> [Nodes -> Phases]] /\ vals \in [Procs -> Values]
  BY DEF TypeOK, Procs
<1>2. /\ pc[Starter] = "queued" /\ row.status = "pending"
      /\ pc' = [pc EXCEPT ![Starter] = "running"]
      /\ checkpoint' = [values |-> InitialValues, next |-> {"validate_input"}]
      /\ vals'[Starter] = InitialValues
      /\ task'[Starter] = Scheduled({"validate_input"})
      /\ UNCHANGED <<row, snapshot, artifacts, ticket, request>>
  BY <1>1 DEF BeginWorkflow, PInv, NotBegun
<1>3. \A p \in Procs : Live(p)' => p = Starter
  <2>1. \A p \in Procs : p # Starter => ~Live(p)
    BY <1>1, <1>2, OthersAreQuiet DEF PInv, Live
  <2>2. QED
    BY <1>1, <1>2, <2>1 DEF Live
<1>4. OneDriver' /\ NotBegun' /\ AskedAboutOne'
  BY <1>1, <1>2, <1>3 DEF OneDriver, NotBegun, AskedAboutOne, Asked
<1>5. DecisionsStand'
  BY <1>3, StarterAssumption DEF DecisionsStand, DecisionStands, Live, Procs
<1>6. Scheduling(Starter)' = {"validate_input"}
  BY <1>2 DEF Scheduling, Scheduled, Nodes
<1>7. InStep(Starter)'
  BY <1>2, <1>6 DEF InStep, Asked, Scheduled, InitialValues, Nodes
<1>8. GraphsInStep'
  BY <1>2, <1>3, <1>6, <1>7 DEF GraphsInStep, Live, Delivering, Delivery
<1>9. DeliveredIsShown'
  BY <1>2 DEF PInv, DeliveredIsShown, Delivering, Approvals
<1>10. RestAgrees'
  BY <1>2 DEF RestAgrees, GetStatus
<1>11. QED
  BY <1>4, <1>5, <1>8, <1>9, <1>10 DEF PInv

-----------------------------------------------------------------------------
(* The handlers and the engine.                                            *)

LEMMA DecideKeepsPInv ==
  ASSUME TypeOK, IInv, PInv, NEW r \in Requests, PatientDecision(r)
  PROVE  PInv'
<1>1. /\ pc \in [Procs -> PCs] /\ r \in Procs /\ r # Starter
      /\ request \in [Requests -> RequestType]
      /\ \A p \in Procs : ~Live(p)
  BY StarterAssumption DEF TypeOK, RequestType, Procs, PatientDecision, Quiet
<1>2. CASE RefuseDecision(r)
  <2>1. \A p \in Procs : ~Live(p)'
    BY <1>1, <1>2 DEF RefuseDecision, Live
  <2>2. QED
    BY <1>1, <1>2, <2>1, StopKeepsPInv DEF RefuseDecision, Quiet, Procs
<1>3. ASSUME NEW d \in Decision, NEW f \in Feedback, AcceptDecision(r, d, f)
      PROVE  PInv'
  <2>1. /\ Asked /\ ~Delivering
        /\ request'[r].shown = artifacts.diagram
        /\ request'[r].readApproval = row.approval
        /\ pc' = [pc EXCEPT ![r] = "accepted"]
        /\ UNCHANGED <<row, snapshot, artifacts, checkpoint, ticket, vals, task, faults>>
    BY <1>1, <1>3 DEF AcceptDecision, Asked, Delivering
  <2>2. \A p \in Procs : Live(p)' => p = r
    BY <1>1, <2>1 DEF Live
  <2>3. OneDriver' /\ NotBegun' /\ AskedAboutOne'
    BY <1>1, <2>1, <2>2 DEF PInv, OneDriver, NotBegun, AskedAboutOne, Asked, Procs
  <2>4. DecisionStands(r)'
    BY <1>1, <2>1 DEF DecisionStands, Asked
  <2>5. DecisionsStand'
    BY <2>2, <2>4 DEF DecisionsStand, DecisionStands, Live, Procs
  <2>6. GraphsInStep'
    BY <1>1, <2>1, <2>2 DEF GraphsInStep, Live
  <2>7. DeliveredIsShown'
    BY <2>1 DEF PInv, DeliveredIsShown, Delivering
  <2>8. RestAgrees'
    BY <1>1, <2>1 DEF RestAgrees, Quiet, Live
  <2>9. QED
    BY <2>3, <2>5, <2>6, <2>7, <2>8 DEF PInv
<1>4. QED
  BY <1>2, <1>3 DEF PatientDecision, Decide

(* A step of the handler or the engine of r, other than its resumption,    *)
(* leaves r the only one live and everything shown in place.               *)
LEMMA HandlerKeepsPInv ==
  ASSUME TypeOK, PInv, NEW r \in Requests, NEW to \in {"queued", "updating", "invoking"},
         Live(r), pc[r] # "running", pc' = [pc EXCEPT ![r] = to],
         row'.status = row.status, checkpoint'.values.model = checkpoint.values.model,
         UNCHANGED <<snapshot, artifacts, ticket, request>>,
         DecisionStands(r)'
  PROVE  PInv'
<1>1. pc \in [Procs -> PCs] /\ r \in Procs /\ r # Starter
  BY StarterAssumption DEF TypeOK, Procs
<1>2. Asked /\ ~Delivering
  BY DEF PInv, DecisionsStand, DecisionStands, Asked, Delivering
<1>3. \A p \in Procs : Live(p)' => p = r
  <2>1. \A p \in Procs : p # r => ~Live(p)
    BY <1>1, OthersAreQuiet DEF PInv
  <2>2. QED
    BY <1>1, <2>1 DEF Live
<1>4. OneDriver' /\ NotBegun' /\ AskedAboutOne'
  BY <1>1, <1>3 DEF PInv, OneDriver, NotBegun, AskedAboutOne, Asked, Procs
<1>5. DecisionsStand'
  BY <1>3 DEF DecisionsStand, DecisionStands, Live, Procs
<1>6. GraphsInStep'
  BY <1>1, <1>3 DEF GraphsInStep, Live
<1>7. DeliveredIsShown'
  BY <1>2 DEF PInv, DeliveredIsShown, Delivering
<1>8. RestAgrees'
  BY <1>1 DEF RestAgrees, Quiet, Live
<1>9. QED
  BY <1>4, <1>5, <1>6, <1>7, <1>8 DEF PInv

LEMMA CommitKeepsPInv ==
  ASSUME TypeOK, IInv, PInv, NEW r \in Requests, CommitDecision(r)
  PROVE  PInv'
<1>1. /\ pc \in [Procs -> PCs] /\ r \in Procs
      /\ row \in [status : AnalysisStatus \cup {"absent"},
                  approval : ApprovalState, feedback : Feedback \cup {None}]
  BY DEF TypeOK, Procs
<1>2. /\ Live(r) /\ pc[r] = "accepted" /\ DecisionStands(r)
      /\ pc' = [pc EXCEPT ![r] = "queued"]
      /\ UNCHANGED <<snapshot, artifacts, checkpoint, ticket, request, vals>>
  BY DEF CommitDecision, Live, PInv, DecisionsStand
<1>3. /\ row'.status = row.status
      /\ row'.approval = IF request[r].decision # request[r].readApproval
                         THEN request[r].decision ELSE row.approval
  BY <1>1 DEF CommitDecision
<1>4. DecisionStands(r)'
  BY <1>1, <1>2, <1>3 DEF DecisionStands, Asked, Live
<1>5. QED
  BY <1>2, <1>3, <1>4, HandlerKeepsPInv

LEMMA UpdateKeepsPInv ==
  ASSUME TypeOK, IInv, PInv, NEW r \in Requests,
         UpdateStateRead(r) \/ UpdateStateWrite(r)
  PROVE  PInv'
<1>1. /\ pc \in [Procs -> PCs] /\ r \in Procs
      /\ vals \in [Procs -> Values] /\ checkpoint.values \in Values
  BY DEF TypeOK, Procs
<1>2. DecisionStands(r)
  BY DEF PInv, DecisionsStand
<1>3. CASE UpdateStateRead(r)
  <2>1. /\ Live(r) /\ pc[r] = "queued"
        /\ pc' = [pc EXCEPT ![r] = "updating"]
        /\ UNCHANGED <<row, snapshot, artifacts, checkpoint, ticket, request>>
    BY <1>3 DEF UpdateStateRead, Live
  <2>2. vals'[r].model = checkpoint.values.model
    BY <1>1, <1>3 DEF UpdateStateRead, Values
  <2>3. DecisionStands(r)'
    BY <1>1, <1>2, <2>1, <2>2 DEF DecisionStands, Asked, Live
  <2>4. QED
    BY <2>1, <2>3, HandlerKeepsPInv
<1>4. CASE UpdateStateWrite(r)
  <2>1. /\ Live(r) /\ pc[r] = "updating"
        /\ pc' = [pc EXCEPT ![r] = "invoking"]
        /\ checkpoint' = [values |-> vals[r], next |-> RouteAfterApproval(vals[r].approval)]
        /\ UNCHANGED <<row, snapshot, artifacts, ticket, request>>
    BY <1>4 DEF UpdateStateWrite, Live
  <2>2. vals[r].approval = request[r].decision
    BY <2>1 DEF IInv, RequestsSound
  <2>3. vals[r].model = checkpoint.values.model
    BY <1>2, <2>1 DEF DecisionStands
  <2>4. DecisionStands(r)'
    BY <1>1, <1>2, <2>1, <2>2 DEF DecisionStands, Asked, Live
  <2>5. QED
    BY <2>1, <2>3, <2>4, HandlerKeepsPInv
<1>5. QED
  BY <1>3, <1>4

(* A graph that is resumed on a decision begins behind the gate, with the  *)
(* model the decision is about.                                            *)
LEMMA ResumeKeepsPInv ==
  ASSUME TypeOK, IInv, PInv, NEW r \in Requests, Resume(r)
  PROVE  PInv'
<1>1. /\ pc \in [Procs -> PCs] /\ r \in Procs /\ r # Starter
      /\ task \in [Procs -> [Nodes -> Phases]] /\ vals \in [Procs -> Values]
      /\ checkpoint.values \in Values
      /\ request[r].decision \in Decision \cup {"none"}
  BY StarterAssumption DEF TypeOK, Procs
<1>2. Live(r) /\ pc[r] = "invoking" /\ DecisionStands(r)
  BY DEF Resume, Live, PInv, DecisionsStand
<1>3. /\ Asked /\ ~Delivering
      /\ request[r].shown = artifacts.diagram
      /\ row.approval = request[r].decision
      /\ checkpoint.next = RouteAfterApproval(request[r].decision)
  BY <1>2 DEF DecisionStands, Asked, Delivering
<1>4. \/ request[r].decision = "approved" /\ checkpoint.next = {"generate_sql"}
      \/ request[r].decision = "rejected" /\ checkpoint.next = {"analyze_project"}
  BY <1>1, <1>2, <1>3 DEF IInv, RequestsSound, Untouched, Decision, RouteAfterApproval
<1>5. /\ pc' = [pc EXCEPT ![r] = "running"]
      /\ vals'[r] = checkpoint.values
      /\ task'[r] = Scheduled(checkpoint.next)
      /\ UNCHANGED <<row, snapshot, artifacts, checkpoint, ticket, request>>
  BY <1>1, <1>4 DEF Resume
<1>6. \A p \in Procs : Live(p)' => p = r
  <2>1. \A p \in Procs : p # r => ~Live(p)
    BY <1>1, <1>2, OthersAreQuiet DEF PInv
  <2>2. QED
    BY <1>1, <1>5, <2>1 DEF Live
<1>7. Scheduling(r)' = checkpoint.next
  BY <1>4, <1>5 DEF Scheduling, Scheduled, Nodes
<1>8. InStep(r)'
  BY <1>4, <1>5, <1>7 DEF InStep, Scheduled, Nodes
<1>9. Scheduling(r)' \cap Delivery # {} => DeliversApproved(r)'
  <2>1. SUFFICES ASSUME checkpoint.next = {"generate_sql"} PROVE DeliversApproved(r)'
    BY <1>4, <1>7 DEF Delivery
  <2>2. request[r].decision = "approved" /\ row.approval = "approved"
    BY <1>3, <1>4, <2>1
  <2>3. vals'[r].model = artifacts.diagram /\ artifacts.sql = 0 /\ ticket = <<>>
    BY <1>3, <1>5 DEF PInv, AskedAboutOne, DeliveredIsShown
  <2>4. task'[r]["generate_sql"] = "enter" /\ task'[r]["update_openproject"] = "off"
    BY <1>5, <2>1 DEF Scheduled, Nodes
  <2>5. QED
    BY <1>3, <1>5, <2>2, <2>3, <2>4 DEF DeliversApproved, Approvals
<1>10. GraphsInStep'
  BY <1>3, <1>5, <1>6, <1>8, <1>9 DEF GraphsInStep, Live, Asked, Delivering
<1>11. OneDriver' /\ NotBegun' /\ AskedAboutOne'
  BY <1>1, <1>5, <1>6 DEF PInv, OneDriver, NotBegun, AskedAboutOne, Asked, Procs
<1>12. DecisionsStand'
  BY <1>1, <1>5, <1>6 DEF DecisionsStand, DecisionStands, Live, Procs
<1>13. DeliveredIsShown'
  BY <1>3, <1>5 DEF PInv, DeliveredIsShown, Delivering
<1>14. RestAgrees'
  BY <1>1, <1>5 DEF RestAgrees, Quiet, Live
<1>15. QED
  BY <1>10, <1>11, <1>12, <1>13, <1>14 DEF PInv

-----------------------------------------------------------------------------
(* The superstep of a running graph.                                       *)

(* Where the graph goes from any of the nodes that have just returned.     *)
LEMMA NextOf ==
  ASSUME NEW p \in Procs, IsSuperstep(Scheduling(p)), NEW n \in Scheduling(p)
  PROVE  NextNodes(p) = EdgesFrom(n, vals[p].approval)
<1>1. ASSUME NEW k \in Scheduling(p)
      PROVE  EdgesFrom(k, vals[p].approval) = EdgesFrom(n, vals[p].approval)
  BY DEF IsSuperstep, Branches, EdgesFrom
<1>2. QED
  BY <1>1 DEF NextNodes

(* A superstep changes the checkpoint and nothing a reviewer sees.         *)
LEMMA SuperstepKeepsPInv ==
  ASSUME TypeOK, IInv, PInv, NEW p \in Procs, Superstep(p)
  PROVE  PInv'
<1>1. /\ pc \in [Procs -> PCs]
      /\ task \in [Procs -> [Nodes -> Phases]] /\ vals \in [Procs -> Values]
  BY DEF TypeOK
<1>2. /\ pc[p] = "running" /\ Live(p) /\ InStep(p)
      /\ IsSuperstep(Scheduling(p))
      /\ Scheduling(p) \cap Delivery # {} => DeliversApproved(p)
      /\ Delivering => Scheduling(p) \subseteq Delivery
      /\ row.status = "completed" => task[p]["update_openproject"] = "done"
  BY DEF Superstep, Live, PInv, GraphsInStep, IInv, GraphsSound, GraphSound
<1>3. PICK n \in Scheduling(p) : TRUE
  BY <1>2 DEF InStep
<1>4. /\ n \in Nodes \ {"await_approval"} /\ task[p][n] = "done"
      /\ NextNodes(p) = EdgesFrom(n, vals[p].approval)
      /\ n \notin Branches => Scheduling(p) = {n}
      /\ Asked => n = "generate_erd"
  <2>1. task[p][n] # "off" /\ n \in Nodes
    BY <1>3 DEF Scheduling
  <2>2. n # "await_approval" /\ task[p][n] = "done"
    BY <1>2, <2>1 DEF Superstep, InStep
  <2>3. NextNodes(p) = EdgesFrom(n, vals[p].approval)
    BY <1>2, NextOf
  <2>4. n \notin Branches => Scheduling(p) = {n}
    BY <1>2 DEF IsSuperstep, Branches
  <2>5. Asked => n = "generate_erd"
    BY <1>2, <2>2 DEF InStep
  <2>6. QED
    BY <2>1, <2>2, <2>3, <2>4, <2>5
<1>5. /\ checkpoint' = [values |-> vals[p], next |-> NextNodes(p)]
      /\ UNCHANGED <<row, snapshot, artifacts, ticket, request, faults>>
  BY DEF Superstep
<1>6. AskedAboutOne'
  <2>1. Asked => vals[p].model = artifacts.diagram /\ snapshot.model = artifacts.diagram
    BY <1>2, <1>4 DEF InStep
  <2>2. QED
    BY <1>5, <2>1 DEF AskedAboutOne, Asked
<1>7. DeliveredIsShown'
  BY <1>5 DEF PInv, DeliveredIsShown, Delivering, Approvals
<1>8. \A q \in Procs : q # p => ~Live(q)
  BY <1>2, OthersAreQuiet DEF PInv
<1>9. CASE n \in {"generate_erd", "update_openproject"}
  <2>1. NextNodes(p) = IF n = "generate_erd" THEN {"await_approval"} ELSE {}
    BY <1>4, <1>9 DEF EdgesFrom
  <2>2. pc' = [pc EXCEPT ![p] = "ended"]
    BY <1>9, <2>1 DEF Superstep, InterruptBefore
  <2>3. \A q \in Procs : ~Live(q)'
    BY <1>1, <1>8, <2>2 DEF Live
  <2>4. OneDriver' /\ DecisionsStand' /\ GraphsInStep'
    BY <2>3 DEF OneDriver, DecisionsStand, DecisionStands, GraphsInStep, Live, Procs
  <2>5. NotBegun'
    BY <1>1, <1>5, <2>2 DEF PInv, NotBegun, Procs
  <2>6. RestAgrees'
    <3>1. SUFFICES ASSUME Asked
                   PROVE  /\ NextNodes(p) = {"await_approval"}
                          /\ vals[p].model = artifacts.diagram
                          /\ vals[p].diagram = artifacts.diagram
      BY <1>5 DEF RestAgrees, GetStatus, GetDiagram, Asked
    <3>2. n = "generate_erd" /\ task[p]["generate_erd"] = "done"
      BY <1>4, <3>1
    <3>3. QED
      BY <1>2, <2>1, <3>2 DEF InStep
  <2>7. QED
    BY <1>6, <1>7, <2>4, <2>5, <2>6 DEF PInv
<1>10. CASE n \notin {"generate_erd", "update_openproject"}
  <2>1. NextNodes(p) \in {{"analyze_project"}, {"model_schema"}, Branches,
                           {"merge_results"}, {"generate_erd"}, {"update_openproject"}}
    BY <1>4, <1>10 DEF EdgesFrom, Nodes, Branches
  <2>2. /\ task' = [task EXCEPT ![p] = Scheduled(NextNodes(p))]
        /\ UNCHANGED <<pc, vals>>
    BY <2>1 DEF Superstep, InterruptBefore, Branches
  <2>3. /\ task'[p] = Scheduled(NextNodes(p)) /\ vals'[p] = vals[p]
        /\ Scheduling(p)' = NextNodes(p)
    BY <1>1, <2>1, <2>2 DEF Scheduling, Scheduled, Nodes, Branches
  <2>4. ~Asked
    BY <1>4, <1>10
  <2>5. InStep(p)'
    <3>1. "generate_erd" \in NextNodes(p) => n = "merge_results"
      BY <1>4 DEF EdgesFrom, Nodes, Branches, RouteAfterApproval
    <3>2. "generate_erd" \in NextNodes(p) => snapshot.model = vals[p].model
      BY <1>2, <1>4, <3>1 DEF InStep
    <3>3. \A m \in Nodes : task'[p][m] = IF m \in NextNodes(p) THEN "enter" ELSE "off"
      BY <2>3 DEF Scheduled
    <3>4. "await_approval" \notin NextNodes(p) /\ NextNodes(p) # {}
      BY <2>1 DEF Branches
    <3>5. QED
      BY <1>5, <2>3, <2>4, <3>2, <3>3, <3>4 DEF InStep, Asked, Nodes
  <2>6. NextNodes(p) \cap Delivery # {} =>
          n = "generate_sql" /\ NextNodes(p) = {"update_openproject"}
    BY <1>4, <1>10 DEF EdgesFrom, Nodes, Delivery
  <2>7. NextNodes(p) \cap Delivery # {} => DeliversApproved(p)'
    <3>1. SUFFICES ASSUME n = "generate_sql", NextNodes(p) = {"update_openproject"}
                   PROVE  DeliversApproved(p)'
      BY <2>6
    <3>2. DeliversApproved(p)
      BY <1>2, <1>4, <3>1 DEF Delivery, Branches
    <3>3. task[p]["generate_sql"] = "done"
      BY <1>4, <3>1
    <3>4. task'[p]["generate_sql"] = "off"
      BY <2>3, <3>1 DEF Scheduled, Nodes
    <3>5. QED
      BY <1>5, <2>3, <3>2, <3>3, <3>4 DEF DeliversApproved, Delivering, Approvals
  <2>8. Delivering' => Scheduling(p)' \subseteq Delivery
    <3>1. Delivering => n \in Delivery
      BY <1>2, <1>3
    <3>2. n \in Delivery => NextNodes(p) = {"update_openproject"}
      BY <1>4, <1>10 DEF Delivery, EdgesFrom
    <3>3. QED
      BY <1>5, <2>3, <3>1, <3>2 DEF Delivering, Delivery
  <2>9. row'.status # "completed"
    BY <1>2, <1>3, <1>4, <1>5, <1>10 DEF Scheduling, Delivering, Branches, Delivery, Nodes
  <2>10. GraphsInStep'
    BY <1>8, <2>2, <2>3, <2>5, <2>7, <2>8, <2>9 DEF GraphsInStep, Live
  <2>11. OneDriver' /\ NotBegun' /\ DecisionsStand'
    BY <1>2, <1>5, <1>8, <2>2
       DEF PInv, OneDriver, NotBegun, DecisionsStand, DecisionStands, Live, Procs
  <2>12. RestAgrees'
    BY <1>2, <2>2 DEF RestAgrees, Quiet, Live
  <2>13. QED
    BY <1>6, <1>7, <2>10, <2>11, <2>12 DEF PInv
<1>11. QED
  BY <1>9, <1>10

-----------------------------------------------------------------------------
(* The steps of nodes.                                                     *)

(* The node whose phase a step changes is the one that takes it.           *)
LEMMA TheNode ==
  ASSUME TypeOK, IInv, NEW p \in Procs, NEW n \in Nodes,
         (\E m \in Nodes : EnterNode(p, m)) \/ Work(p),
         task'[p][n] # task[p][n]
  PROVE  NodeEffect(p, n)
<1>1. PICK m \in Nodes : NodeEffect(p, m)
  BY NodeStep DEF IInv
<1>2. m = n
  BY <1>1 DEF NodeEffect
<1>3. QED
  BY <1>1, <1>2

(* What a node that has not returned knows of the session.                 *)
LEMMA NodeContext ==
  ASSUME TypeOK, IInv, PInv, NEW p \in Procs, NEW n \in Nodes,
         pc[p] = "running", task[p][n] \notin {"off", "done"}
  PROVE  /\ Live(p) /\ InStep(p) /\ n # "await_approval"
         /\ n \notin Branches => Scheduling(p) = {n}
         /\ n \in Branches => Scheduling(p) \subseteq Branches
         /\ n \in Delivery => DeliversApproved(p)
         /\ n \notin Delivery => ~Delivering
         /\ row.status # "completed"
         /\ Asked => n \in {"generate_sql", "analyze_project"} /\ task[p][n] = "enter"
<1>1. /\ InStep(p) /\ IsSuperstep(Scheduling(p)) /\ n \in Scheduling(p)
      /\ Scheduling(p) \cap Delivery # {} => DeliversApproved(p)
      /\ Delivering => Scheduling(p) \subseteq Delivery
      /\ row.status = "completed" => task[p]["update_openproject"] = "done"
  BY DEF PInv, GraphsInStep, IInv, GraphsSound, GraphSound, Scheduling
<1>2. Live(p) /\ n # "await_approval"
  BY <1>1 DEF Live, InStep
<1>3. /\ n \notin Branches => Scheduling(p) = {n}
      /\ n \in Branches => Scheduling(p) \subseteq Branches
  BY <1>1 DEF IsSuperstep, Branches
<1>4. row.status # "completed"
  <2>1. SUFFICES ASSUME row.status = "completed" PROVE FALSE
    OBVIOUS
  <2>2. "update_openproject" \in Scheduling(p) /\ n # "update_openproject"
    BY <1>1, <2>1 DEF Scheduling, Nodes
  <2>3. n \in Delivery
    BY <1>1, <2>1 DEF Delivering
  <2>4. QED
    BY <1>3, <2>2, <2>3 DEF Delivery, Branches
<1>5. Asked => n \in {"generate_sql", "analyze_project"} /\ task[p][n] = "enter"
  BY <1>1 DEF InStep
<1>6. QED
  BY <1>1, <1>2, <1>3, <1>4, <1>5

(* A step of a node leaves the other tasks at rest, so what it can disturb *)
(* is its own graph and what is shown and delivered.                       *)
LEMMA NodeKeepsPInv ==
  ASSUME TypeOK, IInv, PInv, NEW p \in Procs, NEW n \in Nodes, NodeEffect(p, n),
         InStep(p)', AskedAboutOne', DeliveredIsShown',
         Scheduling(p) \cap Delivery # {} => DeliversApproved(p)',
         Delivering' => Scheduling(p) \subseteq Delivery,
         row'.status = "completed" => task'[p]["update_openproject"] = "done"
  PROVE  PInv'
<1>1. Live(p) /\ pc[p] = "running" /\ UNCHANGED pc
  BY DEF NodeEffect, Live
<1>2. \A q \in Procs : q # p => ~Live(q)
  BY <1>1, OthersAreQuiet DEF PInv
<1>3. Scheduling(p)' = Scheduling(p)
  BY DEF NodeEffect, Scheduling
<1>4. GraphsInStep'
  BY <1>1, <1>2, <1>3 DEF GraphsInStep, Live
<1>5. OneDriver' /\ DecisionsStand'
  BY <1>1, <1>2 DEF OneDriver, DecisionsStand, DecisionStands, Live, Procs
<1>6. NotBegun'
  <2>1. pc[Starter] # "idle"
    BY <1>1, IdleIsQuiet
  <2>2. pc[Starter] # "queued"
    BY <1>1, <1>2 DEF Live, Procs
  <2>3. QED
    BY <1>1, <2>1, <2>2 DEF NotBegun
<1>7. RestAgrees'
  BY <1>1 DEF RestAgrees, Quiet, Live
<1>8. QED
  BY <1>4, <1>5, <1>6, <1>7 DEF PInv

(* Before the gate nothing is delivered.                                   *)
LEMMA DraftKeepsPInv ==
  ASSUME TypeOK, IInv, PInv, NEW p \in Procs, NEW n \in Nodes, NodeEffect(p, n),
         n \notin Delivery, ~Delivering',
         artifacts'.sql = artifacts.sql, ticket' = ticket,
         InStep(p)', AskedAboutOne'
  PROVE  PInv'
<1>1. /\ ~Delivering
      /\ Scheduling(p) \cap Delivery = {}
  BY NodeContext DEF NodeEffect, Branches, Delivery
<1>2. DeliveredIsShown'
  BY <1>1 DEF PInv, DeliveredIsShown
<1>3. row'.status # "completed"
  BY DEF Delivering
<1>4. QED
  BY <1>1, <1>2, <1>3, NodeKeepsPInv

(* Most nodes neither touch the snapshot nor the diagram, and keep the     *)
(* model, unless they make a new one.                                      *)
LEMMA StaysInStep ==
  ASSUME TypeOK, IInv, PInv, NEW p \in Procs, NEW n \in Nodes, NodeEffect(p, n),
         ~Asked', snapshot' = snapshot, artifacts'.diagram = artifacts.diagram,
         vals'[p].diagram = vals[p].diagram,
         \/ vals'[p].model = vals[p].model
         \/ n = "model_schema" /\ task'[p][n] = "done",
         n \in {"merge_results", "generate_erd"} => task'[p][n] = "work"
  PROVE  InStep(p)'
<1>1. /\ InStep(p) /\ n # "await_approval"
      /\ n \notin Branches => Scheduling(p) = {n}
  BY NodeContext DEF NodeEffect
<1>2. /\ \A m \in Nodes : m # n => task'[p][m] = task[p][m]
      /\ task[p][n] \notin {"off", "done"} /\ task'[p][n] # "off"
      /\ checkpoint' = checkpoint
  BY DEF NodeEffect
<1>3. Scheduling(p)' = Scheduling(p)
  BY <1>2 DEF Scheduling
<1>4. n = "model_schema" =>
        task[p]["merge_results"] = "off" /\ task[p]["generate_erd"] = "off"
  BY <1>1 DEF Scheduling, Branches, Nodes
<1>5. Scheduling(p)' # {} /\ task'[p]["await_approval"] = "off"
  BY <1>1, <1>2, <1>3 DEF InStep, Nodes
<1>6. task'[p]["model_schema"] # "done" => vals'[p].model = checkpoint'.values.model
  BY <1>1, <1>2 DEF InStep, Nodes
<1>7. task'[p]["merge_results"] = "done" \/ task'[p]["generate_erd"] # "off" =>
        snapshot'.model = vals'[p].model
  BY <1>1, <1>2, <1>4 DEF InStep, Nodes
<1>8. task'[p]["generate_erd"] \in {"announce", "done"} =>
        artifacts'.diagram = vals'[p].model
  BY <1>1, <1>2, <1>4 DEF InStep, Nodes
<1>9. task'[p]["generate_erd"] = "done" => vals'[p].diagram = vals'[p].model
  BY <1>1, <1>2, <1>4 DEF InStep, Nodes
<1>10. QED
  BY <1>5, <1>6, <1>7, <1>8, <1>9 DEF InStep

(* A node announces itself before it works.                                *)
LEMMA EnterKeepsPInv ==
  ASSUME TypeOK, IInv, PInv, NEW p \in Procs, NEW n \in Nodes, EnterNode(p, n)
  PROVE  PInv'
<1>1. task'[p][n] = "work" /\ task[p][n] = "enter" /\ pc[p] = "running"
  BY GoFacts DEF EnterNode, At, Phases
<1>2. NodeEffect(p, n)
  BY <1>1, TheNode
<1>3. /\ n # "await_approval"
      /\ n \notin Branches => Scheduling(p) = {n}
      /\ n \in Delivery => DeliversApproved(p)
      /\ n \notin Delivery => ~Delivering
  BY <1>1, NodeContext
<1>4. /\ row'.status = StatusOf[n] /\ row'.approval = row.approval
      /\ UNCHANGED <<snapshot, artifacts, checkpoint, ticket, request, vals>>
  BY DEF EnterNode, PersistStatus, TypeOK
<1>5. /\ ~Asked' /\ row'.status # "completed"
      /\ Delivering' <=> n \in Delivery
  BY <1>3, <1>4, StatusByNode DEF Asked, Delivering
<1>6. InStep(p)' /\ AskedAboutOne'
  BY <1>1, <1>2, <1>4, <1>5, StaysInStep DEF AskedAboutOne
<1>7. CASE n \notin Delivery
  BY <1>2, <1>4, <1>5, <1>6, <1>7, DraftKeepsPInv
<1>8. CASE n \in Delivery
  <2>1. /\ DeliversApproved(p) /\ Scheduling(p) = {n}
    BY <1>3, <1>8 DEF Delivery, Branches
  <2>2. DeliversApproved(p)'
    <3>1. \A m \in Nodes : /\ task'[p][m] \in {"enter", "work"} <=> task[p][m] \in {"enter", "work"}
                           /\ task'[p][m] = "done" <=> task[p][m] = "done"
                           /\ task'[p][m] = "off" <=> task[p][m] = "off"
      BY <1>1, <1>2 DEF NodeEffect
    <3>2. QED
      BY <1>4, <1>5, <1>8, <2>1, <3>1 DEF DeliversApproved, Approvals, Nodes
  <2>3. DeliveredIsShown'
    BY <1>4, <1>5, <1>8, <2>1 DEF PInv, DeliveredIsShown, DeliversApproved, Approvals
  <2>4. QED
    BY <1>2, <1>5, <1>6, <1>8, <2>1, <2>2, <2>3, NodeKeepsPInv
<1>9. QED
  BY <1>7, <1>8

(* The nodes before the gate that change neither the row nor the diagram.  *)
LEMMA DraftingKeepsPInv ==
  ASSUME TypeOK, IInv, PInv, NEW p \in Procs,
         \/ ValidateInput(p) \/ AnalyzeProject(p) \/ ModelSchema(p)
         \/ AnalyzePerformance(p) \/ AnalyzeSecurity(p)
  PROVE  PInv'
<1>1. ASSUME NEW n \in Nodes \ (Delivery \cup {"merge_results", "generate_erd"}),
             NEW v \in Values, At(p, n, "work"), Return(p, n, v), Work(p),
             v.model = vals[p].model \/ n = "model_schema",
             v.diagram = vals[p].diagram,
             UNCHANGED <<row, snapshot, artifacts, checkpoint, ticket>>
      PROVE  PInv'
  <2>1. /\ task'[p][n] = "done" /\ vals'[p] = v
        /\ task[p][n] = "work" /\ pc[p] = "running"
    BY <1>1, ReturnFacts DEF At
  <2>2. NodeEffect(p, n)
    BY <1>1, <2>1, TheNode
  <2>3. ~Asked /\ ~Delivering
    BY <1>1, <2>1, NodeContext
  <2>4. InStep(p)'
    BY <1>1, <2>1, <2>2, <2>3, StaysInStep DEF Asked
  <2>5. AskedAboutOne' /\ ~Delivering'
    BY <1>1, <2>3 DEF AskedAboutOne, Asked, Delivering
  <2>6. QED
    BY <1>1, <2>2, <2>4, <2>5, DraftKeepsPInv
<1>2. vals[p] \in Values /\ Len(proposals) + 1 \in Nat
  BY DEF TypeOK
<1>3. CASE ValidateInput(p)
  BY <1>1, <1>2, <1>3 DEF ValidateInput, Work, Nodes, Delivery
<1>4. CASE AnalyzeProject(p)
  <2>1. PICK v : v = [vals[p] EXCEPT !.ir = [feedback |-> vals[p].feedback],
                                     !.approval = "pending", !.feedback = None]
    OBVIOUS
  <2>2. v \in Values /\ v.model = vals[p].model /\ v.diagram = vals[p].diagram
    BY <1>2, <2>1 DEF Values, ApprovalState, IR
  <2>3. QED
    BY <1>1, <1>4, <2>1, <2>2 DEF AnalyzeProject, Work, Nodes, Delivery
<1>5. CASE ModelSchema(p)
  <2>1. PICK v : v = [vals[p] EXCEPT !.model = Len(proposals) + 1]
    OBVIOUS
  <2>2. v \in Values /\ v.diagram = vals[p].diagram
    BY <1>2, <2>1 DEF Values
  <2>3. QED
    BY <1>1, <1>5, <2>1, <2>2 DEF ModelSchema, Work, Nodes, Delivery
<1>6. CASE AnalyzePerformance(p)
  <2>1. PICK v : v = [vals[p] EXCEPT !.perf = Append(@, vals[p].model)]
    OBVIOUS
  <2>2. Append(vals[p].perf, vals[p].model) \in Seq(Nat)
    BY <1>2 DEF Values
  <2>3. v \in Values /\ v.model = vals[p].model /\ v.diagram = vals[p].diagram
    BY <1>2, <2>1, <2>2 DEF Values
  <2>4. QED
    BY <1>1, <1>6, <2>1, <2>3 DEF AnalyzePerformance, Work, Nodes, Delivery
<1>7. CASE AnalyzeSecurity(p)
  <2>1. PICK v : v = [vals[p] EXCEPT !.sec = Append(@, vals[p].model)]
    OBVIOUS
  <2>2. Append(vals[p].sec, vals[p].model) \in Seq(Nat)
    BY <1>2 DEF Values
  <2>3. v \in Values /\ v.model = vals[p].model /\ v.diagram = vals[p].diagram
    BY <1>2, <2>1, <2>2 DEF Values
  <2>4. QED
    BY <1>1, <1>7, <2>1, <2>3 DEF AnalyzeSecurity, Work, Nodes, Delivery
<1>8. QED
  BY <1>3, <1>4, <1>5, <1>6, <1>7

(* The snapshot follows the model, before the diagram is drawn from it.    *)
LEMMA MergeKeepsPInv ==
  ASSUME TypeOK, IInv, PInv, NEW p \in Procs, MergeResults(p)
  PROVE  PInv'
<1>1. PICK n : n = "merge_results"
  OBVIOUS
<1>2. /\ n \in Nodes /\ task'[p][n] = "done" /\ vals'[p] = vals[p]
      /\ task[p][n] = "work" /\ pc[p] = "running"
      /\ snapshot'.model = vals[p].model
      /\ UNCHANGED <<row, artifacts, checkpoint, ticket>>
  BY <1>1, ReturnFacts DEF MergeResults, At, Nodes
<1>3. NodeEffect(p, n)
  BY <1>2, TheNode DEF Work
<1>4. /\ InStep(p) /\ Scheduling(p) = {n} /\ ~Asked /\ ~Delivering
  BY <1>1, <1>2, NodeContext DEF Branches, Delivery
<1>5. Scheduling(p)' = {n} /\ \A m \in Nodes : m # n => task'[p][m] = "off"
  BY <1>3, <1>4 DEF NodeEffect, Scheduling
<1>6. InStep(p)'
  BY <1>1, <1>2, <1>4, <1>5 DEF InStep, Asked, Scheduling, Nodes
<1>7. QED
  BY <1>1, <1>2, <1>3, <1>4, <1>6, DraftKeepsPInv DEF AskedAboutOne, Asked, Delivering, Delivery

(* The diagram is saved, then announced.                                   *)
LEMMA ErdKeepsPInv ==
  ASSUME TypeOK, IInv, PInv, NEW p \in Procs, GenerateErd(p) \/ AnnounceErd(p)
  PROVE  PInv'
<1>1. PICK n : n = "generate_erd"
  OBVIOUS
<1>2. /\ n \in Nodes /\ n \notin Delivery /\ pc[p] = "running"
      /\ task[p][n] \in {"work", "announce"}
      /\ UNCHANGED <<snapshot, checkpoint, ticket>>
      /\ vals[p] \in Values
  BY <1>1 DEF GenerateErd, AnnounceErd, At, Nodes, Delivery, TypeOK
<1>3. /\ InStep(p) /\ Scheduling(p) = {n} /\ ~Asked /\ ~Delivering
  BY <1>1, <1>2, NodeContext DEF Branches, Delivery
<1>4. CASE GenerateErd(p)
  <2>1. /\ task[p][n] = "work" /\ task'[p][n] = "announce" /\ UNCHANGED <<row, vals>>
        /\ artifacts'.diagram = vals[p].model /\ artifacts'.sql = artifacts.sql
    BY <1>1, <1>2, <1>4, GoFacts DEF GenerateErd, At, Phases, TypeOK
  <2>2. NodeEffect(p, n)
    BY <1>2, <1>4, <2>1, TheNode DEF Work
  <2>3. Scheduling(p)' = {n} /\ \A m \in Nodes : m # n => task'[p][m] = task[p][m]
    BY <1>3, <2>2 DEF NodeEffect, Scheduling
  <2>4. InStep(p)'
    BY <1>1, <1>2, <1>3, <2>1, <2>3 DEF InStep, Asked, Scheduling, Nodes
  <2>5. QED
    BY <1>2, <1>3, <2>1, <2>2, <2>4, DraftKeepsPInv DEF AskedAboutOne, Asked, Delivering
<1>5. CASE AnnounceErd(p)
  <2>1. /\ task[p][n] = "announce" /\ task'[p][n] = "done" /\ artifacts' = artifacts
        /\ row'.status = "awaiting_approval"
        /\ vals'[p] = [vals[p] EXCEPT !.diagram = vals[p].model]
    BY <1>1, <1>5, ReturnFacts DEF AnnounceErd, At, Nodes, PersistStatus, TypeOK
  <2>2. vals'[p].model = vals[p].model /\ vals'[p].diagram = vals[p].model
    BY <1>2, <2>1 DEF Values
  <2>3. NodeEffect(p, n)
    BY <1>2, <1>5, <2>1, TheNode DEF Work
  <2>4. Scheduling(p)' = {n} /\ \A m \in Nodes : m # n => task'[p][m] = task[p][m]
    BY <1>3, <2>3 DEF NodeEffect, Scheduling
  <2>5. /\ vals[p].model = checkpoint.values.model
        /\ snapshot.model = vals[p].model
        /\ artifacts.diagram = vals[p].model
    <3>1. task[p]["model_schema"] = "off"
      BY <1>1, <1>3 DEF Scheduling, Nodes
    <3>2. QED
      BY <1>1, <1>2, <1>3, <2>1, <3>1 DEF InStep
  <2>6. InStep(p)'
    BY <1>1, <1>2, <1>3, <2>1, <2>2, <2>4, <2>5 DEF InStep, Asked, Scheduling, Nodes
  <2>7. QED
    BY <1>2, <1>3, <2>1, <2>3, <2>5, <2>6, DraftKeepsPInv DEF AskedAboutOne, Asked, Delivering
<1>6. QED
  BY <1>4, <1>5

-----------------------------------------------------------------------------
(* The steps behind the gate.                                              *)

(* A step of update_openproject: what it posts is of the model that was    *)
(* approved, and completed comes last.                                     *)
LEMMA DeliveryKeepsPInv ==
  ASSUME TypeOK, IInv, PInv, NEW p \in Procs,
         \/ UploadErd(p) \/ UploadSql(p) \/ AddComment(p) \/ Complete(p)
  PROVE  PInv'
<1>1. PICK n : n = "update_openproject"
  OBVIOUS
<1>2. /\ n \in Nodes /\ n \in Delivery /\ pc[p] = "running"
      /\ task[p][n] \notin {"off", "done"}
      /\ task'[p][n] # task[p][n]
      /\ task'[p][n] # "off"
      /\ vals'[p] = vals[p]
      /\ UNCHANGED <<snapshot, checkpoint, artifacts, request>>
      /\ vals[p] \in Values
  BY <1>1, GoFacts, ReturnFacts
     DEF UploadErd, UploadSql, AddComment, Complete, At, Nodes, Phases, Delivery, TypeOK
<1>3. NodeEffect(p, n)
  BY <1>2, TheNode DEF Work
<1>4. /\ InStep(p) /\ Scheduling(p) = {n} /\ DeliversApproved(p)
      /\ ~Asked /\ row.status # "completed"
  BY <1>1, <1>2, NodeContext DEF Branches
<1>5. /\ Delivering /\ p \in Approvals /\ row.approval = "approved"
      /\ vals[p].model = artifacts.sql /\ vals[p].sql = artifacts.sql
      /\ task[p]["generate_sql"] = "off"
  BY <1>1, <1>2, <1>4 DEF DeliversApproved, Scheduling, Nodes
<1>6. artifacts.sql # 0
  BY <1>1, <1>2 DEF IInv, GraphsSound, GraphSound, Ready, Delivery
<1>7. /\ row'.approval = row.approval
      /\ \/ row' = row
         \/ row'.status = "completed" /\ task'[p][n] = "done"
  BY <1>1, <1>2, ReturnFacts
     DEF UploadErd, UploadSql, AddComment, Complete, PersistStatus, TypeOK
<1>8. ~Asked' /\ Delivering'
  BY <1>4, <1>5, <1>7 DEF Asked, Delivering
<1>9. InStep(p)' /\ AskedAboutOne'
  BY <1>1, <1>2, <1>3, <1>8, StaysInStep DEF AskedAboutOne
<1>10. task'[p]["generate_sql"] = "off"
  BY <1>1, <1>3, <1>5 DEF NodeEffect, Nodes
<1>11. DeliversApproved(p)'
  BY <1>1, <1>2, <1>4, <1>5, <1>7, <1>8, <1>10 DEF DeliversApproved, Approvals
<1>12. \/ ticket' = ticket
       \/ \E w \in {"erd", "sql", "comment"}, m \in Nat :
            /\ ticket' = Append(ticket, [what |-> w, model |-> m])
            /\ w \in {"sql", "comment"} => m = artifacts.sql
  BY <1>2, <1>5 DEF UploadErd, UploadSql, AddComment, Complete, Post, Values
<1>13. \A i \in DOMAIN ticket' :
         ticket'[i].what \in {"sql", "comment"} => ticket'[i].model = artifacts.sql
  <2>1. \A i \in DOMAIN ticket :
          ticket[i].what \in {"sql", "comment"} => ticket[i].model = artifacts.sql
    BY DEF PInv, DeliveredIsShown
  <2>2. ASSUME NEW w \in {"erd", "sql", "comment"}, NEW m \in Nat,
               ticket' = Append(ticket, [what |-> w, model |-> m]),
               w \in {"sql", "comment"} => m = artifacts.sql,
               NEW i \in DOMAIN ticket', ticket'[i].what \in {"sql", "comment"}
        PROVE  ticket'[i].model = artifacts.sql
    <3>1. ticket \in Seq([what : {"erd", "sql", "comment"}, model : Nat])
      BY DEF TypeOK
    <3>2. CASE i \in DOMAIN ticket
      <4>1. ticket'[i] = ticket[i]
        BY <2>2, <3>1, <3>2
      <4>2. QED
        BY <2>1, <2>2, <3>2, <4>1
    <3>3. CASE i \notin DOMAIN ticket
      <4>1. ticket'[i] = [what |-> w, model |-> m]
        BY <2>2, <3>1, <3>3
      <4>2. QED
        BY <2>2, <4>1
    <3>4. QED
      BY <3>2, <3>3
  <2>3. CASE ticket' = ticket
    BY <2>1, <2>3
  <2>4. QED
    BY <1>12, <2>2, <2>3
<1>14. DeliveredIsShown'
  BY <1>2, <1>5, <1>6, <1>7, <1>8, <1>13
     DEF PInv, DeliveredIsShown, Approvals
<1>15. QED
  BY <1>1, <1>2, <1>3, <1>4, <1>7, <1>9, <1>11, <1>14, NodeKeepsPInv

(* The script is of the model whose diagram was approved.                  *)
LEMMA SqlKeepsPInv ==
  ASSUME TypeOK, IInv, PInv, NEW p \in Procs, GenerateSql(p)
  PROVE  PInv'
<1>1. PICK n : n = "generate_sql"
  OBVIOUS
<1>2. /\ n \in Nodes /\ n \in Delivery /\ pc[p] = "running"
      /\ task[p][n] = "work" /\ task'[p][n] = "done"
      /\ vals'[p] = [vals[p] EXCEPT !.sql = vals[p].model]
      /\ artifacts'.diagram = artifacts.diagram /\ artifacts'.sql = vals[p].model
      /\ UNCHANGED <<row, snapshot, checkpoint, ticket, request>>
      /\ vals[p] \in Values
  BY <1>1, ReturnFacts DEF GenerateSql, At, Nodes, Delivery, TypeOK
<1>3. /\ vals'[p].model = vals[p].model /\ vals'[p].sql = vals[p].model
      /\ vals'[p].diagram = vals[p].diagram
  BY <1>2 DEF Values
<1>4. NodeEffect(p, n)
  BY <1>2, TheNode DEF Work
<1>5. /\ InStep(p) /\ Scheduling(p) = {n} /\ DeliversApproved(p)
      /\ ~Asked /\ row.status # "completed"
  BY <1>1, <1>2, NodeContext DEF Branches
<1>6. /\ Delivering /\ p \in Approvals /\ row.approval = "approved"
      /\ vals[p].model = request[p].shown
      /\ artifacts.diagram = request[p].shown
      /\ ticket = <<>>
      /\ task[p]["update_openproject"] = "off"
  BY <1>1, <1>2, <1>5 DEF DeliversApproved, Scheduling, Nodes
<1>7. ~Asked' /\ Delivering'
  BY <1>2, <1>5, <1>6 DEF Asked, Delivering
<1>8. InStep(p)' /\ AskedAboutOne'
  BY <1>1, <1>2, <1>3, <1>4, <1>7, StaysInStep DEF AskedAboutOne
<1>9. task'[p]["generate_sql"] = "done" /\ task'[p]["update_openproject"] = "off"
  BY <1>1, <1>2, <1>4, <1>6 DEF NodeEffect, Nodes
<1>10. DeliversApproved(p)'
  BY <1>2, <1>3, <1>6, <1>7, <1>9 DEF DeliversApproved, Approvals
<1>11. vals[p].model # 0
  BY DEF GenerateSql
<1>12. DeliveredIsShown'
  BY <1>2, <1>6, <1>7, <1>11 DEF DeliveredIsShown, Approvals
<1>13. QED
  BY <1>1, <1>2, <1>4, <1>5, <1>8, <1>10, <1>12, NodeKeepsPInv

LEMMA WorkKeepsPInv ==
  ASSUME TypeOK, IInv, PInv, NEW p \in Procs, Work(p)
  PROVE  PInv'
<1>1. CASE AwaitApproval(p)
  BY <1>1 DEF AwaitApproval, At, PInv, GraphsInStep, InStep
<1>2. CASE ~AwaitApproval(p)
  BY <1>2, DraftingKeepsPInv, MergeKeepsPInv, ErdKeepsPInv, SqlKeepsPInv,
     DeliveryKeepsPInv DEF Work
<1>3. QED
  BY <1>1, <1>2

-----------------------------------------------------------------------------
(* The invariant, and the theorems.                                        *)

LEMMA InputsFromInvariant == TypeOK /\ IInv => InputsPresent
<1> SUFFICES ASSUME TypeOK, IInv, NEW p \in Procs, MissingInput(p) PROVE FALSE
  BY DEF InputsPresent
<1>1. ASSUME NEW n \in Nodes, At(p, n, "work") PROVE Ready(n, vals[p])
  BY <1>1 DEF At, IInv, GraphsSound, GraphSound
<1>2. ReadsModel \subseteq AfterModel /\ ReadsModel \subseteq Nodes
  BY DEF ReadsModel, AfterModel, Nodes
<1>3. "model_schema" \in Nodes
  BY DEF Nodes
<1>4. QED
  BY <1>1, <1>2, <1>3 DEF MissingInput, Ready

LEMMA StutterKeepsPInv ==
  ASSUME PInv, UNCHANGED vars
  PROVE  PInv'
BY DEF vars, PInv, OneDriver, NotBegun, AskedAboutOne, DecisionsStand,
   DecisionStands, GraphsInStep, InStep, DeliversApproved, DeliveredIsShown,
   RestAgrees, Asked, Delivering, Live, Quiet, GetStatus, GetDiagram,
   Approvals, Scheduling

(* One step per action of PatientNext.                                     *)
LEMMA PatientInductiveStep ==
  TypeOK /\ IInv /\ PInv /\ [PatientNext]_vars => PInv'
<1> SUFFICES ASSUME TypeOK, IInv, PInv, [PatientNext]_vars PROVE PInv'
  OBVIOUS
<1>1. CASE StartAnalysis
  BY <1>1, StartKeepsPInv
<1>2. ASSUME NEW r \in Requests, PatientDecision(r) PROVE PInv'
  BY <1>2, DecideKeepsPInv
<1>3. ASSUME NEW p \in Procs, Proceed(p) PROVE PInv'
  <2>1. CASE p = Starter /\ BeginWorkflow
    BY <2>1, BeginKeepsPInv
  <2>2. CASE p \in Requests /\ CommitDecision(p)
    BY <2>2, CommitKeepsPInv
  <2>3. CASE p \in Requests /\ Resumption(p)
    BY <2>3, UpdateKeepsPInv, ResumeKeepsPInv DEF Resumption
  <2>4. ASSUME NEW n \in Nodes, EnterNode(p, n) PROVE PInv'
    BY <2>4, EnterKeepsPInv
  <2>5. CASE Work(p)
    BY <2>5, WorkKeepsPInv
  <2>6. CASE Superstep(p)
    BY <2>6, SuperstepKeepsPInv
  <2>7. QED
    BY <1>3, <2>1, <2>2, <2>3, <2>4, <2>5, <2>6 DEF Proceed, RunGraph
<1>4. CASE Faulty
  BY <1>4, FaultyKeepsPInv, InputsFromInvariant
<1>5. CASE Finished \/ UNCHANGED vars
  BY <1>5, StutterKeepsPInv DEF Finished
<1>6. QED
  BY <1>1, <1>2, <1>3, <1>4, <1>5 DEF PatientNext

THEOREM PatientInvariance == PatientSpec => [](TypeOK /\ IInv /\ PInv)
<1>1. PatientSpec => []PInv
  BY PInvInit, PatientInductiveStep, PatientInherits, PTL DEF PatientSpec
<1>2. QED
  BY <1>1, PatientInherits, PTL

(* Whatever fails, and wherever the server dies, nothing is saved as the   *)
(* script or posted to the ticket but what some approver was shown.        *)
THEOREM ScriptsWereShown == PatientSpec => []ScriptWasShown
<1>1. PInv => ScriptWasShown
  BY DEF PInv, DeliveredIsShown, ScriptWasShown
<1>2. QED
  BY <1>1, PatientInvariance, PTL

(* The GET routes answer from three tables and agree with each other.      *)
THEOREM ScreensAlwaysAgree == PatientSpec => []ScreensAgree
<1>1. TypeOK /\ IInv /\ PInv => ScreensAgree
  <2> SUFFICES ASSUME TypeOK, IInv, PInv PROVE ScreensAgree
    OBVIOUS
  <2>1. CASE Asked
    <3>1. artifacts.diagram # 0 /\ snapshot.model = artifacts.diagram
      BY <2>1 DEF IInv, DecisionsFollowModel, Asked, PInv, AskedAboutOne
    <3>2. EndsWith(snapshot.perf, snapshot.model) /\ EndsWith(snapshot.sec, snapshot.model)
      BY <3>1 DEF IInv, SnapshotSound
    <3>3. QED
      BY <2>1, <3>1, <3>2 DEF ScreensAgree, GetStatus, GetDiagram, GetAnalysis,
         ProposedActions, Asked
  <2>2. CASE row.status = "completed"
    <3>1. artifacts.sql # 0
      BY <2>2 DEF IInv, DeliverySound
    <3>2. artifacts.sql = artifacts.diagram /\ row.approval = "approved"
      BY <2>2, <3>1 DEF PInv, DeliveredIsShown, Delivering
    <3>3. QED
      BY <2>2, <3>2 DEF ScreensAgree, GetStatus, GetSql, GetDiagram
  <2>3. QED
    BY <2>1, <2>2 DEF ScreensAgree, GetStatus, Asked
<1>2. QED
  BY <1>1, PatientInvariance, PTL

(* Until something fails, a session at rest that asks for a decision is    *)
(* paused before the gate with the diagram it shows.                       *)
THEOREM RestingSessionsAgree == PatientSpec => []RestAgrees
<1>1. PInv => RestAgrees
  BY DEF PInv
<1>2. QED
  BY <1>1, PatientInvariance, PTL

(* No step changes the row, the artifacts or the ticket of a completed     *)
(* session.                                                                *)
LEMMA NothingAfterCompleted ==
  ASSUME TypeOK, IInv, PInv, PatientNext, row.status = "completed"
  PROVE  UNCHANGED <<row, artifacts, ticket>>
<1>1. ~StartAnalysis
  BY DEF StartAnalysis, PInv, NotBegun
<1>2. ASSUME NEW r \in Requests, PatientDecision(r)
      PROVE  UNCHANGED <<row, artifacts, ticket>>
  BY <1>2 DEF PatientDecision, Decide, RefuseDecision, AcceptDecision
<1>3. ASSUME NEW p \in Procs, Proceed(p)
      PROVE  UNCHANGED <<row, artifacts, ticket>>
  <2>1. CASE p = Starter /\ BeginWorkflow
    BY <2>1 DEF BeginWorkflow
  <2>2. CASE p \in Requests /\ (CommitDecision(p) \/ Resumption(p))
    <3>1. pc[p] # "accepted"
      BY <2>2 DEF PInv, DecisionsStand, DecisionStands, Live, Asked
    <3>2. QED
      BY <2>2, <3>1 DEF CommitDecision, Resumption, UpdateStateRead, UpdateStateWrite, Resume
  <2>3. CASE (\E n \in Nodes : EnterNode(p, n)) \/ Work(p)
    <3>1. PICK n \in Nodes : NodeEffect(p, n)
      BY <2>3, NodeStep DEF IInv
    <3>2. QED
      BY <3>1, NodeContext DEF NodeEffect
  <2>4. CASE Superstep(p)
    BY <2>4 DEF Superstep
  <2>5. QED
    BY <1>3, <2>1, <2>2, <2>3, <2>4 DEF Proceed, RunGraph
<1>4. CASE Faulty
  BY <1>4 DEF Faulty, Crash, Raise
<1>5. CASE Finished
  BY <1>5 DEF Finished, vars
<1>6. QED
  BY <1>1, <1>2, <1>3, <1>4, <1>5 DEF PatientNext

THEOREM CompletedStaysFinal == PatientSpec => CompletedIsFinal
<1>1. TypeOK /\ IInv /\ PInv /\ [PatientNext]_vars =>
        [row.status = "completed" => UNCHANGED <<row, artifacts, ticket>>]_vars
  BY NothingAfterCompleted
<1>2. QED
  BY <1>1, PatientInvariance, PTL DEF PatientSpec, CompletedIsFinal
=============================================================================
