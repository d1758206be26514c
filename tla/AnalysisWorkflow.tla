-------------------------- MODULE AnalysisWorkflow --------------------------
(***************************************************************************)
(* One analysis session of the backend: the row, snapshot and artifacts in *)
(* its database, the LangGraph checkpoint, the OpenProject ticket, and the *)
(* asynchronous tasks that act on them -- the background task of POST      *)
(* /analysis/start and, for each approve or reject request, the handler    *)
(* and the background task it queues.  Every step runs from one await to   *)
(* the next, so the tasks interleave where the event loop lets them.       *)
(*                                                                         *)
(* Models are numbered in the order model_schema produced them; 0 stands   *)
(* for an absent model, diagram or script.  A diagram, a script, a list of *)
(* recommendations or a post is represented by the number of the model it  *)
(* was made from.                                                          *)
(***************************************************************************)
EXTENDS AnalysisGraph, Naturals, Sequences, FiniteSets

CONSTANTS
  Requests,   \* the approve and reject requests that reviewers send
  Starter,    \* the task that POST /analysis/start queues
  Feedback,   \* the texts a rejection may carry
  None,       \* Python's None
  MaxFaults   \* how many times a step may raise or the server may die

(* The agent's ProjectIR remembers the feedback it was made under.         *)
IR == [feedback : Feedback \cup {None}]

ASSUME StarterAssumption == Starter \notin Requests
ASSUME NoneAssumption == None \notin Feedback /\ None \notin IR
ASSUME MaxFaultsAssumption == MaxFaults \in Nat

Procs == Requests \cup {Starter}

VARIABLES
  row,         \* analysis_sessions: status, approval_state, rejection_feedback
  snapshot,    \* analysis_sessions.result_snapshot
  artifacts,   \* the latest analysis_artifacts row of each type
  checkpoint,  \* the latest checkpoint of the session's thread
  ticket,      \* what the OpenProject task has received, in order
  pc,          \* where each task is
  request,     \* what each request decided and what it read
  vals,        \* the channel values each running graph holds in memory
  task,        \* the phase of each node in each running graph
  proposals,   \* history: the feedback each model was made to answer
  faults       \* how many steps have raised, or servers died, so far

vars == <<row, snapshot, artifacts, checkpoint, ticket, pc, request, vals,
          task, proposals, faults>>

(* Before POST /analysis/start commits there is no row.                    *)
NoRow == [status |-> "absent", approval |-> "pending", feedback |-> None]

(* The channels of WorkflowState that a decision can depend on.            *)
InitialValues ==
  [approval |-> "pending", feedback |-> None, ir |-> None, model |-> 0,
   perf |-> <<>>, sec |-> <<>>, diagram |-> 0, sql |-> 0]

NoRequest ==
  [decision |-> "none", feedback |-> None,
   readApproval |-> "pending", readFeedback |-> None, shown |-> 0]

Idle == [n \in Nodes |-> "off"]

(* A superstep is about to run the nodes of S.                             *)
Scheduled(S) == [n \in Nodes |-> IF n \in S THEN "enter" ELSE "off"]

Init ==
  /\ row = NoRow
  /\ snapshot = [model |-> 0, perf |-> <<>>, sec |-> <<>>]
  /\ artifacts = [diagram |-> 0, sql |-> 0]
  /\ checkpoint = [values |-> InitialValues, next |-> {}]
  /\ ticket = <<>>
  /\ pc = [p \in Procs |-> "idle"]
  /\ request = [r \in Requests |-> NoRequest]
  /\ vals = [p \in Procs |-> InitialValues]
  /\ task = [p \in Procs |-> Idle]
  /\ proposals = <<>>
  /\ faults = 0

-----------------------------------------------------------------------------
(* The background task of a start, and the handlers of the decisions.      *)

(* POST /analysis/start commits the row with its credential and queues     *)
(* _run_workflow.                                                          *)
StartAnalysis ==
  /\ pc[Starter] = "idle"
  /\ row' = [status |-> "pending", approval |-> "pending", feedback |-> None]
  /\ pc' = [pc EXCEPT ![Starter] = "queued"]
  /\ UNCHANGED <<snapshot, artifacts, checkpoint, ticket, request, vals, task,
                 proposals, faults>>

(* WorkflowEngine.start: ainvoke with the initial values saves an input    *)
(* checkpoint and schedules the entry node.                                *)
BeginWorkflow ==
  /\ pc[Starter] = "queued"
  /\ checkpoint' = [values |-> InitialValues, next |-> {"validate_input"}]
  /\ pc' = [pc EXCEPT ![Starter] = "running"]
  /\ vals' = [vals EXCEPT ![Starter] = InitialValues]
  /\ task' = [task EXCEPT ![Starter] = Scheduled({"validate_input"})]
  /\ UNCHANGED <<row, snapshot, artifacts, ticket, request, proposals, faults>>

(* The handler finds no row (404) or a status other than awaiting_approval *)
(* (409).                                                                  *)
RefuseDecision(r) ==
  /\ pc[r] = "idle"
  /\ row.status # "awaiting_approval"
  /\ pc' = [pc EXCEPT ![r] = "refused"]
  /\ UNCHANGED <<row, snapshot, artifacts, checkpoint, ticket, request, vals,
                 task, proposals, faults>>

(* Mutant: the handler does not test the status.                           *)
AcceptAnyStatus(r, d, f) ==
  /\ pc[r] = "idle"
  /\ row.status # "absent"
  /\ request' = [request EXCEPT ![r] =
       [decision |-> d,
        feedback |-> IF d = "rejected" THEN f ELSE None,
        readApproval |-> row.approval, readFeedback |-> row.feedback,
        shown |-> artifacts.diagram]]
  /\ pc' = [pc EXCEPT ![r] = "accepted"]
  /\ UNCHANGED <<row, snapshot, artifacts, checkpoint, ticket, vals, task,
                 proposals, faults>>

(* The handler loads the row, finds it awaiting approval and goes on.  The *)
(* diagram the reviewer can have looked at is at best the latest one.      *)
AcceptDecision(r, d, f) ==
  /\ pc[r] = "idle"
  /\ row.status = "awaiting_approval"
  /\ request' = [request EXCEPT ![r] =
       [decision |-> d,
        feedback |-> IF d = "rejected" THEN f ELSE None,
        readApproval |-> row.approval, readFeedback |-> row.feedback,
        shown |-> artifacts.diagram]]
  /\ pc' = [pc EXCEPT ![r] = "accepted"]
  /\ UNCHANGED <<row, snapshot, artifacts, checkpoint, ticket, vals, task,
                 proposals, faults>>

(* update_approval and commit, then the background task is queued.  The    *)
(* ORM writes the columns that differ from what the handler loaded, so a   *)
(* column it leaves as it read it keeps what another request committed.    *)
CommitDecision(r) ==
  /\ pc[r] = "accepted"
  /\ LET q == request[r] IN
       row' = [row EXCEPT
         !.approval = IF q.decision # q.readApproval THEN q.decision ELSE @,
         !.feedback = IF q.feedback # q.readFeedback THEN q.feedback ELSE @]
  /\ pc' = [pc EXCEPT ![r] = "queued"]
  /\ UNCHANGED <<snapshot, artifacts, checkpoint, ticket, request, vals, task,
                 proposals, faults>>

-----------------------------------------------------------------------------
(* WorkflowEngine.approve and reject.  aget_state finds a state whenever a *)
(* session exists, so approve's test for an active workflow never fires.   *)

(* Mutant: a rejection does not pass its feedback on.                      *)
UpdateWithoutFeedback(r) ==
  /\ pc[r] = "queued"
  /\ vals' = [vals EXCEPT ![r] =
       [checkpoint.values EXCEPT !.approval = request[r].decision]]
  /\ pc' = [pc EXCEPT ![r] = "updating"]
  /\ UNCHANGED <<row, snapshot, artifacts, checkpoint, ticket, request, task,
                 proposals, faults>>

(* aupdate_state reads the latest checkpoint and applies the decision ...  *)
UpdateStateRead(r) ==
  /\ pc[r] = "queued"
  /\ LET v == checkpoint.values
         q == request[r]
     IN vals' = [vals EXCEPT ![r] =
          [v EXCEPT !.approval = q.decision,
                    !.feedback = IF q.decision = "rejected"
                                 THEN q.feedback ELSE @]]
  /\ pc' = [pc EXCEPT ![r] = "updating"]
  /\ UNCHANGED <<row, snapshot, artifacts, checkpoint, ticket, request, task,
                 proposals, faults>>

(* Mutant: what the paused graph had left to run is left in place.         *)
UpdateKeepsPending(r) ==
  /\ pc[r] = "updating"
  /\ checkpoint' = [values |-> vals[r],
       next |-> checkpoint.next \cup RouteAfterApproval(vals[r].approval)]
  /\ vals' = [vals EXCEPT ![r] = InitialValues]
  /\ pc' = [pc EXCEPT ![r] = "invoking"]
  /\ UNCHANGED <<row, snapshot, artifacts, ticket, request, task, proposals,
                 faults>>

(* ... and saves a checkpoint as if await_approval had just returned: only *)
(* the node its router picks is left to run.                               *)
UpdateStateWrite(r) ==
  /\ pc[r] = "updating"
  /\ checkpoint' = [values |-> vals[r],
                    next |-> RouteAfterApproval(vals[r].approval)]
  /\ vals' = [vals EXCEPT ![r] = InitialValues]
  /\ pc' = [pc EXCEPT ![r] = "invoking"]
  /\ UNCHANGED <<row, snapshot, artifacts, ticket, request, task, proposals,
                 faults>>

(* ainvoke(None) loads the checkpoint that is the latest by then and runs  *)
(* what it has left to run, await_approval included.                       *)
Resume(r) ==
  /\ pc[r] = "invoking"
  /\ IF checkpoint.next = {}
       THEN /\ pc' = [pc EXCEPT ![r] = "ended"]
            /\ UNCHANGED <<vals, task>>
       ELSE /\ pc' = [pc EXCEPT ![r] = "running"]
            /\ vals' = [vals EXCEPT ![r] = checkpoint.values]
            /\ task' = [task EXCEPT ![r] = Scheduled(checkpoint.next)]
  /\ UNCHANGED <<row, snapshot, artifacts, checkpoint, ticket, request,
                 proposals, faults>>

-----------------------------------------------------------------------------
(* The nodes.  A node in phase "enter" persists its status; its later      *)
(* phases are the awaits that change something shared; "done" means that   *)
(* it returned and its values are in the graph's memory.                   *)

At(p, n, phase) == pc[p] = "running" /\ task[p][n] = phase

Go(p, n, phase) == task' = [task EXCEPT ![p][n] = phase]

PersistStatus(status) == row' = [row EXCEPT !.status = status]

(* Mutant: generate_erd announces the pause before it draws the diagram.   *)
EnterAnnouncing(p, n) ==
  /\ At(p, n, "enter")
  /\ PersistStatus(IF n = "generate_erd" THEN "awaiting_approval"
                                         ELSE StatusOf[n])
  /\ Go(p, n, "work")
  /\ UNCHANGED <<snapshot, artifacts, checkpoint, ticket, pc, request, vals,
                 proposals, faults>>

EnterNode(p, n) ==
  /\ At(p, n, "enter")
  /\ PersistStatus(StatusOf[n])
  /\ Go(p, n, "work")
  /\ UNCHANGED <<snapshot, artifacts, checkpoint, ticket, pc, request, vals,
                 proposals, faults>>

(* The node returns, with new values for some channels.                    *)
Return(p, n, values) ==
  /\ Go(p, n, "done")
  /\ vals' = [vals EXCEPT ![p] = values]

ValidateInput(p) ==
  /\ At(p, "validate_input", "work")
  /\ Return(p, "validate_input", vals[p])
  /\ UNCHANGED <<row, snapshot, artifacts, checkpoint, ticket, pc, request,
                 proposals, faults>>

(* Mutant: the approval fields are not cleared for the next loop.          *)
AnalyzeKeepsDecision(p) ==
  /\ At(p, "analyze_project", "work")
  /\ Return(p, "analyze_project",
       [vals[p] EXCEPT !.ir = [feedback |-> vals[p].feedback]])
  /\ UNCHANGED <<row, snapshot, artifacts, checkpoint, ticket, pc, request,
                 proposals, faults>>

(* The agent sees the feedback; the approval fields are then cleared.      *)
AnalyzeProject(p) ==
  /\ At(p, "analyze_project", "work")
  /\ Return(p, "analyze_project",
       [vals[p] EXCEPT !.ir = [feedback |-> vals[p].feedback],
                       !.approval = "pending", !.feedback = None])
  /\ UNCHANGED <<row, snapshot, artifacts, checkpoint, ticket, pc, request,
                 proposals, faults>>

(* Mutant: the modelling agent's result is dropped.                        *)
ModelSchemaDropped(p) ==
  /\ At(p, "model_schema", "work")
  /\ vals[p].ir # None
  /\ proposals' = Append(proposals, vals[p].ir.feedback)
  /\ Return(p, "model_schema", [vals[p] EXCEPT !.model = None])
  /\ UNCHANGED <<row, snapshot, artifacts, checkpoint, ticket, pc, request,
                 faults>>

(* The model is made from the IR, and so answers the IR's feedback.        *)
ModelSchema(p) ==
  /\ At(p, "model_schema", "work")
  /\ vals[p].ir # None
  /\ proposals' = Append(proposals, vals[p].ir.feedback)
  /\ Return(p, "model_schema",
       [vals[p] EXCEPT !.model = Len(proposals) + 1])
  /\ UNCHANGED <<row, snapshot, artifacts, checkpoint, ticket, pc, request,
                 faults>>

(* The list reducers append to what earlier iterations left.               *)
AnalyzePerformance(p) ==
  /\ At(p, "analyze_performance", "work")
  /\ vals[p].model # 0
  /\ Return(p, "analyze_performance",
       [vals[p] EXCEPT !.perf = Append(@, vals[p].model)])
  /\ UNCHANGED <<row, snapshot, artifacts, checkpoint, ticket, pc, request,
                 proposals, faults>>

AnalyzeSecurity(p) ==
  /\ At(p, "analyze_security", "work")
  /\ vals[p].model # 0
  /\ Return(p, "analyze_security",
       [vals[p] EXCEPT !.sec = Append(@, vals[p].model)])
  /\ UNCHANGED <<row, snapshot, artifacts, checkpoint, ticket, pc, request,
                 proposals, faults>>

(* Mutant: a snapshot, once persisted, stays.                              *)
MergeResultsOnce(p) ==
  /\ At(p, "merge_results", "work")
  /\ snapshot' = IF snapshot.model # 0 THEN snapshot
                 ELSE [model |-> vals[p].model, perf |-> vals[p].perf,
                       sec |-> vals[p].sec]
  /\ Return(p, "merge_results", vals[p])
  /\ UNCHANGED <<row, artifacts, checkpoint, ticket, pc, request, proposals,
                 faults>>

MergeResults(p) ==
  /\ At(p, "merge_results", "work")
  /\ snapshot' = [model |-> vals[p].model, perf |-> vals[p].perf,
                  sec |-> vals[p].sec]
  /\ Return(p, "merge_results", vals[p])
  /\ UNCHANGED <<row, artifacts, checkpoint, ticket, pc, request, proposals,
                 faults>>

(* Mutant: the oldest diagram stays the one that is returned.              *)
GenerateErdOldest(p) ==
  /\ At(p, "generate_erd", "work")
  /\ vals[p].model # 0
  /\ artifacts' = [artifacts EXCEPT !.diagram =
                     IF @ = 0 THEN vals[p].model ELSE @]
  /\ Go(p, "generate_erd", "announce")
  /\ UNCHANGED <<row, snapshot, checkpoint, ticket, pc, request, vals,
                 proposals, faults>>

(* The artifact row is committed first ...                                 *)
GenerateErd(p) ==
  /\ At(p, "generate_erd", "work")
  /\ vals[p].model # 0
  /\ artifacts' = [artifacts EXCEPT !.diagram = vals[p].model]
  /\ Go(p, "generate_erd", "announce")
  /\ UNCHANGED <<row, snapshot, checkpoint, ticket, pc, request, vals,
                 proposals, faults>>

(* Mutant: the node does not return the diagram.                           *)
AnnounceWithoutDiagram(p) ==
  /\ At(p, "generate_erd", "announce")
  /\ PersistStatus("awaiting_approval")
  /\ Return(p, "generate_erd", vals[p])
  /\ UNCHANGED <<snapshot, artifacts, checkpoint, ticket, pc, request,
                 proposals, faults>>

(* ... then awaiting_approval, before the node returns and long before the *)
(* checkpoint that carries the diagram is saved.                           *)
AnnounceErd(p) ==
  /\ At(p, "generate_erd", "announce")
  /\ PersistStatus("awaiting_approval")
  /\ Return(p, "generate_erd", [vals[p] EXCEPT !.diagram = vals[p].model])
  /\ UNCHANGED <<snapshot, artifacts, checkpoint, ticket, pc, request,
                 proposals, faults>>

(* Hands the decision on, whatever it is.                                  *)
AwaitApproval(p) ==
  /\ At(p, "await_approval", "work")
  /\ Return(p, "await_approval", vals[p])
  /\ UNCHANGED <<row, snapshot, artifacts, checkpoint, ticket, pc, request,
                 proposals, faults>>

(* The DDL and the Alembic revision are saved by one commit.               *)
GenerateSql(p) ==
  /\ At(p, "generate_sql", "work")
  /\ vals[p].model # 0
  /\ artifacts' = [artifacts EXCEPT !.sql = vals[p].model]
  /\ Return(p, "generate_sql", [vals[p] EXCEPT !.sql = vals[p].model])
  /\ UNCHANGED <<row, snapshot, checkpoint, ticket, pc, request, proposals,
                 faults>>

Post(what, model) == Append(ticket, [what |-> what, model |-> model])

(* Mutant: completed is persisted before the ticket is updated.            *)
UploadAfterCompleted(p) ==
  /\ At(p, "update_openproject", "work")
  /\ PersistStatus("completed")
  /\ ticket' = Post("erd", vals[p].diagram)
  /\ Go(p, "update_openproject", "upload_sql")
  /\ UNCHANGED <<snapshot, artifacts, checkpoint, pc, request, vals,
                 proposals, faults>>

(* update_openproject: erd.mmd if there is a diagram, migration.sql if     *)
(* there is a script, the comment, then completed.                         *)
UploadErd(p) ==
  /\ At(p, "update_openproject", "work")
  /\ ticket' = IF vals[p].diagram # 0 THEN Post("erd", vals[p].diagram)
                                      ELSE ticket
  /\ Go(p, "update_openproject", "upload_sql")
  /\ UNCHANGED <<row, snapshot, artifacts, checkpoint, pc, request, vals,
                 proposals, faults>>

UploadSql(p) ==
  /\ At(p, "update_openproject", "upload_sql")
  /\ ticket' = IF vals[p].sql # 0 THEN Post("sql", vals[p].sql) ELSE ticket
  /\ Go(p, "update_openproject", "comment")
  /\ UNCHANGED <<row, snapshot, artifacts, checkpoint, pc, request, vals,
                 proposals, faults>>

(* A comment that fails is caught and reported only in the returned value. *)
AddComment(p) ==
  /\ At(p, "update_openproject", "comment")
  /\ \/ /\ ticket' = Post("comment", vals[p].model)
        /\ faults' = faults
     \/ /\ faults < MaxFaults
        /\ faults' = faults + 1
        /\ ticket' = ticket
  /\ Go(p, "update_openproject", "complete")
  /\ UNCHANGED <<row, snapshot, artifacts, checkpoint, pc, request, vals,
                 proposals>>

Complete(p) ==
  /\ At(p, "update_openproject", "complete")
  /\ PersistStatus("completed")
  /\ Return(p, "update_openproject", vals[p])
  /\ UNCHANGED <<snapshot, artifacts, checkpoint, ticket, pc, request,
                 proposals, faults>>

Work(p) ==
  \/ ValidateInput(p) \/ AnalyzeProject(p) \/ ModelSchema(p)
  \/ AnalyzePerformance(p) \/ AnalyzeSecurity(p) \/ MergeResults(p)
  \/ GenerateErd(p) \/ AnnounceErd(p) \/ AwaitApproval(p) \/ GenerateSql(p)
  \/ UploadErd(p) \/ UploadSql(p) \/ AddComment(p) \/ Complete(p)

-----------------------------------------------------------------------------
(* The graph runtime, as the code uses it.                                 *)

Scheduling(p) == {n \in Nodes : task[p][n] # "off"}

(* The nodes that the finished superstep of p leads to.                    *)
NextNodes(p) ==
  UNION {EdgesFrom(n, vals[p].approval) : n \in Scheduling(p)}

(* Every node of the superstep has returned: save a checkpoint, then stop  *)
(* before the gate, stop at END, or schedule the next superstep.           *)
Superstep(p) ==
  /\ pc[p] = "running"
  /\ \A n \in Nodes : task[p][n] \in {"off", "done"}
  /\ checkpoint' = [values |-> vals[p], next |-> NextNodes(p)]
  /\ IF NextNodes(p) = {} \/ NextNodes(p) \cap InterruptBefore # {}
       THEN /\ pc' = [pc EXCEPT ![p] = "ended"]
            /\ vals' = [vals EXCEPT ![p] = InitialValues]
            /\ task' = [task EXCEPT ![p] = Idle]
       ELSE /\ task' = [task EXCEPT ![p] = Scheduled(NextNodes(p))]
            /\ UNCHANGED <<pc, vals>>
  /\ UNCHANGED <<row, snapshot, artifacts, ticket, request, proposals, faults>>

Live(p) == pc[p] \in {"accepted", "queued", "updating", "invoking", "running"}

(* A node of p raises because the channel it needs is empty.               *)
MissingInput(p) ==
  \/ At(p, "model_schema", "work") /\ vals[p].ir = None
  \/ \E n \in ReadsModel : At(p, n, "work") /\ vals[p].model = 0

MayRaise(p) == faults < MaxFaults \/ MissingInput(p)

(* A step of p raises.  The handler answers 500, the background task logs  *)
(* the error; neither touches the row.                                     *)
Raise(p) ==
  /\ Live(p)
  /\ MayRaise(p)
  /\ faults' = IF MissingInput(p) THEN faults ELSE faults + 1
  /\ pc' = [pc EXCEPT ![p] = "failed"]
  /\ vals' = [vals EXCEPT ![p] = InitialValues]
  /\ task' = [task EXCEPT ![p] = Idle]
  /\ UNCHANGED <<row, snapshot, artifacts, checkpoint, ticket, request,
                 proposals>>

(* The server dies: what is in memory is gone, and nothing resumes it.     *)
Crash ==
  /\ \E p \in Procs : Live(p)
  /\ faults < MaxFaults
  /\ faults' = faults + 1
  /\ pc' = [p \in Procs |-> IF Live(p) THEN "failed" ELSE pc[p]]
  /\ vals' = [p \in Procs |-> InitialValues]
  /\ task' = [p \in Procs |-> Idle]
  /\ UNCHANGED <<row, snapshot, artifacts, checkpoint, ticket, request,
                 proposals>>

-----------------------------------------------------------------------------
RunGraph(p) == (\E n \in Nodes : EnterNode(p, n)) \/ Work(p) \/ Superstep(p)

Resumption(r) == UpdateStateRead(r) \/ UpdateStateWrite(r) \/ Resume(r)

(* A new decision arrives.                                                 *)
Decide(r) ==
  \/ RefuseDecision(r)
  \/ \E d \in Decision, f \in Feedback : AcceptDecision(r, d, f)

(* What goes on without any further request from outside.                  *)
Proceed(p) ==
  \/ p = Starter /\ BeginWorkflow
  \/ p \in Requests /\ (CommitDecision(p) \/ Resumption(p))
  \/ RunGraph(p)

Faulty == Crash \/ \E p \in Procs : Raise(p)

(* Nobody has anything left to send.                                       *)
Finished ==
  /\ \A p \in Procs : ~Live(p) /\ pc[p] # "idle"
  /\ UNCHANGED vars

Next ==
  \/ StartAnalysis
  \/ \E r \in Requests : Decide(r)
  \/ \E p \in Procs : Proceed(p)
  \/ Faulty
  \/ Finished

Fairness == \A p \in Procs : WF_vars(Proceed(p))

Spec == Init /\ [][Next]_vars

FairSpec == Spec /\ Fairness

-----------------------------------------------------------------------------
(* Type invariant.                                                         *)

Values ==
  [approval : ApprovalState, feedback : Feedback \cup {None},
   ir : IR \cup {None}, model : Nat, perf : Seq(Nat), sec : Seq(Nat),
   diagram : Nat, sql : Nat]

Phases == {"off", "enter", "work", "announce", "upload_sql", "comment",
           "complete", "done"}

PCs == {"idle", "refused", "accepted", "queued", "updating", "invoking",
        "running", "ended", "failed"}

(* The types of every variable: the database row and artifacts, the        *)
(* checkpoint, the ticket, and the memory of every task.                   *)
TypeOK ==
  /\ row \in [status : AnalysisStatus \cup {"absent"},
              approval : ApprovalState, feedback : Feedback \cup {None}]
  /\ snapshot \in [model : Nat, perf : Seq(Nat), sec : Seq(Nat)]
  /\ artifacts \in [diagram : Nat, sql : Nat]
  /\ checkpoint \in [values : Values, next : SUBSET Nodes]
  /\ ticket \in Seq([what : {"erd", "sql", "comment"}, model : Nat])
  /\ pc \in [Procs -> PCs]
  /\ request \in [Requests ->
       [decision : Decision \cup {"none"}, feedback : Feedback \cup {None},
        readApproval : ApprovalState, readFeedback : Feedback \cup {None},
        shown : Nat]]
  /\ vals \in [Procs -> Values]
  /\ task \in [Procs -> [Nodes -> Phases]]
  /\ proposals \in Seq(Feedback \cup {None})
  /\ faults \in Nat

-----------------------------------------------------------------------------
(* Safety, whatever the reviewers do and whatever fails.                   *)

(* No node ever raises "Missing project_ir" or "Missing relational_model": *)
(* however decisions interleave with a graph that still runs, what a       *)
(* resumed graph loads holds what its nodes read.                          *)
InputsPresent == \A p \in Procs : ~MissingInput(p)

(* The human gate: no script is saved and nothing reaches the ticket       *)
(* unless the handler of some approve request let it through.              *)
Approvals == {r \in Requests : request[r].decision = "approved"}

GateNeedsApproval ==
  artifacts.sql # 0 \/ ticket # <<>> =>
    \E r \in Approvals : pc[r] # "accepted"

(* A paused graph holds no decision: analyze_project cleared the last one, *)
(* so whoever resumes it cannot reuse an earlier proposal's approval.      *)
PausedUndecided ==
  "await_approval" \in checkpoint.next =>
    /\ checkpoint.values.approval = "pending"
    /\ checkpoint.values.feedback = None

(* What a polling client reads is true: in awaiting_approval there is a    *)
(* diagram to look at, and in completed there is a script, both in GET     *)
(* /sql and on the ticket.                                                 *)
StatusIsTrue ==
  /\ row.status = "awaiting_approval" => artifacts.diagram # 0
  /\ row.status = "completed" =>
       /\ artifacts.sql # 0
       /\ \E i \in DOMAIN ticket : ticket[i].what = "sql"

(* merge_results starts only after both branches, and what it persists     *)
(* ends with the recommendations on the model it persists.                 *)
EndsWith(s, x) == Len(s) > 0 /\ s[Len(s)] = x

BranchesJoined ==
  /\ \A p \in Procs : At(p, "merge_results", "work") =>
       /\ EndsWith(vals[p].perf, vals[p].model)
       /\ EndsWith(vals[p].sec, vals[p].model)
  /\ snapshot.model # 0 =>
       /\ EndsWith(snapshot.perf, snapshot.model)
       /\ EndsWith(snapshot.sec, snapshot.model)

(* A running graph never comes back to a node: each of its supersteps lies *)
(* beyond the last one in the order of the topology, however decisions     *)
(* change the checkpoint under it.  So every run ends, and the only way    *)
(* around the loop is a reviewer's rejection.                              *)
Position == [n \in Nodes |->
  CASE n = "validate_input"     -> 1
    [] n = "analyze_project"    -> 2
    [] n = "model_schema"       -> 3
    [] n = "analyze_performance" \/ n = "analyze_security" -> 4
    [] n = "merge_results"      -> 5
    [] n = "generate_erd"       -> 6
    [] n = "await_approval"     -> 7
    [] n = "generate_sql"       -> 8
    [] n = "update_openproject" -> 9]

MovesOn(p) ==
  \A m, n \in Nodes :
    task[p][m] # "off" /\ task'[p][n] # "off" =>
      \/ Position[m] < Position[n]
      \/ task[p][n] # "off" /\ (task[p][n] = "done" => task'[p][n] = "done")

NeverBack ==
  [][\A p \in Procs :
       pc[p] = "running" /\ pc'[p] = "running" => MovesOn(p)]_vars
=============================================================================
