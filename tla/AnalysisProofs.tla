--------------------------- MODULE AnalysisProofs ---------------------------
(***************************************************************************)
(* Theorems about AnalysisWorkflow for any number of requests, any set of  *)
(* feedback texts and any number of failures.                              *)
(***************************************************************************)
EXTENDS AnalysisInductive, TLAPS

-----------------------------------------------------------------------------
(* Facts about the graph's topology.                                       *)

(* Each node persists a status of AnalysisStatus; only the gate persists   *)
(* awaiting_approval, and none persists completed.                         *)
LEMMA StatusOfType ==
  ASSUME NEW n \in Nodes
  PROVE  /\ StatusOf[n] \in AnalysisStatus
         /\ StatusOf[n] = "awaiting_approval" => n = "await_approval"
         /\ StatusOf[n] # "completed"
BY DEF Nodes, StatusOf, AnalysisStatus

(* Edges lead from nodes to nodes.                                         *)
LEMMA EdgesType ==
  ASSUME NEW n \in Nodes, NEW a \in ApprovalState
  PROVE  EdgesFrom(n, a) \subseteq Nodes
BY DEF Nodes, EdgesFrom, RouteAfterApproval, ApprovalState

LEMMA RouteType ==
  ASSUME NEW a \in ApprovalState
  PROVE  RouteAfterApproval(a) \subseteq Nodes
BY DEF Nodes, RouteAfterApproval, ApprovalState

LEMMA ScheduledType ==
  ASSUME NEW S
  PROVE  /\ Scheduled(S) \in [Nodes -> Phases]
         /\ Idle \in [Nodes -> Phases]
BY DEF Scheduled, Idle, Phases

LEMMA InitialValuesType == InitialValues \in Values
BY DEF InitialValues, Values, ApprovalState

(* A node that returns or goes on to another phase keeps the types of the  *)
(* graph's memory.                                                         *)
LEMMA GoType ==
  ASSUME TypeOK, NEW p \in Procs, NEW n \in Nodes, NEW ph \in Phases, Go(p, n, ph)
  PROVE  task' \in [Procs -> [Nodes -> Phases]]
BY DEF TypeOK, Go

LEMMA ReturnType ==
  ASSUME TypeOK, NEW p \in Procs, NEW n \in Nodes, NEW v \in Values, Return(p, n, v)
  PROVE  /\ task' \in [Procs -> [Nodes -> Phases]]
         /\ vals' \in [Procs -> Values]
<1>1. "done" \in Phases
  BY DEF Phases
<1>2. QED
  BY <1>1, GoType DEF TypeOK, Return

LEMMA PersistType ==
  ASSUME TypeOK, NEW s \in AnalysisStatus, PersistStatus(s)
  PROVE  row' \in [status : AnalysisStatus \cup {"absent"},
                   approval : ApprovalState, feedback : Feedback \cup {None}]
BY DEF TypeOK, PersistStatus

LEMMA PostType ==
  ASSUME TypeOK, NEW w \in {"erd", "sql", "comment"}, NEW m \in Nat
  PROVE  Post(w, m) \in Seq([what : {"erd", "sql", "comment"}, model : Nat])
BY DEF TypeOK, Post

LEMMA NextNodesType ==
  ASSUME TypeOK, NEW p \in Procs
  PROVE  NextNodes(p) \subseteq Nodes
<1>1. vals[p].approval \in ApprovalState
  BY DEF TypeOK, Values
<1>2. ASSUME NEW n \in Scheduling(p) PROVE EdgesFrom(n, vals[p].approval) \subseteq Nodes
  BY <1>1, EdgesType DEF Scheduling
<1>3. QED
  BY <1>2 DEF NextNodes

-----------------------------------------------------------------------------
(* Type correctness.  TypeOK is not inductive: that a decision is written  *)
(* only by a request that has one is RequestsSound.                        *)

RequestType ==
  [decision : Decision \cup {"none"}, feedback : Feedback \cup {None},
   readApproval : ApprovalState, readFeedback : Feedback \cup {None},
   shown : Nat]

LEMMA TypeInit == Init => TypeOK
<1> SUFFICES ASSUME Init PROVE TypeOK
  OBVIOUS
<1>1. row \in [status : AnalysisStatus \cup {"absent"},
              approval : ApprovalState, feedback : Feedback \cup {None}]
  BY DEF Init, NoRow, ApprovalState
<1>2. snapshot \in [model : Nat, perf : Seq(Nat), sec : Seq(Nat)]
  BY DEF Init
<1>3. checkpoint \in [values : Values, next : SUBSET Nodes]
  BY InitialValuesType DEF Init
<1>4. vals \in [Procs -> Values]
  BY InitialValuesType DEF Init
<1>5. task \in [Procs -> [Nodes -> Phases]]
  BY ScheduledType DEF Init
<1>6. request \in [Requests -> RequestType]
  BY DEF Init, NoRequest, ApprovalState, RequestType
<1>7. pc \in [Procs -> PCs]
  BY DEF Init, PCs
<1>8. QED
  BY <1>1, <1>2, <1>3, <1>4, <1>5, <1>6, <1>7 DEF TypeOK, Init, RequestType

(* The steps of a handler and of the engine keep the types.                *)
LEMMA TypeDecide ==
  ASSUME TypeOK, RequestsSound, NEW r \in Requests,
         \/ RefuseDecision(r)
         \/ \E d \in Decision, f \in Feedback : AcceptDecision(r, d, f)
         \/ CommitDecision(r)
         \/ Resumption(r)
  PROVE  TypeOK'
<1>1. CASE RefuseDecision(r)
  BY <1>1 DEF RefuseDecision, TypeOK, Procs, PCs
<1>2. ASSUME NEW d \in Decision, NEW f \in Feedback, AcceptDecision(r, d, f)
      PROVE  TypeOK'
  <2>1. request' \in [Requests -> RequestType]
    BY <1>2 DEF AcceptDecision, TypeOK, RequestType
  <2>2. QED
    BY <1>2, <2>1 DEF AcceptDecision, TypeOK, Procs, PCs, RequestType
<1>3. CASE CommitDecision(r)
  <2>1. request[r].decision \in ApprovalState /\ request[r].feedback \in Feedback \cup {None}
    BY <1>3 DEF CommitDecision, TypeOK, RequestsSound, Untouched, Decision, ApprovalState
  <2>2. row' \in [status : AnalysisStatus \cup {"absent"},
                 approval : ApprovalState, feedback : Feedback \cup {None}]
    BY <1>3, <2>1 DEF CommitDecision, TypeOK
  <2>3. QED
    BY <1>3, <2>2 DEF CommitDecision, TypeOK, Procs, PCs
<1>4. CASE UpdateStateRead(r)
  <2>1. request[r].decision \in ApprovalState /\ request[r].feedback \in Feedback \cup {None}
    BY <1>4 DEF UpdateStateRead, TypeOK, RequestsSound, Untouched, Decision, ApprovalState
  <2>2. vals' \in [Procs -> Values]
    BY <1>4, <2>1 DEF UpdateStateRead, TypeOK, Values, Procs
  <2>3. QED
    BY <1>4, <2>2 DEF UpdateStateRead, TypeOK, Procs, PCs
<1>5. CASE UpdateStateWrite(r)
  <2>1. vals[r] \in Values /\ RouteAfterApproval(vals[r].approval) \subseteq Nodes
    BY RouteType DEF TypeOK, Procs, Values
  <2>2. checkpoint' \in [values : Values, next : SUBSET Nodes]
    BY <1>5, <2>1 DEF UpdateStateWrite
  <2>3. vals' \in [Procs -> Values]
    BY <1>5, InitialValuesType DEF UpdateStateWrite, TypeOK
  <2>4. QED
    BY <1>5, <2>2, <2>3 DEF UpdateStateWrite, TypeOK, Procs, PCs
<1>6. CASE Resume(r)
  <2>1. /\ vals' \in [Procs -> Values]
        /\ task' \in [Procs -> [Nodes -> Phases]]
        /\ pc' \in [Procs -> PCs]
    <3>1. CASE checkpoint.next = {}
      <4>1. pc' = [pc EXCEPT ![r] = "ended"] /\ UNCHANGED <<vals, task>>
        BY <1>6, <3>1 DEF Resume
      <4>2. QED
        BY <4>1 DEF TypeOK, PCs
    <3>2. CASE checkpoint.next # {}
      <4>1. checkpoint.values \in Values
        BY DEF TypeOK
      <4>2. Scheduled(checkpoint.next) \in [Nodes -> Phases]
        BY ScheduledType
      <4>3. /\ pc' = [pc EXCEPT ![r] = "running"]
            /\ vals' = [vals EXCEPT ![r] = checkpoint.values]
            /\ task' = [task EXCEPT ![r] = Scheduled(checkpoint.next)]
        BY <1>6, <3>2 DEF Resume
      <4>4. QED
        BY <4>1, <4>2, <4>3 DEF TypeOK, PCs
    <3>3. QED
      BY <3>1, <3>2
  <2>2. QED
    BY <1>6, <2>1 DEF Resume, TypeOK
<1>7. QED
  BY <1>1, <1>2, <1>3, <1>4, <1>5, <1>6 DEF Resumption

(* A step of a node keeps the types.                                       *)
LEMMA TypeNode ==
  ASSUME TypeOK, NEW p \in Procs,
         (\E n \in Nodes : EnterNode(p, n)) \/ Work(p)
  PROVE  TypeOK'
<1> USE DEF Phases, Nodes
<1>0. vals[p] \in Values
  BY DEF TypeOK
<1>1. ASSUME NEW n \in Nodes, EnterNode(p, n) PROVE TypeOK'
  <2>1. StatusOf[n] \in AnalysisStatus
    BY StatusOfType
  <2>2. row' \in [status : AnalysisStatus \cup {"absent"},
                 approval : ApprovalState, feedback : Feedback \cup {None}]
    BY <1>1, <2>1, PersistType DEF EnterNode
  <2>3. task' \in [Procs -> [Nodes -> Phases]]
    BY <1>1, GoType DEF EnterNode
  <2>4. QED
    BY <1>1, <2>2, <2>3 DEF EnterNode, TypeOK
<1>2. CASE ValidateInput(p)
  BY <1>2, <1>0, ReturnType DEF ValidateInput, TypeOK
<1>3. CASE AnalyzeProject(p)
  <2>1. [vals[p] EXCEPT !.ir = [feedback |-> vals[p].feedback],
                        !.approval = "pending", !.feedback = None] \in Values
    BY <1>0 DEF Values, ApprovalState, IR
  <2>2. QED
    BY <1>3, <2>1, ReturnType DEF AnalyzeProject, TypeOK
<1>4. CASE ModelSchema(p)
  <2>1. [vals[p] EXCEPT !.model = Len(proposals) + 1] \in Values
    <3>1. Len(proposals) + 1 \in Nat
      BY DEF TypeOK
    <3>2. QED
      BY <1>0, <3>1 DEF Values
  <2>2. proposals' \in Seq(Feedback \cup {None})
    BY <1>4, <1>0 DEF ModelSchema, TypeOK, Values, IR
  <2>3. QED
    BY <1>4, <2>1, <2>2, ReturnType DEF ModelSchema, TypeOK
<1>5. CASE AnalyzePerformance(p)
  <2>1. [vals[p] EXCEPT !.perf = Append(@, vals[p].model)] \in Values
    <3>1. Append(vals[p].perf, vals[p].model) \in Seq(Nat)
      BY <1>0 DEF Values
    <3>2. QED
      BY <1>0, <3>1 DEF Values
  <2>2. QED
    BY <1>5, <2>1, ReturnType DEF AnalyzePerformance, TypeOK
<1>6. CASE AnalyzeSecurity(p)
  <2>1. [vals[p] EXCEPT !.sec = Append(@, vals[p].model)] \in Values
    <3>1. Append(vals[p].sec, vals[p].model) \in Seq(Nat)
      BY <1>0 DEF Values
    <3>2. QED
      BY <1>0, <3>1 DEF Values
  <2>2. QED
    BY <1>6, <2>1, ReturnType DEF AnalyzeSecurity, TypeOK
<1>7. CASE MergeResults(p)
  <2>1. snapshot' \in [model : Nat, perf : Seq(Nat), sec : Seq(Nat)]
    BY <1>7, <1>0 DEF MergeResults, Values
  <2>2. QED
    BY <1>7, <2>1, <1>0, ReturnType DEF MergeResults, TypeOK
<1>8. CASE GenerateErd(p)
  <2>1. artifacts' \in [diagram : Nat, sql : Nat]
    BY <1>8, <1>0 DEF GenerateErd, Values, TypeOK
  <2>2. QED
    BY <1>8, <2>1, GoType DEF GenerateErd, TypeOK
<1>9. CASE AnnounceErd(p)
  <2>1. [vals[p] EXCEPT !.diagram = vals[p].model] \in Values
    BY <1>0 DEF Values
  <2>2. "awaiting_approval" \in AnalysisStatus
    BY DEF AnalysisStatus
  <2>3. QED
    BY <1>9, <2>1, <2>2, ReturnType, PersistType DEF AnnounceErd, TypeOK
<1>10. CASE AwaitApproval(p)
  BY <1>10, <1>0, ReturnType DEF AwaitApproval, TypeOK
<1>11. CASE GenerateSql(p)
  <2>1. [vals[p] EXCEPT !.sql = vals[p].model] \in Values
    BY <1>0 DEF Values
  <2>2. artifacts' \in [diagram : Nat, sql : Nat]
    BY <1>11, <1>0 DEF GenerateSql, Values, TypeOK
  <2>3. QED
    BY <1>11, <2>1, <2>2, ReturnType DEF GenerateSql, TypeOK
<1>12. CASE UploadErd(p)
  <2>1. ticket' \in Seq([what : {"erd", "sql", "comment"}, model : Nat])
    BY <1>12, <1>0, PostType DEF UploadErd, Values, TypeOK
  <2>2. QED
    BY <1>12, <2>1, GoType DEF UploadErd, TypeOK
<1>13. CASE UploadSql(p)
  <2>1. ticket' \in Seq([what : {"erd", "sql", "comment"}, model : Nat])
    BY <1>13, <1>0, PostType DEF UploadSql, Values, TypeOK
  <2>2. QED
    BY <1>13, <2>1, GoType DEF UploadSql, TypeOK
<1>14. CASE AddComment(p)
  <2>1. ticket' \in Seq([what : {"erd", "sql", "comment"}, model : Nat])
    <3>1. Post("comment", vals[p].model) \in Seq([what : {"erd", "sql", "comment"}, model : Nat])
      BY <1>0, PostType DEF Values
    <3>2. ticket' = Post("comment", vals[p].model) \/ ticket' = ticket
      BY <1>14 DEF AddComment
    <3>3. QED
      BY <3>1, <3>2 DEF TypeOK
  <2>2. faults' \in Nat
    BY <1>14 DEF AddComment, TypeOK
  <2>3. QED
    BY <1>14, <2>1, <2>2, GoType DEF AddComment, TypeOK
<1>15. CASE Complete(p)
  <2>1. "completed" \in AnalysisStatus
    BY DEF AnalysisStatus
  <2>2. QED
    BY <1>15, <2>1, <1>0, ReturnType, PersistType DEF Complete, TypeOK
<1>16. QED
  BY <1>1, <1>2, <1>3, <1>4, <1>5, <1>6, <1>7, <1>8, <1>9, <1>10, <1>11,
     <1>12, <1>13, <1>14, <1>15 DEF Work

(* The runtime's steps keep the types.                                     *)
LEMMA TypeRuntime ==
  ASSUME TypeOK,
         \/ StartAnalysis
         \/ BeginWorkflow
         \/ \E p \in Procs : Superstep(p) \/ Raise(p)
         \/ Crash
  PROVE  TypeOK'
<1> USE DEF PCs
<1>1. CASE StartAnalysis
  BY <1>1 DEF StartAnalysis, TypeOK, Procs, AnalysisStatus, ApprovalState
<1>2. CASE BeginWorkflow
  <2>1. checkpoint' \in [values : Values, next : SUBSET Nodes]
    BY <1>2, InitialValuesType DEF BeginWorkflow, Nodes
  <2>2. task' \in [Procs -> [Nodes -> Phases]]
    BY <1>2, ScheduledType DEF BeginWorkflow, TypeOK
  <2>3. QED
    BY <1>2, <2>1, <2>2 DEF BeginWorkflow, TypeOK
<1>3. ASSUME NEW p \in Procs, Superstep(p) PROVE TypeOK'
  <2>1. checkpoint' \in [values : Values, next : SUBSET Nodes]
    BY <1>3, NextNodesType DEF Superstep, TypeOK
  <2>2. /\ pc' \in [Procs -> PCs]
        /\ vals' \in [Procs -> Values]
        /\ task' \in [Procs -> [Nodes -> Phases]]
    <3>1. CASE NextNodes(p) = {} \/ NextNodes(p) \cap InterruptBefore # {}
      <4>1. /\ pc' = [pc EXCEPT ![p] = "ended"]
            /\ vals' = [vals EXCEPT ![p] = InitialValues]
            /\ task' = [task EXCEPT ![p] = Idle]
        BY <1>3, <3>1 DEF Superstep
      <4>2. QED
        BY <4>1, InitialValuesType, ScheduledType DEF TypeOK
    <3>2. CASE ~(NextNodes(p) = {} \/ NextNodes(p) \cap InterruptBefore # {})
      <4>1. Scheduled(NextNodes(p)) \in [Nodes -> Phases]
        BY ScheduledType
      <4>2. /\ task' = [task EXCEPT ![p] = Scheduled(NextNodes(p))]
            /\ UNCHANGED <<pc, vals>>
        BY <1>3, <3>2 DEF Superstep
      <4>3. QED
        BY <4>1, <4>2 DEF TypeOK
    <3>3. QED
      BY <3>1, <3>2
  <2>3. QED
    BY <1>3, <2>1, <2>2 DEF Superstep, TypeOK
<1>4. ASSUME NEW p \in Procs, Raise(p) PROVE TypeOK'
  <2>1. /\ vals' \in [Procs -> Values]
        /\ task' \in [Procs -> [Nodes -> Phases]]
    BY <1>4, InitialValuesType, ScheduledType DEF Raise, TypeOK
  <2>2. QED
    BY <1>4, <2>1 DEF Raise, TypeOK
<1>5. CASE Crash
  <2>1. /\ vals' \in [Procs -> Values]
        /\ task' \in [Procs -> [Nodes -> Phases]]
    BY <1>5, InitialValuesType, ScheduledType DEF Crash, TypeOK
  <2>2. QED
    BY <1>5, <2>1 DEF Crash, TypeOK
<1>6. QED
  BY <1>1, <1>2, <1>3, <1>4, <1>5

-----------------------------------------------------------------------------
(* What the steps of nodes have in common.                                 *)

(* Ready and Returned only get easier to meet as artifacts are saved and   *)
(* approvals let through.                                                  *)
Grows ==
  /\ artifacts.diagram # 0 => artifacts'.diagram # 0
  /\ artifacts.sql # 0 => artifacts'.sql # 0
  /\ GateOpen => GateOpen'

(* A step of node n in the graph of p: it goes on to another phase or      *)
(* returns, and leaves p's other nodes, the other graphs and the           *)
(* checkpoint as they are.                                                 *)
NodeEffect(p, n) ==
  /\ pc[p] = "running"
  /\ task[p][n] \notin {"off", "done"}
  /\ task'[p][n] # "off"
  /\ \A m \in Nodes \ {n} : task'[p][m] = task[p][m]
  /\ \A q \in Procs \ {p} : task'[q] = task[q] /\ vals'[q] = vals[q]
  /\ UNCHANGED <<checkpoint, pc, request>>
  /\ Grows
  /\ vals[p].model # 0 => vals'[p].model # 0
  /\ n = "generate_erd" /\ task'[p][n] = "announce" => artifacts'.diagram # 0
  /\ Ready(n, vals[p]) /\ task'[p][n] = "done" => Returned(n, vals[p])'
  /\ Ready(n, vals[p]) /\ task'[p][n] # "done" => Ready(n, vals[p])'
  /\ n \in Branches =>
       \A m \in Branches \ {n} :
         /\ Ready(m, vals[p]) => Ready(m, vals[p])'
         /\ Returned(m, vals[p]) => Returned(m, vals[p])'

LEMMA GoFacts ==
  ASSUME TypeOK, NEW p \in Procs, NEW n \in Nodes, NEW ph \in Phases, Go(p, n, ph)
  PROVE  /\ task'[p][n] = ph
         /\ \A m \in Nodes \ {n} : task'[p][m] = task[p][m]
         /\ \A q \in Procs \ {p} : task'[q] = task[q]
BY DEF TypeOK, Go

LEMMA ReturnFacts ==
  ASSUME TypeOK, NEW p \in Procs, NEW n \in Nodes, NEW v, Return(p, n, v)
  PROVE  /\ task'[p][n] = "done"
         /\ \A m \in Nodes \ {n} : task'[p][m] = task[p][m]
         /\ \A q \in Procs \ {p} : task'[q] = task[q] /\ vals'[q] = vals[q]
         /\ vals'[p] = v
<1>1. "done" \in Phases
  BY DEF Phases
<1>2. QED
  BY <1>1, GoFacts DEF TypeOK, Return

LEMMA AppendEnds ==
  ASSUME NEW s \in Seq(Nat), NEW x \in Nat
  PROVE  EndsWith(Append(s, x), x)
BY DEF EndsWith

(* Every step of a node is such a step.                                    *)
LEMMA NodeStep ==
  ASSUME TypeOK, NEW p \in Procs, GraphsSound,
         (\E n \in Nodes : EnterNode(p, n)) \/ Work(p)
  PROVE  \E n \in Nodes : NodeEffect(p, n)
<1> USE DEF At, Nodes, Phases
<1>0. vals[p] \in Values
  BY DEF TypeOK
<1>1. ASSUME NEW n \in Nodes, EnterNode(p, n) PROVE NodeEffect(p, n)
  <2>1. /\ task'[p][n] = "work"
        /\ \A m \in Nodes \ {n} : task'[p][m] = task[p][m]
        /\ \A q \in Procs \ {p} : task'[q] = task[q]
    BY <1>1, GoFacts DEF EnterNode
  <2>2. QED
    BY <1>1, <2>1 DEF EnterNode, NodeEffect, Grows, GateOpen, Approvals, Ready, Returned
<1>2. CASE ValidateInput(p)
  <2>1. /\ task'[p]["validate_input"] = "done"
        /\ \A m \in Nodes \ {"validate_input"} : task'[p][m] = task[p][m]
        /\ \A q \in Procs \ {p} : task'[q] = task[q] /\ vals'[q] = vals[q]
        /\ vals'[p] = vals[p]
    BY <1>2, ReturnFacts DEF ValidateInput
  <2>9. NodeEffect(p, "validate_input")
    BY <1>2, <2>1, <1>0 DEF ValidateInput, NodeEffect, Grows, GateOpen,
       Approvals, Ready, Returned, BeforeGate, AfterModel, Delivery, Branches, Undecided
  <2>10. QED
    BY <2>9
<1>3. CASE AnalyzeProject(p)
  <2>1. /\ task'[p]["analyze_project"] = "done"
        /\ \A m \in Nodes \ {"analyze_project"} : task'[p][m] = task[p][m]
        /\ \A q \in Procs \ {p} : task'[q] = task[q] /\ vals'[q] = vals[q]
        /\ vals'[p] = [vals[p] EXCEPT
             !.ir = [feedback |-> vals[p].feedback],
             !.approval = "pending", !.feedback = None]
    BY <1>3, ReturnFacts DEF AnalyzeProject
  <2>2. vals'[p].ir \in IR /\ vals'[p].ir # None
    BY <2>1, <1>0, NoneAssumption DEF Values, IR
  <2>9. NodeEffect(p, "analyze_project")
    BY <1>3, <2>1, <1>0, <2>2 DEF AnalyzeProject, NodeEffect, Grows, GateOpen,
       Approvals, Ready, Returned, BeforeGate, AfterModel, Delivery, Branches, Undecided
  <2>10. QED
    BY <2>9
<1>4. CASE ModelSchema(p)
  <2>1. /\ task'[p]["model_schema"] = "done"
        /\ \A m \in Nodes \ {"model_schema"} : task'[p][m] = task[p][m]
        /\ \A q \in Procs \ {p} : task'[q] = task[q] /\ vals'[q] = vals[q]
        /\ vals'[p] = [vals[p] EXCEPT !.model = Len(proposals) + 1]
    BY <1>4, ReturnFacts DEF ModelSchema
  <2>2. vals'[p].model # 0
    <3>1. Len(proposals) \in Nat
      BY DEF TypeOK
    <3>2. vals'[p].model = Len(proposals) + 1
      BY <2>1, <1>0 DEF Values
    <3>3. QED
      BY <3>1, <3>2
  <2>9. NodeEffect(p, "model_schema")
    BY <1>4, <2>1, <1>0, <2>2 DEF ModelSchema, NodeEffect, Grows, GateOpen,
       Approvals, Ready, Returned, BeforeGate, AfterModel, Delivery, Branches, Undecided
  <2>10. QED
    BY <2>9
<1>5. CASE AnalyzePerformance(p)
  <2>1. /\ task'[p]["analyze_performance"] = "done"
        /\ \A m \in Nodes \ {"analyze_performance"} : task'[p][m] = task[p][m]
        /\ \A q \in Procs \ {p} : task'[q] = task[q] /\ vals'[q] = vals[q]
        /\ vals'[p] = [vals[p] EXCEPT !.perf = Append(@, vals[p].model)]
    BY <1>5, ReturnFacts DEF AnalyzePerformance
  <2>2. EndsWith(vals'[p].perf, vals[p].model)
    BY <2>1, <1>0, AppendEnds DEF Values
  <2>3. /\ vals'[p].model = vals[p].model /\ vals'[p].approval = vals[p].approval
        /\ vals'[p].feedback = vals[p].feedback /\ vals'[p].sec = vals[p].sec
    BY <2>1, <1>0 DEF Values
  <2>9. NodeEffect(p, "analyze_performance")
    BY <1>5, <2>1, <1>0, <2>2, <2>3 DEF AnalyzePerformance, NodeEffect, Grows, GateOpen,
       Approvals, Ready, Returned, BeforeGate, AfterModel, Delivery, Branches, Undecided
  <2>10. QED
    BY <2>9
<1>6. CASE AnalyzeSecurity(p)
  <2>1. /\ task'[p]["analyze_security"] = "done"
        /\ \A m \in Nodes \ {"analyze_security"} : task'[p][m] = task[p][m]
        /\ \A q \in Procs \ {p} : task'[q] = task[q] /\ vals'[q] = vals[q]
        /\ vals'[p] = [vals[p] EXCEPT !.sec = Append(@, vals[p].model)]
    BY <1>6, ReturnFacts DEF AnalyzeSecurity
  <2>2. EndsWith(vals'[p].sec, vals[p].model)
    BY <2>1, <1>0, AppendEnds DEF Values
  <2>3. /\ vals'[p].model = vals[p].model /\ vals'[p].approval = vals[p].approval
        /\ vals'[p].feedback = vals[p].feedback /\ vals'[p].perf = vals[p].perf
    BY <2>1, <1>0 DEF Values
  <2>9. NodeEffect(p, "analyze_security")
    BY <1>6, <2>1, <1>0, <2>2, <2>3 DEF AnalyzeSecurity, NodeEffect, Grows, GateOpen,
       Approvals, Ready, Returned, BeforeGate, AfterModel, Delivery, Branches, Undecided
  <2>10. QED
    BY <2>9
<1>7. CASE MergeResults(p)
  <2>1. /\ task'[p]["merge_results"] = "done"
        /\ \A m \in Nodes \ {"merge_results"} : task'[p][m] = task[p][m]
        /\ \A q \in Procs \ {p} : task'[q] = task[q] /\ vals'[q] = vals[q]
        /\ vals'[p] = vals[p]
    BY <1>7, ReturnFacts DEF MergeResults
  <2>9. NodeEffect(p, "merge_results")
    BY <1>7, <2>1, <1>0 DEF MergeResults, NodeEffect, Grows, GateOpen,
       Approvals, Ready, Returned, BeforeGate, AfterModel, Delivery, Branches, Undecided
  <2>10. QED
    BY <2>9
<1>8. CASE GenerateErd(p)
  <2>1. /\ task'[p]["generate_erd"] = "announce"
        /\ \A m \in Nodes \ {"generate_erd"} : task'[p][m] = task[p][m]
        /\ \A q \in Procs \ {p} : task'[q] = task[q] /\ vals'[q] = vals[q]
        /\ vals'[p] = vals[p]
    BY <1>8, GoFacts DEF GenerateErd
  <2>9. NodeEffect(p, "generate_erd")
    BY <1>8, <2>1, <1>0 DEF GenerateErd, NodeEffect, Grows, GateOpen,
       Approvals, Ready, Returned, BeforeGate, AfterModel, Delivery, Branches, Undecided
  <2>10. QED
    BY <2>9
<1>9. CASE AnnounceErd(p)
  <2>1. /\ task'[p]["generate_erd"] = "done"
        /\ \A m \in Nodes \ {"generate_erd"} : task'[p][m] = task[p][m]
        /\ \A q \in Procs \ {p} : task'[q] = task[q] /\ vals'[q] = vals[q]
        /\ vals'[p] = [vals[p] EXCEPT !.diagram = vals[p].model]
    BY <1>9, ReturnFacts DEF AnnounceErd
  <2>2. artifacts.diagram # 0
    BY <1>9 DEF AnnounceErd, GraphsSound, GraphSound
  <2>9. NodeEffect(p, "generate_erd")
    BY <1>9, <2>1, <1>0, <2>2 DEF AnnounceErd, NodeEffect, Grows, GateOpen,
       Approvals, Ready, Returned, BeforeGate, AfterModel, Delivery, Branches, Undecided
  <2>10. QED
    BY <2>9
<1>10. CASE AwaitApproval(p)
  <2>1. /\ task'[p]["await_approval"] = "done"
        /\ \A m \in Nodes \ {"await_approval"} : task'[p][m] = task[p][m]
        /\ \A q \in Procs \ {p} : task'[q] = task[q] /\ vals'[q] = vals[q]
        /\ vals'[p] = vals[p]
    BY <1>10, ReturnFacts DEF AwaitApproval
  <2>9. NodeEffect(p, "await_approval")
    BY <1>10, <2>1, <1>0 DEF AwaitApproval, NodeEffect, Grows, GateOpen,
       Approvals, Ready, Returned, BeforeGate, AfterModel, Delivery, Branches, Undecided
  <2>10. QED
    BY <2>9
<1>11. CASE GenerateSql(p)
  <2>1. /\ task'[p]["generate_sql"] = "done"
        /\ \A m \in Nodes \ {"generate_sql"} : task'[p][m] = task[p][m]
        /\ \A q \in Procs \ {p} : task'[q] = task[q] /\ vals'[q] = vals[q]
        /\ vals'[p] = [vals[p] EXCEPT !.sql = vals[p].model]
    BY <1>11, ReturnFacts DEF GenerateSql
  <2>9. NodeEffect(p, "generate_sql")
    BY <1>11, <2>1, <1>0 DEF GenerateSql, NodeEffect, Grows, GateOpen,
       Approvals, Ready, Returned, BeforeGate, AfterModel, Delivery, Branches, Undecided
  <2>10. QED
    BY <2>9
<1>12. CASE UploadErd(p)
  <2>1. /\ task'[p]["update_openproject"] = "upload_sql"
        /\ \A m \in Nodes \ {"update_openproject"} : task'[p][m] = task[p][m]
        /\ \A q \in Procs \ {p} : task'[q] = task[q] /\ vals'[q] = vals[q]
        /\ vals'[p] = vals[p]
    BY <1>12, GoFacts DEF UploadErd
  <2>9. NodeEffect(p, "update_openproject")
    BY <1>12, <2>1, <1>0 DEF UploadErd, NodeEffect, Grows, GateOpen,
       Approvals, Ready, Returned, BeforeGate, AfterModel, Delivery, Branches, Undecided
  <2>10. QED
    BY <2>9
<1>13. CASE UploadSql(p)
  <2>1. /\ task'[p]["update_openproject"] = "comment"
        /\ \A m \in Nodes \ {"update_openproject"} : task'[p][m] = task[p][m]
        /\ \A q \in Procs \ {p} : task'[q] = task[q] /\ vals'[q] = vals[q]
        /\ vals'[p] = vals[p]
    BY <1>13, GoFacts DEF UploadSql
  <2>9. NodeEffect(p, "update_openproject")
    BY <1>13, <2>1, <1>0 DEF UploadSql, NodeEffect, Grows, GateOpen,
       Approvals, Ready, Returned, BeforeGate, AfterModel, Delivery, Branches, Undecided
  <2>10. QED
    BY <2>9
<1>14. CASE AddComment(p)
  <2>1. /\ task'[p]["update_openproject"] = "complete"
        /\ \A m \in Nodes \ {"update_openproject"} : task'[p][m] = task[p][m]
        /\ \A q \in Procs \ {p} : task'[q] = task[q] /\ vals'[q] = vals[q]
        /\ vals'[p] = vals[p]
    BY <1>14, GoFacts DEF AddComment
  <2>9. NodeEffect(p, "update_openproject")
    BY <1>14, <2>1, <1>0 DEF AddComment, NodeEffect, Grows, GateOpen,
       Approvals, Ready, Returned, BeforeGate, AfterModel, Delivery, Branches, Undecided
  <2>10. QED
    BY <2>9
<1>15. CASE Complete(p)
  <2>1. /\ task'[p]["update_openproject"] = "done"
        /\ \A m \in Nodes \ {"update_openproject"} : task'[p][m] = task[p][m]
        /\ \A q \in Procs \ {p} : task'[q] = task[q] /\ vals'[q] = vals[q]
        /\ vals'[p] = vals[p]
    BY <1>15, ReturnFacts DEF Complete
  <2>9. NodeEffect(p, "update_openproject")
    BY <1>15, <2>1, <1>0 DEF Complete, NodeEffect, Grows, GateOpen,
       Approvals, Ready, Returned, BeforeGate, AfterModel, Delivery, Branches, Undecided
  <2>10. QED
    BY <2>9
<1>16. QED
  BY <1>1, <1>2, <1>3, <1>4, <1>5, <1>6, <1>7, <1>8, <1>9, <1>10, <1>11, <1>12, <1>13, <1>14, <1>15 DEF Work

-----------------------------------------------------------------------------
(* The graphs and the checkpoint stay sound.                               *)

LEMMA ReadyGrows ==
  ASSUME Grows, NEW n, NEW q \in Procs, vals'[q] = vals[q]
  PROVE  /\ Ready(n, vals[q]) => Ready(n, vals[q])'
         /\ Returned(n, vals[q]) => Returned(n, vals[q])'
BY DEF Grows, Ready, Returned, Undecided

LEMMA CheckpointGrows ==
  ASSUME Grows, NEW n, checkpoint' = checkpoint
  PROVE  Ready(n, checkpoint.values) => Ready(n, checkpoint.values)'
BY DEF Grows, Ready, Undecided

(* A graph that a step leaves alone stays sound.                           *)
LEMMA GraphGrows ==
  ASSUME Grows, NEW q \in Procs, GraphSound(q),
         vals'[q] = vals[q], task'[q] = task[q]
  PROVE  GraphSound(q)'
<1>1. Scheduling(q)' = Scheduling(q)
  BY DEF Scheduling
<1>2. \A m \in Nodes : /\ Ready(m, vals[q]) => Ready(m, vals[q])'
                       /\ Returned(m, vals[q]) => Returned(m, vals[q])'
  BY ReadyGrows
<1>3. QED
  BY <1>1, <1>2 DEF GraphSound, Grows

LEMMA NodeKeepsGraphs ==
  ASSUME TypeOK, GraphsSound, CheckpointSound,
         NEW p \in Procs, NEW n \in Nodes, NodeEffect(p, n)
  PROVE  GraphsSound' /\ CheckpointSound'
<1>1. CheckpointSound'
  BY CheckpointGrows DEF NodeEffect, CheckpointSound, IsSuperstep
<1>2. ASSUME NEW q \in Procs, pc'[q] = "running", q # p
      PROVE  GraphSound(q)'
  <2>1. /\ pc[q] = "running" /\ task'[q] = task[q] /\ vals'[q] = vals[q] /\ Grows
    BY <1>2 DEF NodeEffect
  <2>2. QED
    BY <2>1, GraphGrows DEF GraphsSound
<1>3. ASSUME pc'[p] = "running"
      PROVE  GraphSound(p)'
  <2>1. IsSuperstep(Scheduling(p)) /\ Ready(n, vals[p])
    BY DEF NodeEffect, GraphsSound, GraphSound
  <2>2. Scheduling(p)' = Scheduling(p)
    BY DEF NodeEffect, Scheduling
  <2>3. /\ task'[p][n] \notin {"off", "done"} => Ready(n, vals[p])'
        /\ task'[p][n] = "done" => Returned(n, vals[p])'
    BY <2>1 DEF NodeEffect
  <2>4. ASSUME NEW m \in Nodes, m # n, task'[p][m] # "off"
        PROVE  /\ task'[p][m] # "done" => Ready(m, vals[p])'
               /\ task'[p][m] = "done" => Returned(m, vals[p])'
    <3>1. task'[p][m] = task[p][m]
      BY <2>4 DEF NodeEffect
    <3>2. m \in Scheduling(p) /\ n \in Scheduling(p)
      BY <2>4, <3>1 DEF Scheduling, NodeEffect
    <3>3. m \in Branches /\ n \in Branches
      BY <2>1, <3>2, <2>4 DEF IsSuperstep
    <3>4. /\ task[p][m] # "done" => Ready(m, vals[p])
          /\ task[p][m] = "done" => Returned(m, vals[p])
      BY <3>1, <2>4 DEF GraphsSound, GraphSound, NodeEffect
    <3>5. QED
      BY <3>1, <3>3, <3>4, <2>4 DEF NodeEffect
  <2>5. task'[p]["generate_erd"] = "announce" => artifacts'.diagram # 0
    <3>1. CASE n = "generate_erd"
      BY <3>1 DEF NodeEffect
    <3>2. CASE n # "generate_erd"
      BY <3>2 DEF NodeEffect, GraphsSound, GraphSound, Grows, Nodes
    <3>3. QED
      BY <3>1, <3>2
  <2>6. QED
    BY <2>1, <2>2, <2>3, <2>4, <2>5 DEF GraphSound, IsSuperstep
<1>4. QED
  BY <1>1, <1>2, <1>3 DEF GraphsSound

(* The nodes that a finished superstep leads to form a superstep and are   *)
(* ready: this is where the two branches are known to have been joined.    *)
LEMMA Advance ==
  ASSUME TypeOK, GraphsSound, NEW p \in Procs, pc[p] = "running",
         \A n \in Nodes : task[p][n] \in {"off", "done"}
  PROVE  /\ IsSuperstep(NextNodes(p))
         /\ \A m \in NextNodes(p) : Ready(m, vals[p])
<1>1. /\ IsSuperstep(Scheduling(p))
      /\ \A n \in Scheduling(p) : n \in Nodes /\ Returned(n, vals[p])
  BY DEF GraphsSound, GraphSound, Scheduling
<1>2. ASSUME NEW n \in Scheduling(p), NEW m \in EdgesFrom(n, vals[p].approval)
      PROVE  Ready(m, vals[p])
  <2>1. Returned(n, vals[p]) /\ n \in Nodes
    BY <1>1
  <2>2. n \in Branches => \A k \in Branches : Returned(k, vals[p])
    BY <1>1 DEF IsSuperstep, Branches
  <2>3. QED
    BY <2>1, <2>2 DEF EdgesFrom, RouteAfterApproval, Nodes, Branches, Ready,
       Returned, BeforeGate, AfterModel, Delivery, Undecided
<1>3. ASSUME NEW n \in Scheduling(p), NEW k \in Scheduling(p)
      PROVE  EdgesFrom(n, vals[p].approval) = EdgesFrom(k, vals[p].approval)
  BY <1>1 DEF IsSuperstep, Branches, EdgesFrom
<1>4. CASE Scheduling(p) = {}
  BY <1>4 DEF NextNodes, IsSuperstep
<1>5. ASSUME NEW n \in Scheduling(p)
      PROVE  /\ NextNodes(p) = EdgesFrom(n, vals[p].approval)
             /\ IsSuperstep(EdgesFrom(n, vals[p].approval))
  <2>1. NextNodes(p) = EdgesFrom(n, vals[p].approval)
    BY <1>3 DEF NextNodes
  <2>2. IsSuperstep(EdgesFrom(n, vals[p].approval))
    BY <1>1 DEF IsSuperstep, Branches, EdgesFrom, RouteAfterApproval, Nodes
  <2>3. QED
    BY <2>1, <2>2
<1>6. QED
  BY <1>2, <1>4, <1>5

-----------------------------------------------------------------------------
(* A step of a node keeps the rest of the invariant.                       *)

LEMMA NodeKeepsDecisions ==
  ASSUME TypeOK, GraphsSound, DecisionsFollowModel,
         NEW p \in Procs, NEW n \in Nodes, NodeEffect(p, n),
         row'.status = "awaiting_approval" => artifacts'.diagram # 0,
         artifacts'.diagram = artifacts.diagram \/ n = "generate_erd"
  PROVE  DecisionsFollowModel'
<1>1. \A q \in Procs, m \in Nodes : Active(q, m)' <=> Active(q, m)
  BY DEF NodeEffect, Active
<1>2. \A q \in Procs : vals[q].model # 0 => vals'[q].model # 0
  BY DEF NodeEffect
<1>3. AfterModel \subseteq Nodes
  BY DEF AfterModel, Nodes
<1>4. CASE artifacts.diagram # 0
  BY <1>1, <1>2, <1>3, <1>4 DEF DecisionsFollowModel, NodeEffect, Grows, Untouched
<1>5. CASE artifacts.diagram = 0 /\ artifacts'.diagram = 0
  BY <1>1, <1>3, <1>5 DEF DecisionsFollowModel, NodeEffect, Untouched
<1>6. CASE artifacts.diagram = 0 /\ artifacts'.diagram # 0
  <2>1. n = "generate_erd" /\ Ready(n, vals[p])
    BY <1>6 DEF NodeEffect, GraphsSound, GraphSound
  <2>2. checkpoint.values.model # 0 /\ vals'[p].model # 0
    BY <2>1 DEF DecisionsFollowModel, NodeEffect, Active, Ready, AfterModel
  <2>3. \A q \in Procs : pc[q] \in {"running", "updating"} => q = p
    BY <1>6 DEF DecisionsFollowModel, Untouched, NodeEffect, Procs
  <2>4. p = Starter
    BY <1>6 DEF DecisionsFollowModel, Untouched, NodeEffect, Procs
  <2>5. QED
    BY <1>1, <1>3, <1>6, <2>2, <2>3, <2>4
       DEF DecisionsFollowModel, NodeEffect, Untouched
<1>7. QED
  BY <1>4, <1>5, <1>6

LEMMA NodeKeepsRequests ==
  ASSUME RequestsSound, NEW p \in Procs, NEW n \in Nodes, NodeEffect(p, n)
  PROVE  RequestsSound'
<1>1. \A r \in Requests : pc'[r] = "updating" => vals'[r] = vals[r]
  BY DEF NodeEffect, Procs
<1>2. QED
  BY <1>1 DEF RequestsSound, NodeEffect, Untouched

(* Nothing but a diagram leads to awaiting_approval.                       *)
LEMMA NodeStatus ==
  ASSUME TypeOK, GraphsSound, DecisionsFollowModel, NEW p \in Procs,
         (\E n \in Nodes : EnterNode(p, n)) \/ Work(p)
  PROVE  row'.status = "awaiting_approval" => artifacts'.diagram # 0
<1>1. ASSUME NEW n \in Nodes, EnterNode(p, n), row'.status = "awaiting_approval"
      PROVE  artifacts'.diagram # 0
  <2>1. row'.status = StatusOf[n]
    BY <1>1 DEF EnterNode, PersistStatus, TypeOK
  <2>2. n = "await_approval"
    BY <1>1, <2>1, StatusOfType
  <2>3. Ready(n, vals[p])
    BY <1>1 DEF EnterNode, At, GraphsSound, GraphSound
  <2>4. QED
    BY <1>1, <2>2, <2>3 DEF EnterNode, Ready
<1>2. CASE AnnounceErd(p)
  BY <1>2 DEF AnnounceErd, At, GraphsSound, GraphSound
<1>3. CASE GenerateErd(p)
  BY <1>3 DEF GenerateErd, TypeOK
<1>4. CASE Complete(p)
  BY <1>4 DEF Complete, PersistStatus, TypeOK
<1>5. ASSUME Work(p), ~AnnounceErd(p), ~GenerateErd(p), ~Complete(p)
      PROVE  row' = row /\ (artifacts'.diagram = artifacts.diagram)
  BY <1>5 DEF Work, ValidateInput, AnalyzeProject, ModelSchema,
     AnalyzePerformance, AnalyzeSecurity, MergeResults, AwaitApproval,
     GenerateSql, UploadErd, UploadSql, AddComment, TypeOK
<1>6. QED
  BY <1>1, <1>2, <1>3, <1>4, <1>5 DEF DecisionsFollowModel

LEMMA PostKeeps ==
  ASSUME TypeOK, NEW w, NEW m, ticket' = Post(w, m)
  PROVE  /\ SqlPosted => SqlPosted'
         /\ w = "sql" => SqlPosted'
<1>1. /\ DOMAIN ticket' = 1..(Len(ticket) + 1)
      /\ \A i \in 1..Len(ticket) : ticket'[i] = ticket[i]
      /\ ticket'[Len(ticket) + 1] = [what |-> w, model |-> m]
      /\ DOMAIN ticket = 1..Len(ticket)
      /\ Len(ticket) \in Nat
  BY DEF TypeOK, Post
<1>2. QED
  BY <1>1 DEF SqlPosted

LEMMA NodeKeepsDelivery ==
  ASSUME TypeOK, IInv, NEW p \in Procs,
         (\E n \in Nodes : EnterNode(p, n)) \/ Work(p)
  PROVE  DeliverySound'
<1> DEFINE Late(q) == pc[q] = "running" /\
      task[q]["update_openproject"] \in {"comment", "complete", "done"}
<1> USE DEF At
<1>1. PICK n \in Nodes : NodeEffect(p, n)
  BY NodeStep DEF IInv
<1>2. GateOpen => GateNeedsApproval'
  BY <1>1 DEF NodeEffect, Grows, GateNeedsApproval, GateOpen
<1>3. \A q \in Procs : q # p => (Late(q)' <=> Late(q))
  BY <1>1 DEF NodeEffect
<1>4. \A q \in Procs : Late(q) => SqlPosted
  BY DEF IInv, DeliverySound
<1>5. ASSUME NEW k \in Delivery, task[p][k] \notin {"off", "done"}
      PROVE  GateOpen /\ (k = "update_openproject" => artifacts.sql # 0 /\ vals[p].sql # 0)
  BY <1>1, <1>5 DEF IInv, GraphsSound, GraphSound, NodeEffect, Ready, Delivery, Nodes
<1>6. ASSUME NEW k \in Nodes, EnterNode(p, k)
      PROVE  DeliverySound'
  <2>1. row'.status # "completed"
    BY <1>6, StatusOfType DEF EnterNode, PersistStatus, TypeOK
  <2>2. Late(p)' => Late(p)
    <3>1. task'[p][k] = "work" /\ \A m \in Nodes \ {k} : task'[p][m] = task[p][m]
      BY <1>6, GoFacts DEF EnterNode, Phases
    <3>2. QED
      BY <1>6, <3>1 DEF EnterNode, Nodes
  <2>3. UNCHANGED <<ticket, artifacts, pc, request>>
    BY <1>6 DEF EnterNode
  <2>4. QED
    BY <1>3, <1>4, <2>1, <2>2, <2>3
       DEF IInv, DeliverySound, GateNeedsApproval, Approvals, SqlPosted
<1>7. CASE GenerateSql(p)
  <2>1. GateOpen
    BY <1>5, <1>7 DEF GenerateSql, Delivery
  <2>2. Late(p)' => Late(p)
    <3>1. \A m \in Nodes \ {"generate_sql"} : task'[p][m] = task[p][m]
      BY <1>7, ReturnFacts DEF GenerateSql, Nodes
    <3>2. QED
      BY <1>7, <3>1 DEF GenerateSql, Nodes
  <2>3. artifacts'.sql # 0
    BY <1>7 DEF GenerateSql, TypeOK
  <2>4. row' = row /\ ticket' = ticket
    BY <1>7 DEF GenerateSql
  <2>5. QED
    BY <1>2, <1>3, <1>4, <2>1, <2>2, <2>3, <2>4 DEF IInv, DeliverySound, SqlPosted
<1>8. CASE UploadErd(p)
  <2>1. GateOpen
    BY <1>5, <1>8 DEF UploadErd, Delivery
  <2>2. ~Late(p)'
    <3>1. task'[p]["update_openproject"] = "upload_sql"
      BY <1>8, GoFacts DEF UploadErd, Nodes, Phases
    <3>2. QED
      BY <3>1
  <2>3. SqlPosted => SqlPosted'
    <3>1. ticket' = Post("erd", vals[p].diagram) \/ ticket' = ticket
      BY <1>8 DEF UploadErd
    <3>2. QED
      BY <3>1, PostKeeps DEF SqlPosted
  <2>4. row' = row /\ artifacts' = artifacts
    BY <1>8 DEF UploadErd
  <2>5. QED
    BY <1>2, <1>3, <1>4, <2>1, <2>2, <2>3, <2>4 DEF IInv, DeliverySound
<1>9. CASE UploadSql(p)
  <2>1. GateOpen /\ vals[p].sql # 0
    BY <1>5, <1>9 DEF UploadSql, Delivery
  <2>2. SqlPosted'
    BY <1>9, <2>1, PostKeeps DEF UploadSql
  <2>3. row' = row /\ artifacts' = artifacts
    BY <1>9 DEF UploadSql
  <2>4. QED
    BY <1>2, <2>1, <2>2, <2>3 DEF IInv, DeliverySound
<1>10. CASE AddComment(p)
  <2>1. GateOpen /\ SqlPosted
    BY <1>4, <1>5, <1>10 DEF AddComment, Delivery
  <2>2. SqlPosted'
    <3>1. ticket' = Post("comment", vals[p].model) \/ ticket' = ticket
      BY <1>10 DEF AddComment
    <3>2. QED
      BY <2>1, <3>1, PostKeeps DEF SqlPosted
  <2>3. row' = row /\ artifacts' = artifacts
    BY <1>10 DEF AddComment
  <2>4. QED
    BY <1>2, <2>1, <2>2, <2>3 DEF IInv, DeliverySound
<1>11. CASE Complete(p)
  <2>1. GateOpen /\ SqlPosted /\ artifacts.sql # 0
    BY <1>4, <1>5, <1>11 DEF Complete, Delivery
  <2>2. UNCHANGED <<ticket, artifacts>>
    BY <1>11 DEF Complete
  <2>3. QED
    BY <1>2, <2>1, <2>2 DEF IInv, DeliverySound, SqlPosted
<1>12. ASSUME Work(p), ~GenerateSql(p), ~UploadErd(p), ~UploadSql(p),
              ~AddComment(p), ~Complete(p)
       PROVE  DeliverySound'
  <2>1. /\ row' = row \/ row'.status = "awaiting_approval"
        /\ ticket' = ticket /\ artifacts'.sql = artifacts.sql
    BY <1>12 DEF Work, ValidateInput, AnalyzeProject, ModelSchema,
       AnalyzePerformance, AnalyzeSecurity, MergeResults, GenerateErd,
       AnnounceErd, PersistStatus, AwaitApproval, TypeOK
  <2>2. task'[p]["update_openproject"] = task[p]["update_openproject"]
    <3>1. \E k \in Nodes \ {"update_openproject"}, ph \in Phases : Go(p, k, ph)
      BY <1>12 DEF Work, ValidateInput, AnalyzeProject, ModelSchema,
         AnalyzePerformance, AnalyzeSecurity, MergeResults, GenerateErd,
         AnnounceErd, AwaitApproval, Return, Nodes, Phases
    <3>2. QED
      BY <3>1, GoFacts DEF Nodes
  <2>3. Late(p)' => Late(p)
    BY <1>1, <2>2 DEF NodeEffect, Nodes, Delivery
  <2>4. GateNeedsApproval'
    BY <1>1, <2>1 DEF IInv, DeliverySound, NodeEffect, GateNeedsApproval, Approvals
  <2>5. QED
    BY <1>3, <1>4, <2>1, <2>3, <2>4 DEF IInv, DeliverySound, SqlPosted
<1>13. QED
  BY <1>6, <1>7, <1>8, <1>9, <1>10, <1>11, <1>12

LEMMA NodeKeepsSnapshot ==
  ASSUME TypeOK, IInv, NEW p \in Procs,
         (\E n \in Nodes : EnterNode(p, n)) \/ Work(p)
  PROVE  SnapshotSound'
<1>1. CASE MergeResults(p)
  <2>1. Ready("merge_results", vals[p])
    BY <1>1 DEF MergeResults, At, IInv, GraphsSound, GraphSound, Nodes
  <2>2. QED
    BY <1>1, <2>1 DEF MergeResults, Ready, SnapshotSound
<1>2. CASE ~MergeResults(p)
  <2>1. snapshot' = snapshot
    BY <1>2 DEF EnterNode, Work, ValidateInput, AnalyzeProject, ModelSchema,
       AnalyzePerformance, AnalyzeSecurity, GenerateErd, AnnounceErd,
       AwaitApproval, GenerateSql, UploadErd, UploadSql, AddComment, Complete
  <2>2. QED
    BY <2>1 DEF IInv, SnapshotSound
<1>3. QED
  BY <1>1, <1>2

LEMMA NodeKeepsIInv ==
  ASSUME TypeOK, IInv, NEW p \in Procs,
         (\E n \in Nodes : EnterNode(p, n)) \/ Work(p)
  PROVE  IInv'
<1>1. /\ GraphsSound /\ CheckpointSound /\ DecisionsFollowModel
      /\ RequestsSound
  BY DEF IInv
<1>2. PICK n \in Nodes : NodeEffect(p, n)
  BY <1>1, NodeStep
<1>3. GraphsSound' /\ CheckpointSound'
  BY <1>1, <1>2, NodeKeepsGraphs
<1>4. artifacts'.diagram = artifacts.diagram \/ n = "generate_erd"
  <2>1. CASE GenerateErd(p)
    <3>1. task'[p]["generate_erd"] # task[p]["generate_erd"]
      BY <2>1, GoFacts DEF GenerateErd, At, Nodes, Phases
    <3>2. QED
      BY <1>2, <3>1 DEF NodeEffect, Nodes
  <2>2. CASE ~GenerateErd(p)
    BY <2>2 DEF EnterNode, Work, ValidateInput, AnalyzeProject, ModelSchema,
       AnalyzePerformance, AnalyzeSecurity, MergeResults, AnnounceErd,
       AwaitApproval, GenerateSql, UploadErd, UploadSql, AddComment, Complete, TypeOK
  <2>3. QED
    BY <2>1, <2>2
<1>5. DecisionsFollowModel'
  BY <1>1, <1>2, <1>4, NodeStatus, NodeKeepsDecisions
<1>6. RequestsSound'
  BY <1>1, <1>2, NodeKeepsRequests
<1>7. DeliverySound' /\ SnapshotSound'
  BY NodeKeepsDelivery, NodeKeepsSnapshot
<1>8. QED
  BY <1>3, <1>5, <1>6, <1>7 DEF IInv

-----------------------------------------------------------------------------
(* The runtime's and the requests' steps keep the invariant.               *)

LEMMA SuperstepKeepsIInv ==
  ASSUME TypeOK, IInv, NEW p \in Procs, Superstep(p)
  PROVE  IInv'
<1> DEFINE next == NextNodes(p)
<1>1. /\ IsSuperstep(next) /\ next \subseteq Nodes
      /\ \A m \in next : Ready(m, vals[p])
  BY Advance, NextNodesType DEF Superstep, IInv
<1>2. /\ checkpoint' = [values |-> vals[p], next |-> next]
      /\ UNCHANGED <<row, snapshot, artifacts, ticket, request>>
      /\ pc[p] = "running"
  BY DEF Superstep
<1>3. \/ /\ pc' = [pc EXCEPT ![p] = "ended"]
         /\ vals' = [vals EXCEPT ![p] = InitialValues]
         /\ task' = [task EXCEPT ![p] = Idle]
      \/ /\ pc' = pc /\ vals' = vals
         /\ task' = [task EXCEPT ![p] = Scheduled(next)]
  BY DEF Superstep
<1> HIDE DEF next
<1>4. /\ pc'[p] \in {"ended", "running"}
      /\ pc'[p] = "running" => vals'[p] = vals[p] /\ task'[p] = Scheduled(next)
      /\ \A q \in Procs \ {p} : /\ pc'[q] = pc[q] /\ vals'[q] = vals[q]
                               /\ task'[q] = task[q]
  BY <1>2, <1>3 DEF TypeOK
<1>5. GateOpen => GateOpen'
  BY <1>2, <1>4 DEF GateOpen, Approvals, Procs
<1>6. Grows
  BY <1>2, <1>5 DEF Grows
<1>7. \A m \in next : /\ Ready(m, checkpoint.values)'
                      /\ pc'[p] = "running" => Ready(m, vals[p])'
  <2>1. checkpoint'.values = vals[p]
    BY <1>2
  <2>2. QED
    BY <1>1, <1>4, <1>6, <2>1 DEF Grows, Ready, Undecided
<1>8. CheckpointSound'
  BY <1>1, <1>2, <1>7 DEF CheckpointSound, IsSuperstep
<1>9. GraphsSound'
  <2>1. ASSUME NEW q \in Procs, q # p, pc'[q] = "running"
        PROVE  GraphSound(q)'
    <3>1. pc[q] = "running" /\ vals'[q] = vals[q] /\ task'[q] = task[q]
      BY <1>4, <2>1
    <3>2. QED
      BY <1>6, <3>1, GraphGrows DEF IInv, GraphsSound
  <2>2. ASSUME pc'[p] = "running"
        PROVE  GraphSound(p)'
    <3>1. \A m \in Nodes : task'[p][m] = IF m \in next THEN "enter" ELSE "off"
      BY <1>4, <2>2 DEF Scheduled
    <3>2. Scheduling(p)' = next
      BY <1>1, <3>1 DEF Scheduling
    <3>3. QED
      BY <1>1, <1>7, <2>2, <3>1, <3>2 DEF GraphSound, IsSuperstep, Nodes
  <2>3. QED
    BY <2>1, <2>2 DEF GraphsSound, GraphSound
<1>10. DecisionsFollowModel'
  <2>1. checkpoint'.values.model = vals[p].model
    BY <1>2
  <2>2. CASE artifacts.diagram # 0
    <3>1. vals[p].model # 0
      BY <1>2, <2>2 DEF IInv, DecisionsFollowModel
    <3>2. pc'[Starter] \notin {"idle", "queued"}
      BY <1>2, <1>4, <2>2 DEF IInv, DecisionsFollowModel, Procs
    <3>3. \A q \in Procs : pc'[q] \in {"running", "updating"} => vals'[q].model # 0
      BY <1>2, <1>4, <2>2, <3>1 DEF IInv, DecisionsFollowModel
    <3>4. QED
      BY <1>2, <2>1, <2>2, <3>1, <3>2, <3>3 DEF DecisionsFollowModel
  <2>3. CASE artifacts.diagram = 0
    <3>1. \A q \in Procs : pc[q] = "running" => q = p
      BY <1>2, <2>3 DEF IInv, DecisionsFollowModel, Untouched, Procs
    <3>2. \A r \in Requests : Untouched(r)'
      BY <1>2, <1>4, <2>3 DEF IInv, DecisionsFollowModel, Untouched, Procs
    <3>3. ASSUME NEW q \in Procs, NEW m \in AfterModel, Active(q, m)'
          PROVE  vals[p].model # 0
      <4>1. q = p
        BY <1>4, <3>1, <3>3 DEF Active
      <4>2. m \in next
        BY <1>4, <3>3, <4>1 DEF Active, Scheduled, AfterModel, Nodes
      <4>3. QED
        BY <1>1, <4>2 DEF Ready
    <3>4. QED
      BY <1>2, <2>1, <2>3, <3>2, <3>3 DEF IInv, DecisionsFollowModel
  <2>4. QED
    BY <2>2, <2>3
<1>11. RequestsSound'
  <2>1. \A r \in Requests : /\ Untouched(r)' <=> Untouched(r)
                            /\ pc'[r] = "updating" => pc[r] = "updating" /\ vals'[r] = vals[r]
    BY <1>2, <1>4 DEF Untouched, Procs
  <2>2. QED
    BY <1>2, <2>1 DEF IInv, RequestsSound
<1>12. DeliverySound'
  <2>1. GateNeedsApproval'
    BY <1>2, <1>5 DEF IInv, DeliverySound, GateNeedsApproval, GateOpen
  <2>2. pc'[p] = "running" =>
          task'[p]["update_openproject"] \notin {"comment", "complete", "done"}
    BY <1>4 DEF Scheduled, Nodes
  <2>3. QED
    BY <1>2, <1>4, <2>1, <2>2 DEF IInv, DeliverySound, SqlPosted
<1>13. SnapshotSound'
  BY <1>2 DEF IInv, SnapshotSound
<1>14. QED
  BY <1>8, <1>9, <1>10, <1>11, <1>12, <1>13 DEF IInv

(* Tasks that fail take nothing with them that the invariant needs.        *)
LEMMA FaultKeepsIInv ==
  ASSUME TypeOK, IInv,
         Crash \/ \E p \in Procs : Raise(p)
  PROVE  IInv'
<1>1. /\ UNCHANGED <<row, snapshot, artifacts, checkpoint, ticket, request>>
      /\ \A q \in Procs :
           \/ pc'[q] = "failed" /\ Live(q)
           \/ pc'[q] = pc[q] /\ ~Live(q)
           \/ pc'[q] = pc[q] /\ vals'[q] = vals[q] /\ task'[q] = task[q]
  BY DEF Crash, Raise, TypeOK
<1>2. \A q \in Procs :
        /\ pc'[q] \in {"running", "updating"} =>
             pc'[q] = pc[q] /\ vals'[q] = vals[q] /\ task'[q] = task[q]
        /\ pc'[q] \in {"idle", "refused", "accepted", "queued"} => pc'[q] = pc[q]
        /\ pc[q] \in {"idle", "refused"} => pc'[q] = pc[q]
  BY <1>1 DEF Live
<1>3. Grows
  BY <1>1, <1>2 DEF Grows, GateOpen, Approvals, Procs
<1>4. GraphsSound'
  <2>1. ASSUME NEW q \in Procs, pc'[q] = "running"
        PROVE  GraphSound(q)'
    <3>1. pc[q] = "running" /\ vals'[q] = vals[q] /\ task'[q] = task[q]
      BY <1>2, <2>1
    <3>2. QED
      BY <1>3, <3>1, GraphGrows DEF IInv, GraphsSound
  <2>2. QED
    BY <2>1 DEF GraphsSound, GraphSound
<1>5. CheckpointSound'
  BY <1>1, <1>3, CheckpointGrows DEF IInv, CheckpointSound, IsSuperstep
<1>6. DecisionsFollowModel'
  <2>1. Starter \in Procs
    BY DEF Procs
  <2>2. QED
    BY <1>1, <1>2, <2>1 DEF IInv, DecisionsFollowModel, Untouched, Active, Procs
<1>7. RequestsSound'
  BY <1>1, <1>2 DEF IInv, RequestsSound, Untouched, Procs
<1>8. DeliverySound'
  BY <1>1, <1>2, <1>3 DEF IInv, DeliverySound, SqlPosted, GateNeedsApproval, GateOpen, Grows
<1>9. SnapshotSound'
  BY <1>1 DEF IInv, SnapshotSound
<1>10. QED
  BY <1>4, <1>5, <1>6, <1>7, <1>8, <1>9 DEF IInv

(* The start of a session, before anything is decided.                     *)
LEMMA StartKeepsIInv ==
  ASSUME TypeOK, IInv, StartAnalysis \/ BeginWorkflow
  PROVE  IInv'
<1> USE DEF Procs
<1>1. artifacts.diagram = 0 /\ pc[Starter] \in {"idle", "queued"}
  BY DEF StartAnalysis, BeginWorkflow, IInv, DecisionsFollowModel
<1>2. \A r \in Requests : Untouched(r) /\ r # Starter
  BY <1>1, StarterAssumption DEF IInv, DecisionsFollowModel
<1>3. \A q \in Procs \ {Starter} : pc[q] \notin {"running", "updating"}
  BY <1>2 DEF Untouched
<1>4. CASE StartAnalysis
  <2>1. /\ pc'[Starter] = "queued"
        /\ \A r \in Requests : pc'[r] = pc[r]
        /\ row'.status = "pending"
        /\ UNCHANGED <<snapshot, artifacts, checkpoint, ticket, request, vals, task>>
    BY <1>2, <1>4 DEF StartAnalysis, TypeOK
  <2>2. \A q \in Procs : pc'[q] \notin {"running", "updating"}
    BY <1>3, <2>1
  <2>3. Grows
    BY <1>2, <2>1 DEF Grows, GateOpen, Approvals
  <2>4. GraphsSound'
    BY <2>2 DEF GraphsSound, GraphSound
  <2>5. CheckpointSound'
    BY <2>1, <2>3, CheckpointGrows DEF IInv, CheckpointSound, IsSuperstep
  <2>6. DecisionsFollowModel'
    BY <1>1, <1>2, <2>1, <2>2 DEF DecisionsFollowModel, Untouched, Active
  <2>7. RequestsSound' /\ DeliverySound' /\ SnapshotSound'
    BY <2>1, <2>2, <2>3 DEF IInv, RequestsSound, Untouched, DeliverySound,
       SqlPosted, GateNeedsApproval, GateOpen, Grows, SnapshotSound
  <2>8. QED
    BY <2>4, <2>5, <2>6, <2>7 DEF IInv
<1>5. CASE BeginWorkflow
  <2>1. /\ pc'[Starter] = "running"
        /\ \A r \in Requests : pc'[r] = pc[r]
        /\ checkpoint' = [values |-> InitialValues, next |-> {"validate_input"}]
        /\ task'[Starter] = Scheduled({"validate_input"})
        /\ vals'[Starter] = InitialValues
        /\ \A r \in Requests : vals'[r] = vals[r] /\ task'[r] = task[r]
        /\ UNCHANGED <<row, snapshot, artifacts, ticket, request>>
    BY <1>2, <1>5 DEF BeginWorkflow, TypeOK
  <2>2. \A q \in Procs : pc'[q] \in {"running", "updating"} => q = Starter
    BY <1>3, <2>1
  <2>3. Grows
    BY <1>2, <2>1 DEF Grows, GateOpen, Approvals
  <2>4. \A m \in Nodes : task'[Starter][m] =
          IF m = "validate_input" THEN "enter" ELSE "off"
    BY <2>1 DEF Scheduled
  <2>5. Scheduling(Starter)' = {"validate_input"}
    BY <2>4 DEF Scheduling, Nodes
  <2>6. IsSuperstep({"validate_input"})
    BY DEF IsSuperstep
  <2>8. Ready("validate_input", vals[Starter])'
    BY <2>1 DEF Ready, InitialValues, Undecided, AfterModel, Delivery
  <2>9. GraphsSound'
    BY <2>2, <2>4, <2>5, <2>6, <2>8 DEF GraphsSound, GraphSound, Nodes
  <2>10. CheckpointSound'
    BY <2>1, <2>6 DEF CheckpointSound, Ready, InitialValues, Undecided, AfterModel, Delivery
  <2>11. DecisionsFollowModel'
    BY <1>1, <1>2, <2>1, <2>2, <2>4 DEF IInv, DecisionsFollowModel, Untouched,
       Active, AfterModel, Nodes
  <2>12. RequestsSound' /\ SnapshotSound'
    BY <1>2, <2>1, <2>2 DEF IInv, RequestsSound, Untouched, SnapshotSound
  <2>13. DeliverySound'
    BY <2>1, <2>2, <2>3, <2>4 DEF IInv, DeliverySound,
       SqlPosted, GateNeedsApproval, GateOpen, Grows, Nodes
  <2>14. QED
    BY <2>9, <2>10, <2>11, <2>12, <2>13 DEF IInv
<1>6. QED
  BY <1>4, <1>5

-----------------------------------------------------------------------------
(* The steps of a request.                                                 *)

(* A handler's step touches no graph: it only moves its request, and the   *)
(* columns of the row that hold its decision.                              *)
LEMMA HandlerKeepsIInv ==
  ASSUME TypeOK, IInv, NEW r \in Requests,
         UNCHANGED <<snapshot, artifacts, checkpoint, ticket, vals, task>>,
         row'.status = row.status, Grows,
         \A q \in Procs \ {r} : pc'[q] = pc[q],
         \A q \in Requests \ {r} : request'[q] = request[q],
         pc[r] \notin {"running", "updating"},
         pc'[r] \notin {"running", "updating"},
         Untouched(r)' <=> request'[r].decision = "none",
         ~Untouched(r)' => artifacts.diagram # 0
  PROVE  IInv'
<1>1. \A q \in Procs : pc'[q] \in {"running", "updating"} => q # r /\ pc[q] = pc'[q]
  OBVIOUS
<1>2. GraphsSound'
  BY <1>1, GraphGrows DEF IInv, GraphsSound
<1>3. CheckpointSound'
  BY CheckpointGrows DEF IInv, CheckpointSound, IsSuperstep
<1>4. DecisionsFollowModel'
  <2>1. Starter \in Procs /\ Starter # r
    BY StarterAssumption DEF Procs
  <2>2. \A q \in Requests : ~Untouched(q)' => artifacts'.diagram # 0
    BY DEF IInv, DecisionsFollowModel, Untouched, Procs
  <2>3. \A q \in Procs, m \in AfterModel : Active(q, m)' => Active(q, m)
    BY <1>1 DEF Active
  <2>4. QED
    BY <1>1, <2>1, <2>2, <2>3 DEF IInv, DecisionsFollowModel
<1>5. RequestsSound'
  BY <1>1 DEF IInv, RequestsSound, Untouched, Procs
<1>6. DeliverySound'
  BY <1>1 DEF IInv, DeliverySound, SqlPosted, GateNeedsApproval, GateOpen, Grows
<1>7. SnapshotSound'
  BY DEF IInv, SnapshotSound
<1>8. QED
  BY <1>2, <1>3, <1>4, <1>5, <1>6, <1>7 DEF IInv

LEMMA DecideKeepsIInv ==
  ASSUME TypeOK, IInv, NEW r \in Requests,
         \/ RefuseDecision(r)
         \/ \E d \in Decision, f \in Feedback : AcceptDecision(r, d, f)
         \/ CommitDecision(r)
  PROVE  IInv'
<1>1. CASE RefuseDecision(r)
  <2>1. /\ pc'[r] = "refused" /\ pc[r] = "idle"
        /\ \A q \in Procs \ {r} : pc'[q] = pc[q]
    BY <1>1 DEF RefuseDecision, TypeOK, Procs
  <2>2. UNCHANGED <<row, snapshot, artifacts, checkpoint, ticket, vals, task, request>>
    BY <1>1 DEF RefuseDecision
  <2>3. Grows
    BY <2>1, <2>2 DEF Grows, GateOpen, Approvals, Procs
  <2>4. Untouched(r)' <=> request'[r].decision = "none"
    BY <2>1, <2>2 DEF IInv, RequestsSound, Untouched
  <2>5. ~Untouched(r)' => artifacts.diagram # 0
    BY <2>1 DEF Untouched
  <2>6. QED
    BY <2>1, <2>2, <2>3, <2>4, <2>5, HandlerKeepsIInv
<1>2. ASSUME NEW d \in Decision, NEW f \in Feedback, AcceptDecision(r, d, f)
      PROVE  IInv'
  <2>1. /\ pc'[r] = "accepted" /\ pc[r] = "idle"
        /\ \A q \in Procs \ {r} : pc'[q] = pc[q]
    BY <1>2 DEF AcceptDecision, TypeOK, Procs
  <2>2. /\ request'[r].decision = d
        /\ \A q \in Requests \ {r} : request'[q] = request[q]
    BY <1>2 DEF AcceptDecision, TypeOK
  <2>3. UNCHANGED <<row, snapshot, artifacts, checkpoint, ticket, vals, task>>
    BY <1>2 DEF AcceptDecision
  <2>4. artifacts.diagram # 0
    BY <1>2 DEF AcceptDecision, IInv, DecisionsFollowModel
  <2>5. Grows
    <3>1. request[r].decision = "none"
      BY <2>1 DEF IInv, RequestsSound, Untouched
    <3>2. \A q \in Requests : q \in Approvals /\ pc[q] # "accepted" =>
                                q \in Approvals' /\ pc'[q] # "accepted"
      BY <2>1, <2>2, <3>1 DEF Approvals, Procs
    <3>3. QED
      BY <2>3, <3>2 DEF Grows, GateOpen, Approvals
  <2>6. Untouched(r)' <=> request'[r].decision = "none"
    BY <2>1, <2>2 DEF Untouched, Decision
  <2>7. QED
    BY <2>1, <2>2, <2>3, <2>4, <2>5, <2>6, HandlerKeepsIInv
<1>3. CASE CommitDecision(r)
  <2>1. /\ pc'[r] = "queued" /\ pc[r] = "accepted"
        /\ \A q \in Procs \ {r} : pc'[q] = pc[q]
    BY <1>3 DEF CommitDecision, TypeOK, Procs
  <2>2. /\ UNCHANGED <<snapshot, artifacts, checkpoint, ticket, vals, task, request>>
        /\ row'.status = row.status
    BY <1>3 DEF CommitDecision, TypeOK
  <2>3. Grows
    BY <2>1, <2>2 DEF Grows, GateOpen, Approvals, Procs
  <2>4. Untouched(r)' <=> request'[r].decision = "none"
    BY <2>1, <2>2 DEF IInv, RequestsSound, Untouched
  <2>5. artifacts.diagram # 0
    BY <2>1 DEF IInv, DecisionsFollowModel, Untouched
  <2>6. QED
    BY <2>1, <2>2, <2>3, <2>4, <2>5, HandlerKeepsIInv
<1>4. QED
  BY <1>1, <1>2, <1>3

(* The steps that carry a decision into the graph.  Each starts from a     *)
(* request that was accepted, so a diagram and a model exist.              *)
LEMMA ResumptionKeepsIInv ==
  ASSUME TypeOK, IInv, NEW r \in Requests, Resumption(r)
  PROVE  IInv'
<1> USE DEF Procs
<1>1. /\ pc[r] \in {"queued", "updating", "invoking"}
      /\ pc'[r] \in {"updating", "invoking", "running", "ended"}
      /\ \A q \in Procs \ {r} : /\ pc'[q] = pc[q] /\ vals'[q] = vals[q]
                               /\ task'[q] = task[q]
      /\ UNCHANGED <<row, snapshot, artifacts, ticket, request>>
  BY DEF Resumption, UpdateStateRead, UpdateStateWrite, Resume, TypeOK
<1>2. Grows
  BY <1>1 DEF Grows, GateOpen, Approvals
<1>3. /\ artifacts.diagram # 0 /\ checkpoint.values.model # 0
      /\ request[r].decision \in Decision
      /\ Starter # r /\ pc[Starter] \notin {"idle", "queued"}
      /\ pc[r] = "updating" => vals[r].model # 0 /\ vals[r].approval = request[r].decision
  BY <1>1, StarterAssumption DEF IInv, DecisionsFollowModel, RequestsSound, Untouched, TypeOK
<1>4. /\ CheckpointSound'
      /\ checkpoint'.values.model # 0
      /\ pc'[r] = "running" =>
           /\ GraphSound(r)'
           /\ vals'[r].model # 0
           /\ task'[r]["update_openproject"] \notin {"comment", "complete", "done"}
      /\ pc'[r] = "updating" =>
           vals'[r].model # 0 /\ vals'[r].approval = request[r].decision
  <2>1. CASE UpdateStateRead(r)
    <3>1. /\ pc'[r] = "updating" /\ checkpoint' = checkpoint
          /\ vals'[r].approval = request[r].decision
          /\ vals'[r].model = checkpoint.values.model
      BY <2>1 DEF UpdateStateRead, TypeOK, Values
    <3>2. CheckpointSound'
      BY <1>2, <3>1, CheckpointGrows DEF IInv, CheckpointSound, IsSuperstep
    <3>3. QED
      BY <1>3, <3>1, <3>2
  <2>2. CASE UpdateStateWrite(r)
    <3>1. /\ pc[r] = "updating" /\ pc'[r] = "invoking"
          /\ checkpoint' = [values |-> vals[r],
                            next |-> RouteAfterApproval(request[r].decision)]
      BY <1>3, <2>2 DEF UpdateStateWrite, TypeOK
    <3>2. request[r].decision = "approved" => GateOpen'
      BY <1>1, <3>1 DEF GateOpen, Approvals
    <3>3. IsSuperstep(checkpoint'.next)
      BY <3>1 DEF IsSuperstep, RouteAfterApproval
    <3>4. \A n \in checkpoint'.next : Ready(n, checkpoint.values)'
      BY <1>3, <3>1, <3>2 DEF RouteAfterApproval, Decision, Ready, BeforeGate,
         AfterModel, Delivery
    <3>5. CheckpointSound'
      BY <3>3, <3>4 DEF CheckpointSound, IsSuperstep
    <3>6. QED
      BY <1>3, <3>1, <3>5
  <2>3. CASE Resume(r)
    <3>1. checkpoint' = checkpoint
      BY <2>3 DEF Resume
    <3>2. CheckpointSound'
      BY <1>2, <3>1, CheckpointGrows DEF IInv, CheckpointSound, IsSuperstep
    <3>3. ASSUME pc'[r] = "running"
          PROVE  /\ GraphSound(r)'
                 /\ vals'[r].model # 0
                 /\ task'[r]["update_openproject"] \notin {"comment", "complete", "done"}
      <4>1. /\ vals'[r] = checkpoint.values
            /\ task'[r] = Scheduled(checkpoint.next)
        BY <2>3, <3>3 DEF Resume, TypeOK
      <4>2. \A m \in Nodes : task'[r][m] =
              IF m \in checkpoint.next THEN "enter" ELSE "off"
        BY <4>1 DEF Scheduled
      <4>3. Scheduling(r)' = checkpoint.next
        BY <4>2 DEF Scheduling, TypeOK
      <4>4. \A m \in checkpoint.next : Ready(m, vals[r])'
        BY <3>1, <3>2, <4>1 DEF CheckpointSound, Ready
      <4>5. GraphSound(r)'
        BY <4>2, <4>3, <4>4 DEF GraphSound, IInv, CheckpointSound, Nodes
      <4>6. QED
        BY <1>3, <4>1, <4>2, <4>5 DEF Nodes
    <3>4. pc'[r] # "updating"
      BY <2>3 DEF Resume, TypeOK
    <3>5. QED
      BY <1>3, <3>1, <3>2, <3>3, <3>4
  <2>4. QED
    BY <2>1, <2>2, <2>3 DEF Resumption
<1>5. GraphsSound'
  BY <1>1, <1>2, <1>4, GraphGrows DEF IInv, GraphsSound
<1>6. DecisionsFollowModel'
  BY <1>1, <1>3, <1>4 DEF IInv, DecisionsFollowModel, Untouched
<1>7. RequestsSound'
  BY <1>1, <1>4 DEF IInv, RequestsSound, Untouched
<1>8. DeliverySound'
  BY <1>1, <1>2, <1>4 DEF IInv, DeliverySound, SqlPosted, GateNeedsApproval, GateOpen, Grows
<1>9. SnapshotSound'
  BY <1>1 DEF IInv, SnapshotSound
<1>10. QED
  BY <1>4, <1>5, <1>6, <1>7, <1>8, <1>9 DEF IInv

-----------------------------------------------------------------------------
(* The invariant.                                                          *)

LEMMA IInvInit == Init => IInv
<1> SUFFICES ASSUME Init PROVE IInv
  OBVIOUS
<1> USE DEF Init, Procs
<1>1. GraphsSound
  BY DEF GraphsSound
<1>2. CheckpointSound
  BY DEF CheckpointSound, IsSuperstep
<1>3. DecisionsFollowModel
  BY DEF DecisionsFollowModel, Untouched, NoRow, Active
<1>4. RequestsSound
  BY DEF RequestsSound, Untouched, NoRequest
<1>5. DeliverySound
  BY DEF DeliverySound, GateNeedsApproval, NoRow
<1>6. SnapshotSound
  BY DEF SnapshotSound
<1>7. QED
  BY <1>1, <1>2, <1>3, <1>4, <1>5, <1>6 DEF IInv

(* Every conjunct speaks of variables only.                                *)
LEMMA StutterKeepsIInv ==
  ASSUME IInv, UNCHANGED vars
  PROVE  IInv'
BY DEF vars, IInv, GraphsSound, GraphSound, CheckpointSound, IsSuperstep,
   Scheduling, Ready, Returned, Undecided, GateOpen, Approvals, EndsWith,
   DecisionsFollowModel, Untouched, Active, RequestsSound, DeliverySound,
   GateNeedsApproval, SqlPosted, SnapshotSound

LEMMA Inductive ==
  ASSUME TypeOK, IInv, [Next]_vars
  PROVE  (TypeOK /\ IInv)'
<1>0. RequestsSound
  BY DEF IInv
<1>1. CASE StartAnalysis
  BY <1>1, TypeRuntime, StartKeepsIInv
<1>2. ASSUME NEW r \in Requests, Decide(r) PROVE (TypeOK /\ IInv)'
  BY <1>0, <1>2, TypeDecide, DecideKeepsIInv DEF Decide
<1>3. ASSUME NEW p \in Procs, Proceed(p) PROVE (TypeOK /\ IInv)'
  <2>1. CASE BeginWorkflow
    BY <2>1, TypeRuntime, StartKeepsIInv
  <2>2. CASE p \in Requests /\ CommitDecision(p)
    BY <1>0, <2>2, TypeDecide, DecideKeepsIInv
  <2>3. CASE p \in Requests /\ Resumption(p)
    BY <1>0, <2>3, TypeDecide, ResumptionKeepsIInv
  <2>4. CASE (\E n \in Nodes : EnterNode(p, n)) \/ Work(p)
    BY <2>4, TypeNode, NodeKeepsIInv
  <2>5. CASE Superstep(p)
    BY <2>5, TypeRuntime, SuperstepKeepsIInv
  <2>6. QED
    BY <1>3, <2>1, <2>2, <2>3, <2>4, <2>5 DEF Proceed, RunGraph
<1>4. CASE Faulty
  BY <1>4, TypeRuntime, FaultKeepsIInv DEF Faulty
<1>5. CASE UNCHANGED vars
  <2>1. TypeOK'
    BY <1>5 DEF vars, TypeOK
  <2>2. QED
    BY <1>5, <2>1, StutterKeepsIInv
<1>6. QED
  BY <1>1, <1>2, <1>3, <1>4, <1>5 DEF Next, Finished

(* Every reachable state is well typed and satisfies the inductive         *)
(* invariant, whatever the number of requests and of failures.             *)
THEOREM Invariance == Spec => [](TypeOK /\ IInv)
<1>1. Init => TypeOK /\ IInv
  BY TypeInit, IInvInit
<1>2. TypeOK /\ IInv /\ [Next]_vars => (TypeOK /\ IInv)'
  BY Inductive
<1>3. QED
  BY <1>1, <1>2, PTL DEF Spec

-----------------------------------------------------------------------------
(* The safety properties.                                                  *)

(* The types of all variables, in every reachable state.                   *)
THEOREM TypeCorrectness == Spec => []TypeOK
BY Invariance, PTL

(* No node of any graph, resumed under whatever checkpoint the other       *)
(* decisions left, raises "Missing project_ir" or "Missing                 *)
(* relational_model".                                                      *)
THEOREM InputsArePresent == Spec => []InputsPresent
<1>1. TypeOK /\ IInv => InputsPresent
  <2> SUFFICES ASSUME IInv, NEW p \in Procs, MissingInput(p) PROVE FALSE
    BY DEF InputsPresent
  <2>1. ASSUME NEW n \in Nodes, At(p, n, "work") PROVE Ready(n, vals[p])
    BY <2>1 DEF At, IInv, GraphsSound, GraphSound
  <2>2. ReadsModel \subseteq AfterModel /\ ReadsModel \subseteq Nodes
    BY DEF ReadsModel, AfterModel, Nodes
  <2>3. "model_schema" \in Nodes
    BY DEF Nodes
  <2>4. QED
    BY <2>1, <2>2, <2>3 DEF MissingInput, Ready
<1>2. QED
  BY <1>1, Invariance, PTL

(* The human gate: without an approve request that its handler let         *)
(* through, no script is saved and the OpenProject ticket stays untouched. *)
THEOREM HumanGate == Spec => []GateNeedsApproval
<1>1. TypeOK /\ IInv => GateNeedsApproval
  BY DEF IInv, DeliverySound
<1>2. QED
  BY <1>1, Invariance, PTL

(* A graph paused before the gate holds no decision of an earlier loop.    *)
THEOREM PausedGraphsAreUndecided == Spec => []PausedUndecided
<1>1. TypeOK /\ IInv => PausedUndecided
  BY DEF IInv, CheckpointSound, Ready, BeforeGate, Undecided, PausedUndecided
<1>2. QED
  BY <1>1, Invariance, PTL

(* The status a polling client reads has the artifacts it announces behind *)
(* it.                                                                     *)
THEOREM StatusesAreTrue == Spec => []StatusIsTrue
<1>1. TypeOK /\ IInv => StatusIsTrue
  BY DEF IInv, DecisionsFollowModel, DeliverySound, SqlPosted, StatusIsTrue
<1>2. QED
  BY <1>1, Invariance, PTL

(* The merge has both branches' recommendations on the model it persists.  *)
THEOREM BranchesAreJoined == Spec => []BranchesJoined
<1>1. TypeOK /\ IInv => BranchesJoined
  <2> SUFFICES ASSUME IInv PROVE BranchesJoined
    OBVIOUS
  <2>1. ASSUME NEW p \in Procs, At(p, "merge_results", "work")
        PROVE  EndsWith(vals[p].perf, vals[p].model) /\ EndsWith(vals[p].sec, vals[p].model)
    BY <2>1 DEF At, IInv, GraphsSound, GraphSound, Ready, Nodes
  <2>2. QED
    BY <2>1 DEF BranchesJoined, IInv, SnapshotSound
<1>2. QED
  BY <1>1, Invariance, PTL

-----------------------------------------------------------------------------
(* No graph comes back to a node.                                          *)

(* A step either leaves the graph of p alone, or is a step of one of its   *)
(* nodes, or moves it to its next superstep.                               *)
LEMMA StepsOfAGraph ==
  ASSUME TypeOK, IInv, Next, NEW p \in Procs, pc[p] = "running",
         pc'[p] = "running"
  PROVE  \/ task'[p] = task[p]
         \/ \E n \in Nodes : NodeEffect(p, n)
         \/ Superstep(p)
<1>1. CASE StartAnalysis
  BY <1>1 DEF StartAnalysis
<1>2. ASSUME NEW r \in Requests, Decide(r) PROVE task'[p] = task[p]
  BY <1>2 DEF Decide, RefuseDecision, AcceptDecision
<1>3. ASSUME NEW q \in Procs, Proceed(q)
      PROVE  \/ task'[p] = task[p]
             \/ \E n \in Nodes : NodeEffect(p, n)
             \/ Superstep(p)
  <2>1. CASE BeginWorkflow
    BY <2>1 DEF BeginWorkflow, TypeOK
  <2>2. CASE q \in Requests /\ (CommitDecision(q) \/ Resumption(q))
    BY <2>2 DEF CommitDecision, Resumption, UpdateStateRead, UpdateStateWrite,
       Resume, TypeOK
  <2>3. CASE (\E n \in Nodes : EnterNode(q, n)) \/ Work(q)
    <3>1. PICK n \in Nodes : NodeEffect(q, n)
      BY <2>3, NodeStep DEF IInv
    <3>2. QED
      BY <3>1 DEF NodeEffect
  <2>4. CASE Superstep(q)
    BY <2>4 DEF Superstep, TypeOK
  <2>5. QED
    BY <1>3, <2>1, <2>2, <2>3, <2>4 DEF Proceed, RunGraph
<1>4. CASE Faulty
  BY <1>4 DEF Faulty, Crash, Raise, Live, TypeOK
<1>5. CASE Finished
  BY <1>5 DEF Finished, vars
<1>6. QED
  BY <1>1, <1>2, <1>3, <1>4, <1>5 DEF Next

LEMMA StepsMoveOn ==
  ASSUME TypeOK, IInv, Next, NEW p \in Procs, pc[p] = "running",
         pc'[p] = "running"
  PROVE  MovesOn(p)
<1>1. CASE task'[p] = task[p]
  BY <1>1 DEF MovesOn
<1>2. ASSUME NEW k \in Nodes, NodeEffect(p, k) PROVE MovesOn(p)
  <2>1. \A n \in Nodes : task'[p][n] # "off" =>
          task[p][n] # "off" /\ (task[p][n] = "done" => task'[p][n] = "done")
    BY <1>2 DEF NodeEffect
  <2>2. QED
    BY <2>1 DEF MovesOn
<1>3. CASE Superstep(p)
  <2>1. /\ GraphsSound
        /\ \A n \in Nodes : task[p][n] \in {"off", "done"}
        /\ task'[p] = Scheduled(NextNodes(p))
    BY <1>3 DEF Superstep, TypeOK, IInv
  <2>2. ASSUME NEW m \in Nodes, task[p][m] # "off",
               NEW n \in EdgesFrom(m, vals[p].approval)
        PROVE  Position[m] < Position[n]
    <3>1. Returned(m, vals[p])
      BY <2>1, <2>2 DEF GraphsSound, GraphSound
    <3>2. m = "await_approval" => FALSE
      BY <2>2, <3>1 DEF Returned, Undecided, BeforeGate, EdgesFrom, RouteAfterApproval
    <3>3. QED
      BY <2>2, <3>2 DEF EdgesFrom, Position, Nodes
  <2>3. ASSUME NEW m \in Nodes, NEW n \in Nodes,
               task[p][m] # "off", task'[p][n] # "off"
        PROVE  Position[m] < Position[n]
    <3>1. n \in NextNodes(p)
      BY <2>1, <2>3 DEF Scheduled
    <3>2. PICK k \in Scheduling(p) : n \in EdgesFrom(k, vals[p].approval)
      BY <3>1 DEF NextNodes
    <3>3. k = m \/ {k, m} = Branches
      BY <2>1, <2>3, <3>2 DEF GraphsSound, GraphSound, IsSuperstep, Scheduling
    <3>4. EdgesFrom(k, vals[p].approval) = EdgesFrom(m, vals[p].approval)
      BY <3>3 DEF EdgesFrom, Branches
    <3>5. QED
      BY <2>2, <2>3, <3>2, <3>4
  <2>4. QED
    BY <2>3 DEF MovesOn
<1>4. QED
  BY <1>1, <1>2, <1>3, StepsOfAGraph

(* However decisions interleave with a running graph, its supersteps only  *)
(* move on along the topology: a loop takes a resumption of its own.       *)
THEOREM GraphsMoveOn == Spec => NeverBack
<1>1. TypeOK /\ IInv /\ [Next]_vars =>
        [\A p \in Procs :
           pc[p] = "running" /\ pc'[p] = "running" => MovesOn(p)]_vars
  BY StepsMoveOn
<1>2. QED
  BY <1>1, Invariance, PTL DEF Spec, NeverBack
=============================================================================
