------------------------------ MODULE LoopProofs ------------------------------
(***************************************************************************)
(* PatientReview implements the safety part of ReviewLoop, for any number  *)
(* of requests, any set of feedback texts and any number of failures.      *)
(***************************************************************************)
EXTENDS PatientProofs, SequenceTheorems

-----------------------------------------------------------------------------
(* LInv, action by action.                                                 *)

LEMMA LInvInit == Init => LInv
BY DEF Init, LInv, CarriedOver, Live, Procs

LEMMA FaultsOnlyGrow ==
  ASSUME TypeOK, IInv, PatientNext, faults' = 0
  PROVE  faults = 0
<1>1. faults \in Nat
  BY DEF TypeOK
<1>2. CASE Faulty
  BY <1>1, <1>2, InputsFromInvariant DEF Faulty, Crash, Raise, InputsPresent
<1>3. ASSUME NEW p \in Procs, Work(p) PROVE faults = 0
  BY <1>1, <1>3 DEF Work, ValidateInput, AnalyzeProject, ModelSchema,
     AnalyzePerformance, AnalyzeSecurity, MergeResults, GenerateErd, AnnounceErd,
     AwaitApproval, GenerateSql, UploadErd, UploadSql, AddComment, Complete
<1>4. ASSUME NEW p \in Procs, Proceed(p), ~Work(p) PROVE faults = 0
  BY <1>4 DEF Proceed, RunGraph, BeginWorkflow, CommitDecision, Resumption,
     UpdateStateRead, UpdateStateWrite, Resume, EnterNode, Superstep
<1>5. ASSUME NEW r \in Requests, PatientDecision(r) PROVE faults = 0
  BY <1>5 DEF PatientDecision, Decide, RefuseDecision, AcceptDecision
<1>6. CASE StartAnalysis \/ Finished
  BY <1>6 DEF StartAnalysis, Finished, vars
<1>7. QED
  BY <1>2, <1>3, <1>4, <1>5, <1>6 DEF PatientNext

(* Nobody is live afterwards, or only one handler that has just begun.     *)
LEMMA RestKeepsLInv ==
  ASSUME \A p \in Procs : Live(p)' =>
           \/ pc'[p] = "queued" /\ p = Starter
           \/ /\ pc'[p] \in {"accepted", "queued"}
              /\ checkpoint'.values.diagram = artifacts'.diagram
  PROVE  LInv'
BY StarterAssumption DEF LInv, CarriedOver, Live, Procs

LEMMA StartKeepsLInv ==
  ASSUME TypeOK, IInv, PInv, LInv, StartAnalysis
  PROVE  LInv'
<1>1. pc \in [Procs -> PCs] /\ \A p \in Procs : ~Live(p)
  BY IdleIsQuiet DEF TypeOK, StartAnalysis
<1>2. QED
  BY <1>1, RestKeepsLInv DEF StartAnalysis, Live

LEMMA BeginKeepsLInv ==
  ASSUME TypeOK, IInv, PInv, LInv, BeginWorkflow
  PROVE  LInv'
<1>1. /\ pc \in [Procs -> PCs] /\ Starter \in Procs
      /\ task \in [Procs -> [Nodes -> Phases]] /\ vals \in [Procs -> Values]
  BY DEF TypeOK, Procs
<1>2. /\ pc[Starter] = "queued" /\ pc' = [pc EXCEPT ![Starter] = "running"]
      /\ vals'[Starter] = InitialValues
      /\ task'[Starter] = Scheduled({"validate_input"})
  BY <1>1 DEF BeginWorkflow
<1>3. \A p \in Procs : Live(p)' => p = Starter
  <2>1. \A p \in Procs : p # Starter => ~Live(p)
    BY <1>1, <1>2, OthersAreQuiet DEF PInv, Live
  <2>2. QED
    BY <1>1, <1>2, <2>1 DEF Live
<1>4. AnswersWish(Starter)'
  BY <1>2 DEF AnswersWish, Scheduled, InitialValues, WishOf, Branches, Nodes
<1>5. Starter \notin Approvals'
  BY StarterAssumption DEF Approvals
<1>6. QED
  BY <1>3, <1>4, <1>5, StarterAssumption DEF LInv, CarriedOver, Live, Procs

(* A decision finds the session at rest, with the diagram checkpointed.    *)
LEMMA DecideKeepsLInv ==
  ASSUME TypeOK, IInv, PInv, LInv, NEW r \in Requests, PatientDecision(r)
  PROVE  LInv'
<1>1. /\ pc \in [Procs -> PCs] /\ Quiet /\ \A p \in Procs : ~Live(p)
  BY DEF TypeOK, PatientDecision, Quiet
<1>2. CASE RefuseDecision(r)
  BY <1>1, <1>2, RestKeepsLInv DEF RefuseDecision, Live
<1>3. ASSUME NEW d \in Decision, NEW f \in Feedback, AcceptDecision(r, d, f)
      PROVE  LInv'
  <2>1. faults = 0 => checkpoint.values.diagram = artifacts.diagram
    BY <1>1, <1>3 DEF AcceptDecision, PInv, RestAgrees, GetStatus, GetDiagram
  <2>2. CASE faults = 0
    BY <1>1, <1>3, <2>1, <2>2, RestKeepsLInv DEF AcceptDecision, Live
  <2>3. CASE faults # 0
    BY <1>3, <2>3 DEF AcceptDecision, LInv
  <2>4. QED
    BY <2>2, <2>3
<1>4. QED
  BY <1>2, <1>3 DEF PatientDecision, Decide

(* The handler and the engine carry the decision over.                     *)
LEMMA HandlerKeepsLInv ==
  ASSUME TypeOK, IInv, PInv, LInv, NEW r \in Requests,
         CommitDecision(r) \/ UpdateStateRead(r) \/ UpdateStateWrite(r)
  PROVE  LInv'
<1>1. /\ pc \in [Procs -> PCs] /\ r \in Procs /\ r # Starter
      /\ vals \in [Procs -> Values] /\ checkpoint.values \in Values
      /\ request[r].decision \in Decision \cup {"none"}
  BY StarterAssumption DEF TypeOK, Procs
<1>2. /\ Live(r) /\ pc[r] \in {"accepted", "queued", "updating"}
      /\ UNCHANGED <<artifacts, request, faults>>
  BY DEF CommitDecision, UpdateStateRead, UpdateStateWrite, Live
<1>3. /\ pc'[r] \in {"queued", "updating", "invoking"}
      /\ \A p \in Procs : p # r => pc'[p] = pc[p]
  BY <1>1 DEF CommitDecision, UpdateStateRead, UpdateStateWrite
<1>4. \A p \in Procs : Live(p)' => p = r
  <2>1. \A p \in Procs : p # r => ~Live(p)
    BY <1>1, <1>2, OthersAreQuiet DEF PInv
  <2>2. QED
    BY <1>3, <2>1 DEF Live
<1>5. SUFFICES ASSUME faults = 0 PROVE CarriedOver(r)'
  BY <1>2, <1>3, <1>4 DEF LInv, CarriedOver, Live, Procs
<1>6. CarriedOver(r) /\ WishOf(r)' = WishOf(r) /\ Approvals' = Approvals
  BY <1>2, <1>5 DEF LInv, WishOf, Approvals
<1>7. CASE CommitDecision(r)
  BY <1>1, <1>2, <1>6, <1>7 DEF CommitDecision, CarriedOver, Live
<1>8. CASE UpdateStateRead(r)
  <2>1. /\ pc' = [pc EXCEPT ![r] = "updating"] /\ checkpoint' = checkpoint
        /\ vals'[r].diagram = checkpoint.values.diagram
        /\ request[r].decision = "rejected" => vals'[r].feedback = request[r].feedback
    BY <1>1, <1>8 DEF UpdateStateRead, Values
  <2>2. r \notin Approvals => request[r].decision = "rejected"
    BY <1>1, <1>2 DEF Approvals, Decision, IInv, RequestsSound, Untouched
  <2>3. Carries(r, vals[r])'
    BY <1>1, <1>2, <1>6, <2>1, <2>2 DEF Carries, CarriedOver, WishOf
  <2>4. QED
    BY <1>1, <1>2, <1>6, <2>1, <2>3 DEF CarriedOver
<1>9. CASE UpdateStateWrite(r)
  <2>1. /\ pc' = [pc EXCEPT ![r] = "invoking"] /\ pc[r] = "updating"
        /\ checkpoint'.values = vals[r]
    BY <1>1, <1>9 DEF UpdateStateWrite
  <2>2. Carries(r, checkpoint.values)'
    BY <1>2, <1>6, <2>1 DEF Carries, CarriedOver
  <2>3. QED
    BY <1>1, <1>2, <1>6, <2>1, <2>2 DEF CarriedOver, Carries
<1>10. QED
  BY <1>7, <1>8, <1>9

LEMMA ResumeKeepsLInv ==
  ASSUME TypeOK, IInv, PInv, LInv, NEW r \in Requests, Resume(r)
  PROVE  LInv'
<1>1. /\ pc \in [Procs -> PCs] /\ r \in Procs /\ r # Starter
      /\ task \in [Procs -> [Nodes -> Phases]] /\ vals \in [Procs -> Values]
      /\ request[r].decision \in Decision \cup {"none"}
  BY StarterAssumption DEF TypeOK, Procs
<1>2. Live(r) /\ pc[r] = "invoking" /\ DecisionStands(r)
  BY DEF Resume, Live, PInv, DecisionsStand
<1>3. /\ ~Delivering
      /\ checkpoint.next = RouteAfterApproval(request[r].decision)
  BY <1>2 DEF DecisionStands, Asked, Delivering
<1>4. \/ r \in Approvals /\ checkpoint.next = {"generate_sql"}
      \/ r \notin Approvals /\ checkpoint.next = {"analyze_project"}
  BY <1>1, <1>2, <1>3 DEF IInv, RequestsSound, Untouched, Decision,
     RouteAfterApproval, Approvals
<1>5. /\ pc' = [pc EXCEPT ![r] = "running"]
      /\ vals'[r] = checkpoint.values
      /\ task'[r] = Scheduled(checkpoint.next)
      /\ UNCHANGED <<row, artifacts, checkpoint, ticket, request, faults>>
  BY <1>1, <1>4 DEF Resume
<1>6. \A p \in Procs : Live(p)' => p = r
  <2>1. \A p \in Procs : p # r => ~Live(p)
    BY <1>1, <1>2, OthersAreQuiet DEF PInv
  <2>2. QED
    BY <1>1, <1>5, <2>1 DEF Live
<1>7. SUFFICES ASSUME faults = 0
               PROVE  IF r \in Approvals THEN DeliversPackage(r)' ELSE AnswersWish(r)'
  BY <1>1, <1>5, <1>6 DEF LInv, CarriedOver, Live, Procs, Approvals
<1>8. Carries(r, checkpoint.values)
  BY <1>2, <1>7 DEF LInv, CarriedOver
<1>9. CASE r \in Approvals
  <2>1. Scheduling(r)' = {"generate_sql"} /\ task'[r]["update_openproject"] = "off"
    BY <1>4, <1>5, <1>9 DEF Scheduling, Scheduled, Nodes
  <2>2. Len(ticket) = 0
    BY <1>3 DEF PInv, DeliveredIsShown
  <2>3. QED
    BY <1>5, <1>8, <1>9, <2>1, <2>2 DEF DeliversPackage, Carries, PostedBy, Delivery
<1>10. CASE r \notin Approvals
  <2>1. \A n \in Nodes : task'[r][n] = IF n = "analyze_project" THEN "enter" ELSE "off"
    BY <1>4, <1>5, <1>10 DEF Scheduled
  <2>2. vals'[r].feedback = WishOf(r)'
    BY <1>5, <1>8, <1>10 DEF Carries, WishOf
  <2>3. QED
    BY <1>10, <2>1, <2>2 DEF AnswersWish, Nodes, Branches
<1>11. QED
  BY <1>9, <1>10

(* The step of a superstep hands on what the next nodes answer.            *)
LEMMA SuperstepKeepsLInv ==
  ASSUME TypeOK, IInv, PInv, LInv, NEW p \in Procs, Superstep(p)
  PROVE  LInv'
<1>1. /\ pc \in [Procs -> PCs]
      /\ task \in [Procs -> [Nodes -> Phases]] /\ vals \in [Procs -> Values]
  BY DEF TypeOK
<1>2. /\ pc[p] = "running" /\ Live(p) /\ InStep(p)
      /\ IsSuperstep(Scheduling(p))
      /\ UNCHANGED <<row, artifacts, ticket, request, faults, proposals>>
  BY DEF Superstep, Live, PInv, GraphsInStep, IInv, GraphsSound, GraphSound
<1>3. \A q \in Procs : q # p => ~Live(q)
  BY <1>2, OthersAreQuiet DEF PInv
<1>4. SUFFICES ASSUME faults = 0, pc'[p] = "running"
               PROVE  IF p \in Approvals THEN DeliversPackage(p)' ELSE AnswersWish(p)'
  <2>1. \A q \in Procs : Live(q)' => q = p /\ pc'[q] = "running"
    BY <1>1, <1>2, <1>3 DEF Superstep, Live
  <2>2. QED
    BY <1>2, <2>1 DEF LInv, CarriedOver, Live, Procs, Approvals
<1>5. /\ task'[p] = Scheduled(NextNodes(p)) /\ vals'[p] = vals[p]
      /\ NextNodes(p) # {} /\ "await_approval" \notin NextNodes(p)
  BY <1>1, <1>4 DEF Superstep, InterruptBefore
<1>6. PICK n \in Scheduling(p) : TRUE
  BY <1>2 DEF InStep
<1>7. /\ n \in Nodes /\ task[p][n] = "done"
      /\ NextNodes(p) = EdgesFrom(n, vals[p].approval)
  BY <1>2, <1>6, NextOf DEF Superstep, Scheduling
<1>8. n # "await_approval"
  BY <1>2, <1>7 DEF InStep
<1>9. \A m \in Nodes : task'[p][m] = IF m \in NextNodes(p) THEN "enter" ELSE "off"
  BY <1>5 DEF Scheduled
<1>10. CASE p \in Approvals
  <2>1. DeliversPackage(p)
    BY <1>2, <1>4, <1>10 DEF LInv
  <2>2. n = "generate_sql" /\ NextNodes(p) = {"update_openproject"}
    BY <1>5, <1>6, <1>7, <2>1 DEF DeliversPackage, Delivery, EdgesFrom
  <2>3. Scheduling(p) = {n}
    <3>1. n \notin Branches => Scheduling(p) = {n}
      BY <1>2, <1>6 DEF IsSuperstep, Branches
    <3>2. QED
      BY <2>2, <3>1 DEF Branches
  <2>4. task[p]["update_openproject"] = "off"
    BY <2>2, <2>3 DEF Scheduling, Nodes
  <2>5. Scheduling(p)' = {"update_openproject"} /\ task'[p]["update_openproject"] = "enter"
    BY <1>9, <2>2 DEF Scheduling, Nodes
  <2>6. QED
    BY <1>2, <1>5, <1>10, <2>1, <2>4, <2>5 DEF DeliversPackage, PostedBy, Delivery
<1>11. CASE p \notin Approvals
  <2>1. AnswersWish(p) /\ WishOf(p)' = WishOf(p)
    BY <1>2, <1>4, <1>11 DEF LInv, WishOf
  <2>2. CASE n \in {"validate_input", "analyze_project"}
    <3>1. PICK m : m = IF n = "validate_input" THEN "analyze_project" ELSE "model_schema"
      OBVIOUS
    <3>2. NextNodes(p) = {m} /\ m \in Nodes
      BY <1>7, <2>2, <3>1 DEF EdgesFrom, Nodes
    <3>3. \A k \in Nodes : task'[p][k] = IF k = m THEN "enter" ELSE "off"
      BY <1>9, <3>2
    <3>4. \A k \in Branches \cup {"merge_results", "generate_erd"} : task'[p][k] = "off"
      BY <3>1, <3>3 DEF Nodes, Branches
    <3>5. ASSUME n = "validate_input" PROVE AnswersWish(p)'
      BY <1>5, <1>7, <2>1, <3>1, <3>3, <3>4, <3>5 DEF AnswersWish, Nodes
    <3>6. ASSUME n = "analyze_project" PROVE AnswersWish(p)'
      BY <1>5, <1>7, <2>1, <3>1, <3>3, <3>4, <3>6 DEF AnswersWish, Nodes
    <3>7. AnswersWish(p)'
      BY <2>2, <3>5, <3>6
    <3>8. QED
      BY <1>11, <3>7
  <2>3. CASE n \in {"model_schema", "analyze_performance", "analyze_security", "merge_results"}
    <3>1. proposals[vals[p].model] = WishOf(p)
      BY <1>7, <2>1, <2>3 DEF AnswersWish, Branches
    <3>2. NextNodes(p) \subseteq Branches \cup {"merge_results", "generate_erd"}
      BY <1>7, <2>3 DEF EdgesFrom, Branches
    <3>3. /\ task'[p]["validate_input"] = "off" /\ task'[p]["analyze_project"] = "off"
          /\ task'[p]["model_schema"] = "off"
      BY <1>9, <3>2 DEF Branches, Nodes
    <3>4. vals'[p].model = vals[p].model /\ proposals' = proposals
      BY <1>2, <1>5
    <3>5. QED
      BY <1>11, <2>1, <3>1, <3>3, <3>4 DEF AnswersWish
  <2>4. CASE n \in {"generate_erd", "generate_sql", "update_openproject"}
    <3>1. n # "generate_erd" /\ n # "update_openproject"
      BY <1>5, <1>7 DEF EdgesFrom
    <3>2. n # "generate_sql"
      BY <1>2, <1>6, <1>11 DEF PInv, GraphsInStep, DeliversApproved, Delivery
    <3>3. QED
      BY <2>4, <3>1, <3>2
  <2>5. QED
    BY <1>7, <1>8, <2>2, <2>3, <2>4 DEF Nodes
<1>12. QED
  BY <1>10, <1>11

(* A node's step concerns its own graph only.                              *)
LEMMA NodeKeepsLInv ==
  ASSUME TypeOK, IInv, PInv, LInv, NEW p \in Procs, NEW n \in Nodes,
         NodeEffect(p, n),
         p \in Approvals => DeliversPackage(p)',
         p \notin Approvals => AnswersWish(p)'
  PROVE  LInv'
<1>1. Live(p) /\ pc[p] = "running" /\ UNCHANGED <<pc, request>>
  BY DEF NodeEffect, Live
<1>2. \A q \in Procs : q # p => ~Live(q)
  BY <1>1, OthersAreQuiet DEF PInv
<1>3. QED
  BY <1>1, <1>2 DEF LInv, CarriedOver, Live, Procs, Approvals

(* Behind the gate are the graphs of approvals, and no others.             *)
LEMMA SideOfTheGate ==
  ASSUME TypeOK, IInv, PInv, LInv, faults = 0, NEW p \in Procs, NEW n \in Nodes,
         pc[p] = "running", task[p][n] \notin {"off", "done"}
  PROVE  /\ p \in Approvals <=> n \in Delivery
         /\ p \in Approvals => DeliversPackage(p) /\ Scheduling(p) = {n}
         /\ p \notin Approvals => AnswersWish(p)
<1>1. n \in Scheduling(p)
  BY DEF Scheduling
<1>2. n \in Delivery => p \in Approvals
  BY NodeContext DEF DeliversApproved
<1>3. p \in Approvals => DeliversPackage(p) /\ n \in Delivery
  BY <1>1 DEF LInv, DeliversPackage
<1>4. n \in Delivery => Scheduling(p) = {n}
  BY NodeContext DEF Branches, Delivery
<1>5. p \notin Approvals => AnswersWish(p)
  BY DEF LInv
<1>6. QED
  BY <1>2, <1>3, <1>4, <1>5

LEMMA EnterKeepsLInv ==
  ASSUME TypeOK, IInv, PInv, LInv, faults' = 0,
         NEW p \in Procs, NEW n \in Nodes, EnterNode(p, n)
  PROVE  LInv'
<1>1. /\ task'[p][n] = "work" /\ task[p][n] = "enter" /\ pc[p] = "running"
      /\ faults = 0
      /\ UNCHANGED <<artifacts, ticket, request, vals, proposals>>
  BY GoFacts DEF EnterNode, At, Phases
<1>2. NodeEffect(p, n)
  BY <1>1, TheNode
<1>3. \A m \in Nodes : /\ task'[p][m] \in {"enter", "work"} <=> task[p][m] \in {"enter", "work"}
                       /\ task'[p][m] = "done" <=> task[p][m] = "done"
                       /\ task'[p][m] = "off" <=> task[p][m] = "off"
                       /\ PostedBy(task'[p][m]) = PostedBy(task[p][m])
  BY <1>1, <1>2 DEF NodeEffect, PostedBy
<1>4. ASSUME p \in Approvals PROVE DeliversPackage(p)'
  <2>1. DeliversPackage(p) /\ Scheduling(p) = {n}
    BY <1>1, <1>4, SideOfTheGate
  <2>2. Scheduling(p)' = Scheduling(p)
    BY <1>3 DEF Scheduling
  <2>3. task'[p]["update_openproject"] # "done"
    BY <1>1, <1>3, <2>1 DEF Scheduling, Nodes
  <2>4. QED
    BY <1>1, <1>3, <2>1, <2>2, <2>3 DEF DeliversPackage, Nodes
<1>5. ASSUME p \notin Approvals PROVE AnswersWish(p)'
  <2>1. AnswersWish(p) /\ WishOf(p)' = WishOf(p)
    BY <1>1, <1>5, SideOfTheGate DEF WishOf
  <2>2. Branches \cup {"merge_results", "generate_erd"} \subseteq Nodes
    BY DEF Branches, Nodes
  <2>3. QED
    BY <1>1, <1>3, <2>1, <2>2 DEF AnswersWish, Nodes
<1>6. QED
  BY <1>2, <1>4, <1>5, NodeKeepsLInv

(* Nodes before the gate: what one returns is what the next one reads.     *)
LEMMA DraftingKeepsLInv ==
  ASSUME TypeOK, IInv, PInv, LInv, faults' = 0, NEW p \in Procs,
         \/ ValidateInput(p) \/ AnalyzeProject(p) \/ ModelSchema(p)
         \/ AnalyzePerformance(p) \/ AnalyzeSecurity(p) \/ MergeResults(p)
         \/ GenerateErd(p) \/ AnnounceErd(p)
  PROVE  LInv'
<1>1. ASSUME NEW n \in Nodes \ Delivery, pc[p] = "running",
             task[p][n] \in {"work", "announce"}, task'[p][n] \in {"announce", "done"},
             task[p][n] # task'[p][n],
             Work(p), UNCHANGED <<request, faults>>,
             n = "validate_input" => vals'[p] = vals[p],
             n = "analyze_project" => vals'[p].ir.feedback = vals[p].feedback,
             n = "model_schema" => proposals'[vals'[p].model] = vals[p].ir.feedback,
             n \in Branches \cup {"merge_results", "generate_erd"} =>
               vals'[p].model = vals[p].model /\ proposals' = proposals,
             n = "analyze_project" => task[p][n] = "work",
             n = "model_schema" => task[p][n] = "work"
      PROVE  LInv'
  <2>1. NodeEffect(p, n)
    BY <1>1, TheNode
  <2>2. faults = 0 /\ WishOf(p)' = WishOf(p)
    BY <1>1 DEF WishOf
  <2>3. p \notin Approvals /\ AnswersWish(p)
    BY <1>1, <2>2, SideOfTheGate
  <2>4. /\ n \notin Branches => Scheduling(p) = {n}
        /\ n \in Branches => Scheduling(p) \subseteq Branches
    BY <1>1, NodeContext
  <2>5. /\ \A m \in Nodes : m # n => task'[p][m] = task[p][m]
        /\ \A m \in Nodes \ Branches : m # n => task[p][m] = "off"
        /\ n \notin Branches => \A m \in Nodes : m # n => task[p][m] = "off"
    BY <2>1, <2>4 DEF NodeEffect, Scheduling
  <2>6. AnswersWish(p)'
    <3>1. CASE n = "validate_input"
      BY <1>1, <2>2, <2>3, <2>5, <3>1 DEF AnswersWish, Nodes, Branches
    <3>2. CASE n = "analyze_project"
      BY <1>1, <2>2, <2>3, <2>5, <3>2 DEF AnswersWish, Nodes, Branches
    <3>3. CASE n = "model_schema"
      BY <1>1, <2>2, <2>3, <2>5, <3>3 DEF AnswersWish, Nodes, Branches
    <3>4. CASE n \in Branches \cup {"merge_results", "generate_erd"}
      <4>1. proposals'[vals'[p].model] = WishOf(p)
        BY <1>1, <2>3, <3>4 DEF AnswersWish
      <4>2. \A m \in {"validate_input", "analyze_project", "model_schema"} :
              task'[p][m] = "off"
        BY <2>5, <3>4 DEF Nodes, Branches
      <4>3. QED
        BY <2>2, <4>1, <4>2 DEF AnswersWish
    <3>5. CASE n = "await_approval"
      BY <1>1, <3>5, NodeContext
    <3>6. QED
      BY <3>1, <3>2, <3>3, <3>4, <3>5 DEF Nodes, Delivery, Branches
  <2>7. QED
    BY <2>1, <2>3, <2>6, NodeKeepsLInv
<1>2. vals[p] \in Values /\ "done" \in Phases /\ "announce" \in Phases
  BY DEF TypeOK, Phases
<1>3. CASE ValidateInput(p)
  <2>1. PICK n : n = "validate_input"
    OBVIOUS
  <2>2. /\ n \in Nodes \ Delivery /\ pc[p] = "running" /\ Work(p)
        /\ task[p][n] = "work" /\ task'[p][n] = "done" /\ vals'[p] = vals[p]
        /\ UNCHANGED <<request, faults>>
    BY <1>3, <2>1, ReturnFacts DEF ValidateInput, At, Work, Nodes, Delivery
  <2>3. QED
    BY <1>1, <2>1, <2>2 DEF Branches
<1>4. CASE AnalyzeProject(p)
  <2>1. PICK n : n = "analyze_project"
    OBVIOUS
  <2>2. /\ n \in Nodes \ Delivery /\ pc[p] = "running" /\ Work(p)
        /\ task[p][n] = "work" /\ task'[p][n] = "done"
        /\ vals'[p] = [vals[p] EXCEPT !.ir = [feedback |-> vals[p].feedback],
                                      !.approval = "pending", !.feedback = None]
        /\ UNCHANGED <<request, faults>>
    BY <1>4, <2>1, ReturnFacts DEF AnalyzeProject, At, Work, Nodes, Delivery
  <2>3. vals'[p].ir.feedback = vals[p].feedback
    BY <1>2, <2>2 DEF Values
  <2>4. QED
    BY <1>1, <2>1, <2>2, <2>3 DEF Branches
<1>5. CASE ModelSchema(p)
  <2>1. PICK n : n = "model_schema"
    OBVIOUS
  <2>2. /\ n \in Nodes \ Delivery /\ pc[p] = "running" /\ Work(p)
        /\ task[p][n] = "work" /\ task'[p][n] = "done"
        /\ vals'[p] = [vals[p] EXCEPT !.model = Len(proposals) + 1]
        /\ proposals' = Append(proposals, vals[p].ir.feedback)
        /\ UNCHANGED <<request, faults>>
    BY <1>5, <2>1, ReturnFacts DEF ModelSchema, At, Work, Nodes, Delivery
  <2>3. proposals'[vals'[p].model] = vals[p].ir.feedback
    <3>1. vals'[p].model = Len(proposals) + 1
      BY <1>2, <2>2 DEF Values
    <3>2. vals[p].ir.feedback \in Feedback \cup {None}
      BY <1>2, <1>5 DEF ModelSchema, Values, IR
    <3>3. Append(proposals, vals[p].ir.feedback)[Len(proposals) + 1] = vals[p].ir.feedback
      BY <3>2 DEF TypeOK
    <3>4. QED
      BY <2>2, <3>1, <3>3
  <2>4. QED
    BY <1>1, <2>1, <2>2, <2>3 DEF Branches
<1>6. CASE AnalyzePerformance(p) \/ AnalyzeSecurity(p)
  <2>1. PICK n : n = IF AnalyzePerformance(p) THEN "analyze_performance" ELSE "analyze_security"
    OBVIOUS
  <2>2. PICK v : v = IF AnalyzePerformance(p)
                     THEN [vals[p] EXCEPT !.perf = Append(@, vals[p].model)]
                     ELSE [vals[p] EXCEPT !.sec = Append(@, vals[p].model)]
    OBVIOUS
  <2>3. n \in Nodes \ Delivery /\ n \in Branches
    BY <2>1 DEF Nodes, Delivery, Branches
  <2>4. /\ At(p, n, "work") /\ Return(p, n, v) /\ Work(p)
        /\ UNCHANGED <<request, faults, proposals>>
    BY <1>6, <2>1, <2>2 DEF AnalyzePerformance, AnalyzeSecurity, Work
  <2>5. /\ pc[p] = "running" /\ task[p][n] = "work" /\ task'[p][n] = "done"
        /\ vals'[p] = v
    BY <2>3, <2>4, ReturnFacts DEF At
  <2>6. v.model = vals[p].model
    BY <1>2, <2>2 DEF Values
  <2>7. QED
    BY <1>1, <2>3, <2>4, <2>5, <2>6 DEF Branches
<1>7. CASE MergeResults(p)
  <2>1. PICK n : n = "merge_results"
    OBVIOUS
  <2>2. /\ n \in Nodes \ Delivery /\ pc[p] = "running" /\ Work(p)
        /\ task[p][n] = "work" /\ task'[p][n] = "done" /\ vals'[p] = vals[p]
        /\ UNCHANGED <<request, faults, proposals>>
    BY <1>7, <2>1, ReturnFacts DEF MergeResults, At, Work, Nodes, Delivery
  <2>3. QED
    BY <1>1, <2>1, <2>2 DEF Branches
<1>8. CASE GenerateErd(p)
  <2>1. PICK n : n = "generate_erd"
    OBVIOUS
  <2>2. /\ n \in Nodes \ Delivery /\ pc[p] = "running" /\ Work(p)
        /\ task[p][n] = "work" /\ task'[p][n] = "announce" /\ vals'[p] = vals[p]
        /\ UNCHANGED <<request, faults, proposals>>
    BY <1>2, <1>8, <2>1, GoFacts DEF GenerateErd, At, Work, Nodes, Delivery
  <2>3. QED
    BY <1>1, <2>1, <2>2 DEF Branches
<1>9. CASE AnnounceErd(p)
  <2>1. PICK n : n = "generate_erd"
    OBVIOUS
  <2>2. /\ n \in Nodes \ Delivery /\ pc[p] = "running" /\ Work(p)
        /\ task[p][n] = "announce" /\ task'[p][n] = "done"
        /\ vals'[p] = [vals[p] EXCEPT !.diagram = vals[p].model]
        /\ UNCHANGED <<request, faults, proposals>>
    BY <1>9, <2>1, ReturnFacts DEF AnnounceErd, At, Work, Nodes, Delivery
  <2>3. vals'[p].model = vals[p].model
    BY <1>2, <2>2 DEF Values
  <2>4. QED
    BY <1>1, <2>1, <2>2, <2>3 DEF Branches
<1>10. QED
  BY <1>3, <1>4, <1>5, <1>6, <1>7, <1>8, <1>9

(* Behind the gate the ticket grows with the phases.                       *)
LEMMA DeliveryKeepsLInv ==
  ASSUME TypeOK, IInv, PInv, LInv, faults' = 0, NEW p \in Procs,
         GenerateSql(p) \/ UploadErd(p) \/ UploadSql(p) \/ AddComment(p) \/ Complete(p)
  PROVE  LInv'
<1>1. PICK n : n = IF GenerateSql(p) THEN "generate_sql" ELSE "update_openproject"
  OBVIOUS
<1>2. /\ n \in Nodes /\ n \in Delivery /\ pc[p] = "running"
      /\ task[p][n] \notin {"off", "done"}
      /\ task'[p][n] # task[p][n]
      /\ vals'[p].diagram = vals[p].diagram
      /\ artifacts'.diagram = artifacts.diagram
      /\ faults = 0 /\ Work(p)
  <2>1. /\ vals[p] \in Values /\ faults \in Nat
        /\ artifacts \in [diagram : Nat, sql : Nat]
        /\ {"work", "upload_sql", "comment", "complete", "done"} \subseteq Phases
    BY DEF TypeOK, Phases
  <2>2. n \in Nodes /\ n \in Delivery
    BY <1>1 DEF Nodes, Delivery
  <2>3. CASE GenerateSql(p)
    <3>1. /\ n = "generate_sql" /\ At(p, n, "work")
          /\ Return(p, n, [vals[p] EXCEPT !.sql = vals[p].model])
          /\ artifacts' = [artifacts EXCEPT !.sql = vals[p].model]
          /\ faults' = faults
      BY <1>1, <2>3 DEF GenerateSql
    <3>2. vals'[p] = [vals[p] EXCEPT !.sql = vals[p].model] /\ task'[p][n] = "done"
      BY <2>1, <2>2, <3>1, ReturnFacts
    <3>3. QED
      BY <2>1, <2>2, <2>3, <3>1, <3>2 DEF Values, At, Work
  <2>4. CASE ~GenerateSql(p) /\ (UploadErd(p) \/ UploadSql(p) \/ AddComment(p))
    <3>1. PICK phase \in {"upload_sql", "comment", "complete"} :
            /\ n = "update_openproject" /\ Go(p, n, phase)
            /\ pc[p] = "running" /\ task[p][n] \notin {"off", "done"}
            /\ task[p][n] # phase
            /\ UNCHANGED <<vals, artifacts>>
            /\ faults' = faults \/ faults' = faults + 1
      BY <1>1, <2>4 DEF UploadErd, UploadSql, AddComment, At
    <3>2. task'[p][n] = phase
      BY <2>1, <2>2, <3>1, GoFacts
    <3>3. faults = 0
      BY <2>1, <3>1
    <3>4. QED
      BY <2>2, <2>4, <3>1, <3>2, <3>3 DEF Work
  <2>5. CASE ~GenerateSql(p) /\ Complete(p)
    <3>1. /\ n = "update_openproject" /\ At(p, n, "complete")
          /\ Return(p, n, vals[p]) /\ UNCHANGED <<artifacts, faults>>
      BY <1>1, <2>5 DEF Complete, At
    <3>2. vals'[p] = vals[p] /\ task'[p][n] = "done"
      BY <2>1, <2>2, <3>1, ReturnFacts
    <3>3. QED
      BY <2>2, <2>5, <3>1, <3>2 DEF At, Work
  <2>6. QED
    BY <2>3, <2>4, <2>5
<1>3. NodeEffect(p, n)
  BY <1>2, TheNode
<1>4. p \in Approvals /\ DeliversPackage(p) /\ Scheduling(p) = {n}
  BY <1>2, SideOfTheGate
<1>5. Scheduling(p)' = {n}
  BY <1>3, <1>4 DEF NodeEffect, Scheduling
<1>6. vals[p].diagram # 0
  <2>1. vals[p].diagram = artifacts.diagram
    BY <1>4 DEF DeliversPackage
  <2>2. artifacts.diagram # 0
    BY <1>2, <1>4 DEF IInv, DecisionsFollowModel, Approvals, Untouched
  <2>3. QED
    BY <2>1, <2>2
<1>7. task[p]["update_openproject"] \notin {"off"} => vals[p].sql # 0
  BY <1>1, <1>2, <1>4 DEF IInv, GraphsSound, GraphSound, Ready, Delivery, Scheduling, Nodes
<1>8. Len(ticket) = PostedBy(task[p]["update_openproject"])
  BY <1>4 DEF DeliversPackage
<1>9. ticket \in Seq([what : {"erd", "sql", "comment"}, model : Nat])
  BY DEF TypeOK
<1>10. vals[p].diagram \in Nat /\ vals[p].sql \in Nat /\ vals[p].model \in Nat
  BY DEF TypeOK, Values
<1>11. /\ Len(ticket') = PostedBy(task'[p]["update_openproject"])
       /\ task'[p]["update_openproject"] = "done" => row'.status = "completed"
  <2>1. CASE GenerateSql(p)
    <3>1. task[p]["update_openproject"] = "off" /\ task'[p]["update_openproject"] = "off"
      BY <1>1, <1>3, <1>4, <2>1 DEF NodeEffect, Scheduling, Nodes
    <3>2. QED
      BY <1>8, <2>1, <3>1 DEF GenerateSql
  <2>2. CASE UploadErd(p)
    <3>1. /\ task[p]["update_openproject"] = "work"
          /\ task'[p]["update_openproject"] = "upload_sql"
          /\ ticket' = Append(ticket, [what |-> "erd", model |-> vals[p].diagram])
      BY <1>6, <2>2, GoFacts DEF UploadErd, Post, At, Nodes, Phases
    <3>2. /\ PostedBy("work") = 0 /\ PostedBy("upload_sql") = 1
          /\ Len(ticket') = Len(ticket) + 1
      BY <1>9, <1>10, <3>1 DEF PostedBy
    <3>3. QED
      BY <1>8, <3>1, <3>2
  <2>3. CASE UploadSql(p)
    <3>1. /\ task[p]["update_openproject"] = "upload_sql"
          /\ task'[p]["update_openproject"] = "comment"
          /\ ticket' = Append(ticket, [what |-> "sql", model |-> vals[p].sql])
      BY <1>7, <2>3, GoFacts DEF UploadSql, Post, At, Nodes, Phases
    <3>2. /\ PostedBy("upload_sql") = 1 /\ PostedBy("comment") = 2
          /\ Len(ticket') = Len(ticket) + 1
      BY <1>9, <1>10, <3>1 DEF PostedBy
    <3>3. QED
      BY <1>8, <3>1, <3>2
  <2>4. CASE AddComment(p)
    <3>1. /\ task[p]["update_openproject"] = "comment"
          /\ task'[p]["update_openproject"] = "complete"
          /\ ticket' = Append(ticket, [what |-> "comment", model |-> vals[p].model])
      BY <1>2, <2>4, GoFacts DEF AddComment, Post, At, Nodes, Phases
    <3>2. /\ PostedBy("comment") = 2 /\ PostedBy("complete") = 3
          /\ Len(ticket') = Len(ticket) + 1
      BY <1>9, <1>10, <3>1 DEF PostedBy
    <3>3. QED
      BY <1>8, <3>1, <3>2
  <2>5. CASE Complete(p)
    <3>1. /\ task[p]["update_openproject"] = "complete"
          /\ task'[p]["update_openproject"] = "done"
          /\ ticket' = ticket /\ row'.status = "completed"
      BY <2>5, ReturnFacts DEF Complete, PersistStatus, At, Nodes, TypeOK
    <3>2. QED
      BY <1>8, <3>1 DEF PostedBy
  <2>6. QED
    BY <2>1, <2>2, <2>3, <2>4, <2>5
<1>12. DeliversPackage(p)'
  BY <1>2, <1>4, <1>5, <1>11 DEF DeliversPackage
<1>13. QED
  BY <1>2, <1>3, <1>4, <1>12, NodeKeepsLInv

LEMMA LoopInductive ==
  TypeOK /\ IInv /\ PInv /\ LInv /\ [PatientNext]_vars => LInv'
<1> SUFFICES ASSUME TypeOK, IInv, PInv, LInv, [PatientNext]_vars, faults' = 0
             PROVE  LInv'
  BY DEF LInv
<1>1. CASE StartAnalysis
  BY <1>1, StartKeepsLInv
<1>2. ASSUME NEW r \in Requests, PatientDecision(r) PROVE LInv'
  BY <1>2, DecideKeepsLInv
<1>3. ASSUME NEW p \in Procs, Proceed(p) PROVE LInv'
  <2>1. CASE p = Starter /\ BeginWorkflow
    BY <2>1, BeginKeepsLInv
  <2>2. CASE p \in Requests /\ (CommitDecision(p) \/ Resumption(p))
    BY <2>2, HandlerKeepsLInv, ResumeKeepsLInv DEF Resumption
  <2>3. ASSUME NEW n \in Nodes, EnterNode(p, n) PROVE LInv'
    BY <2>3, EnterKeepsLInv
  <2>4. CASE AwaitApproval(p)
    BY <2>4 DEF AwaitApproval, At, PInv, GraphsInStep, InStep
  <2>5. CASE Work(p) /\ ~AwaitApproval(p)
    BY <2>5, DraftingKeepsLInv, DeliveryKeepsLInv DEF Work
  <2>6. CASE Superstep(p)
    BY <2>6, SuperstepKeepsLInv
  <2>7. QED
    BY <1>3, <2>1, <2>2, <2>3, <2>4, <2>5, <2>6 DEF Proceed, RunGraph
<1>4. CASE Faulty
  BY <1>4, InputsFromInvariant DEF Faulty, Crash, Raise, InputsPresent, TypeOK
<1>5. CASE Finished \/ UNCHANGED vars
  BY <1>5 DEF Finished, vars, LInv, CarriedOver, Carries, AnswersWish, WishOf,
     DeliversPackage, Scheduling, Approvals, Live
<1>6. QED
  BY <1>1, <1>2, <1>3, <1>4, <1>5 DEF PatientNext

LEMMA LoopInvariance == PatientSpec => [](TypeOK /\ IInv /\ PInv /\ LInv)
<1>1. PatientSpec => []LInv
  BY LInvInit, LoopInductive, PatientInvariance, PTL DEF PatientSpec
<1>2. QED
  BY <1>1, PatientInvariance, PTL

-----------------------------------------------------------------------------
(* What ReviewLoop sees of a state.                                        *)

Shown == [model |-> artifacts.diagram, answers |-> proposals[artifacts.diagram]]

Unopened == Stage = "unopened" /\ Wish = None /\ Offer = Loop!NoOffer

AtWork(p) ==
  IF p \in Approvals
  THEN Stage = "delivering" /\ Wish = None /\ Offer = Shown
  ELSE Stage = "working" /\ Wish = WishOf(p) /\ Offer = Loop!NoOffer

AtRest ==
  /\ Stage = IF row.status = "completed" THEN "done" ELSE "waiting"
  /\ Wish = None
  /\ Offer = Shown

LEMMA SeenBroken == TypeOK /\ faults # 0 => Stage = "broken"
<1>1. TypeOK /\ faults # 0 => faults > 0
  BY DEF TypeOK
<1>2. QED
  BY <1>1 DEF Stage

LEMMA SeenUnopened == faults = 0 /\ pc[Starter] = "idle" => Unopened
<1> SUFFICES ASSUME faults = 0, pc[Starter] = "idle" PROVE Unopened
  OBVIOUS
<1>1. Stage = "unopened"
  BY DEF Stage
<1>2. QED
  BY <1>1 DEF Unopened, Wish, Offer, Loop!NoOffer

LEMMA SeenAtWork ==
  IInv /\ PInv /\ faults = 0 => \A p \in Procs : Live(p) => AtWork(p)
<1> SUFFICES ASSUME IInv, PInv, faults = 0, NEW p \in Procs, Live(p)
             PROVE  AtWork(p)
  OBVIOUS
<1>1. pc[Starter] # "idle" /\ ~Quiet
  BY IdleIsQuiet DEF Quiet
<1>2. \A q \in Procs : Live(q) <=> q = p
  BY OthersAreQuiet DEF PInv
<1>3. Driver = p
  BY <1>2 DEF Driver
<1>4. (\E r \in Approvals : Live(r)) <=> p \in Approvals
  BY <1>2 DEF Approvals, Procs
<1>5. Stage = IF p \in Approvals THEN "delivering" ELSE "working"
  BY <1>1, <1>4 DEF Stage, AtWorkStage
<1>6. p \notin Approvals => Wish = WishOf(p)
  BY <1>3, <1>5 DEF Wish, WishOf
<1>7. QED
  BY <1>5, <1>6 DEF AtWork, Wish, Offer, Shown, Loop!NoOffer

LEMMA SeenAtRest ==
  IInv /\ PInv /\ faults = 0 /\ Quiet /\ pc[Starter] # "idle" => AtRest
<1> SUFFICES ASSUME faults = 0, Quiet, pc[Starter] # "idle" PROVE AtRest
  OBVIOUS
<1>1. Stage = IF row.status = "completed" THEN "done" ELSE "waiting"
  BY DEF Stage, AtRestStage
<1>2. QED
  BY <1>1 DEF AtRest, Wish, Offer, Shown

(* The same of the next state.                                             *)
LEMMA SeenNext ==
  /\ (TypeOK /\ faults # 0 => Stage = "broken")'
  /\ (faults = 0 /\ pc[Starter] = "idle" => Unopened)'
  /\ (IInv /\ PInv /\ faults = 0 => \A p \in Procs : Live(p) => AtWork(p))'
  /\ (IInv /\ PInv /\ faults = 0 /\ Quiet /\ pc[Starter] # "idle" => AtRest)'
BY SeenBroken, SeenUnopened, SeenAtWork, SeenAtRest, PTL

Entries == [what : {"erd", "sql", "comment"}, model : Nat]

(* The ticket, seen through Kind.                                          *)
LEMMA PostsCounted ==
  ASSUME TypeOK
  PROVE  /\ Posted \in Seq([what : {"diagram", "script", "comment"}, model : Nat])
         /\ Len(Posted) = Len(ticket)
<1> DEFINE Seen(x) == [what |-> Kind[x.what], model |-> x.model]
           S == [what : {"diagram", "script", "comment"}, model : Nat]
<1>1. ticket \in Seq(Entries)
  BY DEF TypeOK, Entries
<1>2. /\ Len(ticket) \in Nat /\ DOMAIN ticket = 1..Len(ticket)
      /\ \A i \in 1..Len(ticket) : ticket[i] \in Entries
  BY <1>1
<1>3. \A x \in Entries : Seen(x) \in S
  BY DEF Kind, Entries
<1>4. Posted = [i \in 1..Len(ticket) |-> Seen(ticket[i])]
  BY <1>2 DEF Posted
<1>5. Posted \in [1..Len(ticket) -> S]
  BY <1>2, <1>3, <1>4
<1>6. Posted \in Seq(S)
  <2>1. Seq(S) = UNION {[1..n -> S] : n \in Nat}
    BY SeqDef
  <2>2. QED
    BY <1>2, <1>5, <2>1
<1>7. DOMAIN Posted = 1..Len(ticket)
  BY <1>4
<1>8. QED
  BY <1>2, <1>6, <1>7

LEMMA SeenPosts ==
  ASSUME TypeOK, NEW e \in Entries, ticket' = Append(ticket, e)
  PROVE  /\ Posted' = Append(Posted, [what |-> Kind[e.what], model |-> e.model])
         /\ Len(Posted) = Len(ticket)
<1> DEFINE Seen(x) == [what |-> Kind[x.what], model |-> x.model]
<1>1. ticket \in Seq(Entries)
  BY DEF TypeOK, Entries
<1>2. /\ Len(ticket) \in Nat /\ DOMAIN ticket = 1..Len(ticket)
      /\ DOMAIN ticket' = 1..(Len(ticket) + 1)
      /\ \A i \in 1..Len(ticket) : ticket'[i] = ticket[i]
      /\ ticket'[Len(ticket) + 1] = e
  BY <1>1
<1>3. Posted = [i \in 1..Len(ticket) |-> Seen(ticket[i])]
  BY <1>2 DEF Posted
<1>4. Posted' = [i \in 1..(Len(ticket) + 1) |-> Seen(ticket'[i])]
  BY <1>2 DEF Posted
<1>5. Append(Posted, Seen(e)) =
        [i \in 1..(Len(ticket) + 1) |-> IF i = Len(ticket) + 1 THEN Seen(e) ELSE Posted[i]]
  <2>1. Seen(e) \in [what : {"diagram", "script", "comment"}, model : Nat]
    BY DEF Entries, Kind
  <2>2. QED
    BY <1>2, <2>1, PostsCounted
<1>6. QED
  BY <1>2, <1>3, <1>4, <1>5, PostsCounted

-----------------------------------------------------------------------------
(* Each step of the workflow is a step of the loop, or none.               *)

LEMMA SameTicketSamePosts ==
  ASSUME ticket' = ticket
  PROVE  Posted' = Posted
BY DEF Posted

(* Both ends of a step without failures.                                   *)
Fine == TypeOK /\ IInv /\ PInv /\ LInv /\ faults = 0

LEMMA InitFollowsLoop == Init => Loop!LoopInit
<1> SUFFICES ASSUME Init PROVE Loop!LoopInit
  OBVIOUS
<1>1. Unopened
  BY SeenUnopened, StarterAssumption DEF Init, Procs
<1>2. Posted = <<>>
  BY DEF Init, Posted
<1>3. QED
  BY <1>1, <1>2 DEF Unopened, Loop!LoopInit

LEMMA FailureBreaks ==
  ASSUME TypeOK', faults' # 0
  PROVE  Loop!LoopNext
BY SeenNext DEF Loop!LoopNext, Loop!Break

LEMMA StartOpens ==
  ASSUME Fine, Fine', StartAnalysis
  PROVE  Loop!LoopNext
<1>1. Unopened
  BY SeenUnopened DEF Fine, StartAnalysis
<1>2. Live(Starter)' /\ Starter \in Procs /\ Starter \notin Approvals'
  BY StarterAssumption DEF Fine, TypeOK, StartAnalysis, Live, Procs, Approvals
<1>3. AtWork(Starter)'
  BY <1>2, SeenNext DEF Fine
<1>4. Posted' = Posted
  BY SameTicketSamePosts DEF StartAnalysis
<1>5. Loop!Open
  BY <1>1, <1>2, <1>3, <1>4 DEF Unopened, AtWork, WishOf, Loop!Open
<1>6. QED
  BY <1>5 DEF Loop!LoopNext

(* A refusal is no step of the loop; a decision approves or rejects.       *)
LEMMA DecisionSteps ==
  ASSUME Fine, Fine', NEW r \in Requests, PatientDecision(r)
  PROVE  Loop!LoopNext \/ UNCHANGED Loop!loopVars
<1>1. /\ pc \in [Procs -> PCs] /\ Quiet /\ \A p \in Procs : ~Live(p)
      /\ r \in Procs /\ r # Starter
  BY StarterAssumption DEF Fine, TypeOK, PatientDecision, Quiet, Procs
<1>2. CASE RefuseDecision(r)
  <2>1. Quiet' /\ pc'[Starter] = pc[Starter]
    BY <1>1, <1>2 DEF RefuseDecision, Quiet, Live
  <2>2. Posted' = Posted /\ Shown' = Shown /\ row' = row
    BY <1>2, SameTicketSamePosts DEF RefuseDecision, Shown
  <2>3. CASE pc[Starter] = "idle"
    <3>1. Unopened /\ Unopened'
      BY <2>1, <2>3, SeenUnopened, SeenNext DEF Fine
    <3>2. QED
      BY <2>2, <3>1 DEF Unopened, Loop!loopVars
  <2>4. CASE pc[Starter] # "idle"
    <3>1. AtRest /\ AtRest'
      BY <1>1, <2>1, <2>4, SeenAtRest, SeenNext DEF Fine
    <3>2. QED
      BY <2>2, <3>1 DEF AtRest, Loop!loopVars
  <2>5. QED
    BY <2>3, <2>4
<1>3. ASSUME NEW d \in Decision, NEW f \in Feedback, AcceptDecision(r, d, f)
      PROVE  Loop!LoopNext
  <2>1. row.status = "awaiting_approval" /\ pc[Starter] # "idle"
    BY <1>3 DEF AcceptDecision, Fine, PInv, NotBegun
  <2>2. Stage = "waiting" /\ Wish = None /\ Offer = Shown
    BY <1>1, <2>1, SeenAtRest DEF Fine, AtRest
  <2>3. /\ Live(r)' /\ AtWork(r)'
        /\ request'[r].decision = d
        /\ d = "rejected" => request'[r].feedback = f
    <3>1. Live(r)'
      BY <1>1, <1>3 DEF AcceptDecision, Live
    <3>2. request \in [Requests -> [decision : Decision \cup {"none"},
             feedback : Feedback \cup {None}, readApproval : ApprovalState,
             readFeedback : Feedback \cup {None}, shown : Nat]]
      BY DEF Fine, TypeOK
    <3>3. QED
      BY <1>1, <1>3, <3>1, <3>2, SeenNext DEF AcceptDecision, Fine
  <2>4. Posted' = Posted /\ Shown' = Shown
    BY <1>3, SameTicketSamePosts DEF AcceptDecision, Shown
  <2>5. CASE d = "approved"
    <3>1. r \in Approvals'
      BY <2>3, <2>5 DEF Approvals
    <3>2. Loop!Approve
      BY <2>2, <2>3, <2>4, <3>1 DEF AtWork, Loop!Approve
    <3>3. QED
      BY <3>2 DEF Loop!LoopNext
  <2>6. CASE d = "rejected"
    <3>1. r \notin Approvals' /\ WishOf(r)' = f
      BY <1>1, <2>3, <2>6 DEF Approvals, WishOf
    <3>2. Loop!Reject
      BY <2>2, <2>3, <2>4, <3>1 DEF AtWork, Loop!Reject
    <3>3. QED
      BY <3>2 DEF Loop!LoopNext
  <2>7. QED
    BY <2>5, <2>6 DEF Decision
<1>4. QED
  BY <1>2, <1>3 DEF PatientDecision, Decide

(* A task that stays at work, and neither shows nor posts anything new.    *)
LEMMA WorkGoesOn ==
  ASSUME Fine, Fine', NEW p \in Procs, Live(p), Live(p)',
         UNCHANGED <<request, ticket>>,
         p \in Approvals => UNCHANGED Shown
  PROVE  UNCHANGED Loop!loopVars
<1>1. AtWork(p) /\ AtWork(p)'
  BY SeenAtWork, SeenNext DEF Fine
<1>2. (p \in Approvals)' <=> p \in Approvals
  BY DEF Approvals
<1>3. WishOf(p)' = WishOf(p) /\ Posted' = Posted
  BY SameTicketSamePosts DEF WishOf
<1>4. QED
  BY <1>1, <1>2, <1>3 DEF AtWork, Loop!loopVars

LEMMA HandlerStutters ==
  ASSUME Fine, Fine', NEW p \in Procs,
         \/ p = Starter /\ BeginWorkflow
         \/ p \in Requests /\ (CommitDecision(p) \/ Resumption(p))
  PROVE  UNCHANGED Loop!loopVars
<1>1. pc \in [Procs -> PCs]
  BY DEF Fine, TypeOK
<1>2. CASE p \in Requests /\ Resume(p)
  <2>1. Live(p) /\ checkpoint.next = RouteAfterApproval(request[p].decision) /\ ~Untouched(p)
    BY <1>2 DEF Resume, Live, Untouched, Fine, PInv, DecisionsStand, DecisionStands
  <2>2. request[p].decision \in Decision
    BY <1>2, <2>1 DEF Fine, TypeOK, IInv, RequestsSound
  <2>3. checkpoint.next # {}
    BY <2>1, <2>2 DEF RouteAfterApproval, Decision
  <2>4. Live(p)' /\ UNCHANGED <<request, ticket>> /\ UNCHANGED Shown
    BY <1>1, <1>2, <2>3 DEF Resume, Live, Shown
  <2>5. QED
    BY <2>1, <2>4, WorkGoesOn
<1>3. CASE p = Starter /\ BeginWorkflow
  BY <1>1, <1>3, WorkGoesOn DEF BeginWorkflow, Live, Shown
<1>4. CASE p \in Requests /\ (CommitDecision(p) \/ UpdateStateRead(p) \/ UpdateStateWrite(p))
  BY <1>1, <1>4, WorkGoesOn DEF CommitDecision, UpdateStateRead, UpdateStateWrite, Live, Shown
<1>5. QED
  BY <1>2, <1>3, <1>4 DEF Resumption

(* Before the gate a node's step is the backend's own business.            *)
LEMMA DraftingStutters ==
  ASSUME Fine, Fine', NEW p \in Procs,
         \/ ValidateInput(p) \/ AnalyzeProject(p) \/ ModelSchema(p)
         \/ AnalyzePerformance(p) \/ AnalyzeSecurity(p) \/ MergeResults(p)
         \/ GenerateErd(p) \/ AnnounceErd(p)
  PROVE  UNCHANGED Loop!loopVars
<1>1. PICK n \in Nodes \ Delivery :
        /\ pc[p] = "running" /\ task[p][n] \in {"work", "announce"}
        /\ UNCHANGED <<pc, request, ticket>>
  BY DEF ValidateInput, AnalyzeProject, ModelSchema, AnalyzePerformance,
     AnalyzeSecurity, MergeResults, GenerateErd, AnnounceErd, At, Nodes, Delivery
<1>2. p \notin Approvals
  BY <1>1, SideOfTheGate DEF Fine
<1>3. Live(p) /\ Live(p)'
  BY <1>1 DEF Live
<1>4. QED
  BY <1>1, <1>2, <1>3, WorkGoesOn

(* The status, the script and the return value of a delivery are, too.     *)
LEMMA QuietDeliverySteps ==
  ASSUME Fine, Fine', NEW p \in Procs,
         (\E n \in Nodes : EnterNode(p, n)) \/ GenerateSql(p) \/ Complete(p)
  PROVE  UNCHANGED Loop!loopVars
<1>1. /\ pc[p] = "running" /\ UNCHANGED <<pc, request, ticket, proposals>>
      /\ artifacts' = artifacts \/ artifacts' = [artifacts EXCEPT !.sql = vals[p].model]
  BY DEF EnterNode, GenerateSql, Complete, At
<1>2. Shown' = Shown
  <2>1. artifacts \in [diagram : Nat, sql : Nat]
    BY DEF Fine, TypeOK
  <2>2. artifacts'.diagram = artifacts.diagram
    BY <1>1, <2>1
  <2>3. QED
    BY <1>1, <2>2 DEF Shown
<1>3. Live(p) /\ Live(p)'
  BY <1>1 DEF Live
<1>4. QED
  BY <1>1, <1>2, <1>3, WorkGoesOn

(* A post of the approved proposal is the next item of the package.        *)
LEMMA PostDelivers ==
  ASSUME Fine, Fine', NEW p \in Procs, NEW e \in Entries,
         pc[p] = "running",
         task[p]["update_openproject"] \notin {"off", "enter", "done"},
         UNCHANGED <<pc, request, artifacts, proposals>>,
         ticket' = Append(ticket, e),
         e.model = artifacts.diagram,
         PostedBy(task[p]["update_openproject"]) \in 0..2,
         Kind[e.what] = Loop!Package[PostedBy(task[p]["update_openproject"]) + 1]
  PROVE  Loop!LoopNext
<1>1. Live(p) /\ Live(p)' /\ "update_openproject" \in Nodes
  BY DEF Live, Nodes
<1>2. p \in Approvals /\ DeliversPackage(p)
  BY <1>1, SideOfTheGate DEF Fine, Delivery
<1>3. AtWork(p) /\ AtWork(p)' /\ (p \in Approvals)'
  BY <1>1, <1>2, SeenAtWork, SeenNext DEF Fine, Approvals
<1>4. /\ Posted' = Append(Posted, [what |-> Kind[e.what], model |-> e.model])
      /\ Len(Posted) = PostedBy(task[p]["update_openproject"])
  BY <1>2, SeenPosts DEF Fine, DeliversPackage
<1>5. Offer.model = artifacts.diagram /\ Shown' = Shown
  BY <1>2, <1>3 DEF AtWork, Shown
<1>6. Len(Loop!Package) = 3
  BY DEF Loop!Package
<1>7. Loop!Deliver
  BY <1>2, <1>3, <1>4, <1>5, <1>6 DEF AtWork, Loop!Deliver
<1>8. QED
  BY <1>7 DEF Loop!LoopNext

LEMMA UploadsDeliver ==
  ASSUME Fine, Fine', NEW p \in Procs,
         UploadErd(p) \/ UploadSql(p) \/ AddComment(p)
  PROVE  Loop!LoopNext
<1>1. PICK n : n = "update_openproject"
  OBVIOUS
<1>2. /\ n \in Nodes /\ pc[p] = "running"
      /\ task[p][n] \in {"work", "upload_sql", "comment"}
      /\ UNCHANGED <<pc, request, artifacts, proposals>>
  BY <1>1 DEF UploadErd, UploadSql, AddComment, At, Nodes
<1>3. DeliversApproved(p) /\ DeliversPackage(p) /\ p \in Approvals
  BY <1>1, <1>2, NodeContext, SideOfTheGate DEF Fine, Delivery
<1>4. /\ vals[p].diagram = artifacts.diagram
      /\ vals[p].sql = artifacts.diagram
      /\ vals[p].model = artifacts.diagram
      /\ artifacts.diagram \in Nat
  BY <1>1, <1>2, <1>3 DEF DeliversApproved, DeliversPackage, Fine, TypeOK
<1>5. artifacts.diagram # 0
  BY <1>3 DEF Fine, IInv, DecisionsFollowModel, RequestsSound, Approvals
<1>6. CASE UploadErd(p)
  <2>1. PICK e : e = [what |-> "erd", model |-> vals[p].diagram]
    OBVIOUS
  <2>2. ticket' = Append(ticket, e) /\ task[p][n] = "work"
    BY <1>1, <1>4, <1>5, <1>6, <2>1 DEF UploadErd, Post, At
  <2>3. /\ e \in Entries /\ e.model = artifacts.diagram
        /\ PostedBy("work") = 0 /\ Kind[e.what] = Loop!Package[1]
    BY <1>4, <2>1 DEF Entries, PostedBy, Kind, Loop!Package
  <2>4. QED
    BY <1>1, <1>2, <2>2, <2>3, PostDelivers
<1>7. CASE UploadSql(p)
  <2>1. PICK e : e = [what |-> "sql", model |-> vals[p].sql]
    OBVIOUS
  <2>2. ticket' = Append(ticket, e) /\ task[p][n] = "upload_sql"
    BY <1>1, <1>4, <1>5, <1>7, <2>1 DEF UploadSql, Post, At
  <2>3. /\ e \in Entries /\ e.model = artifacts.diagram
        /\ PostedBy("upload_sql") = 1 /\ Kind[e.what] = Loop!Package[2]
    BY <1>4, <2>1 DEF Entries, PostedBy, Kind, Loop!Package
  <2>4. QED
    BY <1>1, <1>2, <2>2, <2>3, PostDelivers
<1>8. CASE AddComment(p)
  <2>1. PICK e : e = [what |-> "comment", model |-> vals[p].model]
    OBVIOUS
  <2>2. ticket' = Append(ticket, e) /\ task[p][n] = "comment"
    BY <1>1, <1>8, <2>1 DEF AddComment, Post, At, Fine
  <2>3. /\ e \in Entries /\ e.model = artifacts.diagram
        /\ PostedBy("comment") = 2 /\ Kind[e.what] = Loop!Package[3]
    BY <1>4, <2>1 DEF Entries, PostedBy, Kind, Loop!Package
  <2>4. QED
    BY <1>1, <1>2, <2>2, <2>3, PostDelivers
<1>9. QED
  BY <1>6, <1>7, <1>8

(* A graph stops before the gate with a proposal, or having delivered.     *)
LEMMA SuperstepSteps ==
  ASSUME Fine, Fine', NEW p \in Procs, Superstep(p)
  PROVE  Loop!LoopNext \/ UNCHANGED Loop!loopVars
<1>1. /\ pc[p] = "running" /\ Live(p) /\ InStep(p) /\ pc \in [Procs -> PCs]
      /\ UNCHANGED <<row, artifacts, ticket, request, proposals>>
      /\ \A n \in Nodes : task[p][n] \in {"off", "done"}
      /\ IsSuperstep(Scheduling(p))
      /\ row.status = "completed" => task[p]["update_openproject"] = "done"
  BY DEF Superstep, Live, Fine, TypeOK, PInv, GraphsInStep, IInv, GraphsSound, GraphSound
<1>2. Shown' = Shown /\ Posted' = Posted
  BY <1>1, SameTicketSamePosts DEF Shown
<1>3. CASE pc' = pc
  BY <1>1, <1>2, <1>3, WorkGoesOn DEF Live
<1>4. CASE pc' # pc
  <2>1. /\ pc' = [pc EXCEPT ![p] = "ended"]
        /\ NextNodes(p) = {} \/ "await_approval" \in NextNodes(p)
    BY <1>4 DEF Superstep, InterruptBefore
  <2>2. Quiet' /\ pc'[Starter] # "idle"
    <3>1. \A q \in Procs : q # p => ~Live(q)
      BY <1>1, OthersAreQuiet DEF Fine, PInv
    <3>2. pc[Starter] # "idle"
      BY <1>1, IdleIsQuiet DEF Fine
    <3>3. QED
      BY <1>1, <2>1, <3>1, <3>2 DEF Quiet, Live, Procs
  <2>3. AtWork(p) /\ AtRest'
    BY <1>1, <2>2, SeenAtWork, SeenNext DEF Fine
  <2>4. PICK n \in Scheduling(p) : TRUE
    BY <1>1 DEF InStep
  <2>5. /\ n \in Nodes \ {"await_approval"} /\ task[p][n] = "done"
        /\ NextNodes(p) = EdgesFrom(n, vals[p].approval)
    BY <1>1, <2>4, NextOf DEF Scheduling, InStep
  <2>6. n = "generate_erd" \/ n = "update_openproject"
    BY <2>1, <2>5 DEF EdgesFrom, Nodes
  <2>7. Scheduling(p) = {n}
    BY <1>1, <2>4, <2>6 DEF IsSuperstep, Branches
  <2>8. CASE n = "generate_erd"
    <3>1. p \notin Approvals /\ AnswersWish(p)
      BY <1>1, <2>7, <2>8 DEF Fine, LInv, DeliversPackage, Delivery
    <3>2. row.status # "completed"
      BY <1>1, <2>7, <2>8 DEF Scheduling, Nodes
    <3>3. artifacts.diagram = vals[p].model /\ proposals[vals[p].model] = WishOf(p)
      BY <1>1, <2>5, <2>8, <3>1 DEF InStep, AnswersWish
    <3>4. vals[p].model # 0
      BY <1>1, <2>5, <2>8 DEF Fine, IInv, GraphsSound, GraphSound, Returned, AfterModel
    <3>5. Offer' = [model |-> Offer'.model, answers |-> Wish] /\ Offer'.model # 0
      BY <1>1, <1>2, <2>3, <3>1, <3>3, <3>4 DEF AtWork, AtRest, Shown
    <3>6. Loop!Propose
      BY <1>1, <1>2, <2>3, <3>1, <3>2, <3>5 DEF AtWork, AtRest, Loop!Propose
    <3>7. QED
      BY <3>6 DEF Loop!LoopNext
  <2>9. CASE n = "update_openproject"
    <3>1. p \in Approvals
      BY <1>1, <2>7, <2>9 DEF Fine, PInv, GraphsInStep, DeliversApproved, Delivery
    <3>2. row.status = "completed" /\ Len(ticket) = 3
      BY <1>1, <2>5, <2>9, <3>1 DEF Fine, LInv, DeliversPackage, PostedBy
    <3>3. Len(Posted) = 3 /\ Len(Loop!Package) = 3
      BY <3>2, PostsCounted DEF Fine, Loop!Package
    <3>4. Loop!Close
      BY <1>1, <1>2, <2>3, <3>1, <3>2, <3>3 DEF AtWork, AtRest, Loop!Close
    <3>5. QED
      BY <3>4 DEF Loop!LoopNext
  <2>10. QED
    BY <2>6, <2>8, <2>9
<1>5. QED
  BY <1>3, <1>4

LEMMA StepFollowsLoop ==
  TypeOK /\ IInv /\ PInv /\ LInv /\ TypeOK' /\ IInv' /\ PInv' /\ LInv'
    /\ [PatientNext]_vars
  => [Loop!LoopNext]_(Loop!loopVars)
<1> SUFFICES ASSUME TypeOK, IInv, PInv, LInv, TypeOK', IInv', PInv', LInv',
                    [PatientNext]_vars
             PROVE  Loop!LoopNext \/ UNCHANGED Loop!loopVars
  OBVIOUS
<1>1. CASE UNCHANGED vars
  BY <1>1 DEF vars, Loop!loopVars, Stage, AtRestStage, AtWorkStage, Quiet, Live,
     Approvals, Wish, Driver, Offer, Posted
<1>2. CASE faults' # 0
  BY <1>2, FailureBreaks
<1>3. CASE PatientNext /\ faults' = 0
  <2>1. Fine /\ Fine'
    BY <1>3, FaultsOnlyGrow DEF Fine
  <2>2. CASE StartAnalysis
    BY <2>1, <2>2, StartOpens
  <2>3. ASSUME NEW r \in Requests, PatientDecision(r)
        PROVE  Loop!LoopNext \/ UNCHANGED Loop!loopVars
    BY <2>1, <2>3, DecisionSteps
  <2>4. ASSUME NEW p \in Procs, Proceed(p)
        PROVE  Loop!LoopNext \/ UNCHANGED Loop!loopVars
    <3>1. ~AwaitApproval(p)
      BY <2>1 DEF Fine, AwaitApproval, At, PInv, GraphsInStep, InStep
    <3>2. QED
      BY <2>1, <2>4, <3>1, HandlerStutters, DraftingStutters, QuietDeliverySteps,
         UploadsDeliver, SuperstepSteps DEF Proceed, RunGraph, Work
  <2>5. CASE Faulty
    BY <1>3, <2>1, <2>5, InputsFromInvariant
       DEF Fine, TypeOK, Faulty, Crash, Raise, InputsPresent
  <2>6. CASE Finished
    BY <1>1, <2>6 DEF Finished
  <2>7. QED
    BY <1>3, <2>2, <2>3, <2>4, <2>5, <2>6 DEF PatientNext
<1>4. QED
  BY <1>1, <1>2, <1>3

(* Until something fails, whatever the tasks' order, the session follows   *)
(* the review loop: a proposal answers the last rejection, and the ticket  *)
(* gets the package of the approved one, item by item and once.            *)
THEOREM ReviewLoopFollowed == PatientSpec => FollowsReviewLoop
BY InitFollowsLoop, StepFollowsLoop, LoopInvariance, PTL
   DEF PatientSpec, FollowsReviewLoop, Loop!LoopSafety
=============================================================================
