---------------------------- MODULE PatientReview ----------------------------
(***************************************************************************)
(* AnalysisWorkflow with reviewers that wait: a decision is sent only when *)
(* no handler and no background task of the session is still at work.  The *)
(* backend does not enforce this and a client cannot see it -- the status  *)
(* turns awaiting_approval before the graph has stopped -- so what holds   *)
(* here and not in AnalysisWorkflow is what depends on the reviewer.       *)
(***************************************************************************)
EXTENDS AnalysisWorkflow

Quiet == \A p \in Procs : ~Live(p)

PatientDecision(r) == Quiet /\ Decide(r)

PatientNext ==
  \/ StartAnalysis
  \/ \E r \in Requests : PatientDecision(r)
  \/ \E p \in Procs : Proceed(p)
  \/ Faulty
  \/ Finished

PatientSpec == Init /\ [][PatientNext]_vars

FairPatientSpec == PatientSpec /\ Fairness

-----------------------------------------------------------------------------
(* Safety.                                                                 *)

(* What is delivered is what was shown: every script and comment on the    *)
(* ticket, and the script GET /sql returns, is of the model whose diagram  *)
(* the approver could see -- though tasks may fail and the server may die  *)
(* between any two steps.                                                  *)
ScriptWasShown ==
  artifacts.sql # 0 \/ ticket # <<>> =>
    \E r \in Approvals :
      /\ artifacts.sql = request[r].shown
      /\ \A i \in DOMAIN ticket :
           ticket[i].what \in {"sql", "comment"} =>
             ticket[i].model = request[r].shown

(* Nothing follows completed: once the session says so, no step changes    *)
(* its row, its artifacts or its ticket.                                   *)
CompletedIsFinal ==
  [][row.status = "completed" => UNCHANGED <<row, artifacts, ticket>>]_vars

-----------------------------------------------------------------------------
(* What the GET routes answer; 0 stands for a 404.                         *)

GetStatus ==
  [status |-> row.status, approval_state |-> row.approval,
   rejection_feedback |-> row.feedback]

(* The tables of the model, then both lists, all from the snapshot. *)
ProposedActions ==
  [tables |-> snapshot.model, performance |-> snapshot.perf,
   security |-> snapshot.sec]

GetDiagram ==
  [content |-> artifacts.diagram, proposed_actions |-> ProposedActions]

GetSql == [ddl |-> artifacts.sql]

GetAnalysis ==
  [status |-> row.status, approval_state |-> row.approval,
   diagram |-> artifacts.diagram, sql_artifact |-> artifacts.sql,
   performance |-> snapshot.perf, security |-> snapshot.sec]

(* The routes answer from three tables that are written one by one, and    *)
(* still tell one story, whatever fails: while the status asks for a       *)
(* decision, the diagram, the proposed actions and the whole analysis are  *)
(* of one model, and in completed the script is that of the diagram.       *)
ScreensAgree ==
  /\ GetStatus.status = "awaiting_approval" =>
       /\ GetDiagram.content # 0
       /\ GetDiagram.proposed_actions.tables = GetDiagram.content
       /\ EndsWith(GetAnalysis.performance, GetDiagram.content)
       /\ EndsWith(GetAnalysis.security, GetDiagram.content)
  /\ GetStatus.status = "completed" =>
       /\ GetStatus.approval_state = "approved"
       /\ GetSql.ddl = GetDiagram.content

(* Without failures, at rest and awaiting approval, the graph is paused    *)
(* before the gate, with the diagram that GET /diagram shows and the model *)
(* it was drawn from.                                                      *)
RestAgrees ==
  faults = 0 /\ Quiet /\ GetStatus.status = "awaiting_approval" =>
    /\ checkpoint.next = {"await_approval"}
    /\ checkpoint.values.model = GetDiagram.content
    /\ checkpoint.values.diagram = GetDiagram.content

-----------------------------------------------------------------------------
(* Until something fails the session is the review loop of ReviewLoop.     *)

Driver == CHOOSE p \in Procs : Live(p)

AtRestStage == IF row.status = "completed" THEN "done" ELSE "waiting"

AtWorkStage == IF \E r \in Approvals : Live(r) THEN "delivering" ELSE "working"

Stage ==
  IF faults > 0               THEN "broken"
  ELSE IF pc[Starter] = "idle" THEN "unopened"
  ELSE IF Quiet               THEN AtRestStage ELSE AtWorkStage

Wish ==
  IF Stage = "working" /\ Driver # Starter THEN request[Driver].feedback
                                           ELSE None

Offer ==
  IF Stage \in {"unopened", "working", "broken"}
  THEN [model |-> 0, answers |-> None]
  ELSE [model |-> artifacts.diagram, answers |-> proposals[artifacts.diagram]]

Kind == [erd |-> "diagram", sql |-> "script", comment |-> "comment"]

Posted ==
  [i \in DOMAIN ticket |->
     [what |-> Kind[ticket[i].what], model |-> ticket[i].model]]

Loop == INSTANCE ReviewLoop
  WITH stage <- Stage, wish <- Wish, offer <- Offer, posted <- Posted

(* Its steps are steps of that loop, however the tasks interleave.         *)
FollowsReviewLoop == Loop!LoopSafety

(* The workflow implements the promise to its reviewer, the liveness of    *)
(* proposals and deliveries included, up to the first failure.             *)
ImplementsReviewLoop == Loop!LoopSpec
=============================================================================
