----------------------------- MODULE ReviewLoop -----------------------------
(***************************************************************************)
(* What the backend promises one reviewer of one session, with no word of  *)
(* checkpoints, nodes or tasks.  A proposal is offered; a rejection is     *)
(* answered by another proposal made under its feedback; an approval puts  *)
(* the diagram, the script and the comment of exactly the approved         *)
(* proposal on the ticket, once each, and closes the session.  A failure   *)
(* breaks the loop, and nothing is promised from there on.                 *)
(***************************************************************************)
EXTENDS Naturals, Sequences

CONSTANTS Feedback, None

VARIABLES
  stage,     \* where the session is
  wish,      \* the feedback the next proposal has to answer
  offer,     \* the proposal on the table
  posted     \* what the ticket has received

loopVars == <<stage, wish, offer, posted>>

NoOffer == [model |-> 0, answers |-> None]

Package == <<"diagram", "script", "comment">>

LoopInit ==
  /\ stage = "unopened"
  /\ wish = None
  /\ offer = NoOffer
  /\ posted = <<>>

Open ==
  /\ stage = "unopened"
  /\ stage' = "working"
  /\ UNCHANGED <<wish, offer, posted>>

Propose ==
  /\ stage = "working"
  /\ stage' = "waiting"
  /\ offer'.model # 0 /\ offer' = [model |-> offer'.model, answers |-> wish]
  /\ wish' = None
  /\ UNCHANGED posted

Reject ==
  /\ stage = "waiting"
  /\ stage' = "working"
  /\ wish' \in Feedback
  /\ offer' = NoOffer
  /\ UNCHANGED posted

Approve ==
  /\ stage = "waiting"
  /\ stage' = "delivering"
  /\ UNCHANGED <<wish, offer, posted>>

Deliver ==
  /\ stage = "delivering"
  /\ Len(posted) < Len(Package)
  /\ posted' = Append(posted,
       [what |-> Package[Len(posted) + 1], model |-> offer.model])
  /\ UNCHANGED <<stage, wish, offer>>

Close ==
  /\ stage = "delivering"
  /\ Len(posted) = Len(Package)
  /\ stage' = "done"
  /\ UNCHANGED <<wish, offer, posted>>

Break == stage' = "broken"

LoopNext ==
  Open \/ Propose \/ Reject \/ Approve \/ Deliver \/ Close \/ Break

(* The backend owes every proposal and every delivery it has started; the  *)
(* reviewer owes nothing.                                                  *)
Progress ==
  /\ (stage = "working") ~> (stage \in {"waiting", "broken"})
  /\ (stage = "delivering") ~> (stage \in {"done", "broken"})

LoopSafety == LoopInit /\ [][LoopNext]_loopVars

LoopSpec == LoopSafety /\ Progress
=============================================================================
