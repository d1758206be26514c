---------------------------- MODULE TicketPromise ----------------------------
(***************************************************************************)
(* What the runs of the OpenProject agent promise to the readers of one    *)
(* work package: files come first, then the comment that announces them,   *)
(* then the move to the completion status, and a run reports nothing that  *)
(* is not there.  What has been sent may still arrive after its run ended. *)
(***************************************************************************)
CONSTANTS
  Agents,    \* the runs of the agent
  Attached   \* the files that each run has to attach

VARIABLES
  there,     \* what of each run has reached the work package
  verdict    \* how each run ended

vars == <<there, verdict>>

Init ==
  /\ there = [a \in Agents |-> {}]
  /\ verdict = [a \in Agents |-> "open"]

Show(a, e) ==
  /\ there' = [there EXCEPT ![a] = @ \cup {e}]
  /\ UNCHANGED verdict

(* The script never appears before the diagram.                            *)
ShowFile(a, f) ==
  /\ f \in Attached[a]
  /\ f = "migration.sql" => Attached[a] \subseteq there[a] \cup {f}
  /\ Show(a, f)

(* Never without the files, and never by a run that reported a failure to  *)
(* upload them.                                                            *)
ShowComment(a) ==
  /\ Attached[a] \subseteq there[a]
  /\ verdict[a] # "raised"
  /\ Show(a, "comment")

(* Never without the comment, and never by a run that reported having      *)
(* failed to write it.                                                     *)
ShowTransition(a) ==
  /\ "comment" \in there[a]
  /\ verdict[a] \notin {"raised", "uncommented"}
  /\ Show(a, "transition")

Conclude(a, v) ==
  /\ verdict[a] = "open"
  /\ v = "raised" => "comment" \notin there[a]
  /\ v = "uncommented" =>
       Attached[a] \subseteq there[a] /\ "transition" \notin there[a]
  /\ v \in {"delivered", "transitioned"} =>
       Attached[a] \cup {"comment"} \subseteq there[a]
  /\ v = "transitioned" => "transition" \in there[a]
  /\ verdict' = [verdict EXCEPT ![a] = v]
  /\ UNCHANGED there

(* The server dies, and with it every run that was still open.             *)
Die ==
  /\ verdict' = [a \in Agents |-> IF verdict[a] = "open" THEN "dead"
                                                         ELSE verdict[a]]
  /\ UNCHANGED there

Verdicts == {"raised", "uncommented", "delivered", "transitioned"}

Next ==
  \/ \E a \in Agents :
       \/ \E f \in Attached[a] : ShowFile(a, f)
       \/ ShowComment(a)
       \/ ShowTransition(a)
       \/ \E v \in Verdicts : Conclude(a, v)
  \/ Die

Spec == Init /\ [][Next]_vars
=============================================================================
