------------------------- MODULE OpenProjectDelivery -------------------------
(***************************************************************************)
(* The delivery of results to one OpenProject work package: runs of        *)
(* OpenProjectAgent, the HTTP calls of its services, and a network that    *)
(* delays and loses calls and answers.  A call that its sender has given   *)
(* up may still take effect, at any later time.                            *)
(***************************************************************************)
EXTENDS Naturals, FiniteSets

CONSTANTS
  Agents,       \* the runs of the agent that update this work package
  Attached,     \* the files that the result of each run carries
  Completing,   \* the runs constructed with a completion_status_id
  MaxAttempts,  \* stop_after_attempt
  MaxEdits      \* bound: how often other users change the work package

Files == {"erd.mmd", "migration.sql"}

ASSUME AttachedAssumption == Attached \in [Agents -> SUBSET Files]
ASSUME CompletingAssumption == Completing \subseteq Agents
ASSUME MaxAttemptsAssumption == MaxAttempts \in Nat \ {0}
ASSUME MaxEditsAssumption == MaxEdits \in Nat

VARIABLES
  step,     \* the call each run makes now
  attempt,  \* which attempt at that call it is
  call,     \* what is known of that attempt
  lock,     \* the lockVersion each run has read
  outcome,  \* how each run ended, as its caller sees it
  wire,     \* attempts that the server has not handled
  ticket,   \* attempts that have taken effect
  version,  \* the work package's lockVersion
  edits     \* how often other users changed the work package

vars == <<step, attempt, call, lock, outcome, wire, ticket, version, edits>>

Ready == [state |-> "ready", version |-> 0]
Awaited == [state |-> "awaited", version |-> 0]

StepAfterErd(a) ==
  IF "migration.sql" \in Attached[a] THEN "migration.sql" ELSE "comment"

FirstStep(a) ==
  IF "erd.mmd" \in Attached[a] THEN "erd.mmd" ELSE StepAfterErd(a)

StepAfter(a, s) ==
  CASE s = "erd.mmd"       -> StepAfterErd(a)
    [] s = "migration.sql" -> "comment"
    [] s = "comment"       -> IF a \in Completing THEN "read" ELSE "end"
    [] s = "read"          -> "transition"
    [] OTHER               -> "end"

Init ==
  /\ step = [a \in Agents |-> FirstStep(a)]
  /\ attempt = [a \in Agents |-> 1]
  /\ call = [a \in Agents |-> Ready]
  /\ lock = [a \in Agents |-> 0]
  /\ outcome = [a \in Agents |-> "open"]
  /\ wire = {}
  /\ ticket = {}
  /\ version = 0
  /\ edits = 0

-----------------------------------------------------------------------------
(* The client.                                                             *)

(* Mutant: each attempt carries the lockVersion of the moment.             *)
RequestRefreshed(a) ==
  [agent |-> a, step |-> step[a], attempt |-> attempt[a], lock |-> version]

Request(a) ==
  [agent |-> a, step |-> step[a], attempt |-> attempt[a], lock |-> lock[a]]

Send(a) ==
  /\ outcome[a] = "open"
  /\ call[a].state = "ready"
  /\ wire' = wire \cup {Request(a)}
  /\ call' = [call EXCEPT ![a] = Awaited]
  /\ UNCHANGED <<step, attempt, lock, outcome, ticket, version, edits>>

Answered(a) == outcome[a] = "open" /\ call[a].state # "ready"

OutcomeOfSuccess(a, s) ==
  CASE s = "comment" -> IF a \in Completing THEN "open" ELSE "delivered"
    [] s = "transition" -> "transitioned"
    [] OTHER            -> "open"

(* The answer is good: on to the next call, or the end of the run.         *)
Succeed(a) ==
  /\ Answered(a)
  /\ call[a].state = "ok"
  /\ step' = [step EXCEPT ![a] = StepAfter(a, @)]
  /\ attempt' = [attempt EXCEPT ![a] = 1]
  /\ call' = [call EXCEPT ![a] = Ready]
  /\ lock' = IF step[a] = "read" THEN [lock EXCEPT ![a] = call[a].version]
                                 ELSE lock
  /\ outcome' = [outcome EXCEPT ![a] = OutcomeOfSuccess(a, step[a])]
  /\ UNCHANGED <<wire, ticket, version, edits>>

(* Mutant: uploads go through the retrying helper too.                     *)
RetryAnything(a) ==
  /\ Answered(a)
  /\ attempt[a] < MaxAttempts
  /\ attempt' = [attempt EXCEPT ![a] = @ + 1]
  /\ call' = [call EXCEPT ![a] = Ready]
  /\ UNCHANGED <<step, lock, outcome, wire, ticket, version, edits>>

(* Mutant: attempts are not counted.                                       *)
RetryForever(a) ==
  /\ Answered(a)
  /\ step[a] \notin Files
  /\ call' = [call EXCEPT ![a] = Ready]
  /\ UNCHANGED <<step, attempt, lock, outcome, wire, ticket, version, edits>>

(* Mutant: one attempt too many.                                           *)
RetryOnceMore(a) ==
  /\ Answered(a)
  /\ step[a] \notin Files
  /\ attempt[a] <= MaxAttempts
  /\ attempt' = [attempt EXCEPT ![a] = @ + 1]
  /\ call' = [call EXCEPT ![a] = Ready]
  /\ UNCHANGED <<step, lock, outcome, wire, ticket, version, edits>>

(* A 5xx status or a transport error -- a timeout, or an answer lost on    *)
(* its way, whatever it said -- is tried again after a wait.  Uploads are  *)
(* one-shot.                                                               *)
Retry(a) ==
  /\ Answered(a)
  /\ step[a] \notin Files
  /\ attempt[a] < MaxAttempts
  /\ attempt' = [attempt EXCEPT ![a] = @ + 1]
  /\ call' = [call EXCEPT ![a] = Ready]
  /\ UNCHANGED <<step, lock, outcome, wire, ticket, version, edits>>

(* What the agent makes of an exception: uploads are outside its try       *)
(* blocks, a failed comment ends the run, a failed move to the completion  *)
(* status goes unmentioned.                                                *)
OutcomeOfFailure(s) ==
  CASE s \in Files    -> "raised"
    [] s = "comment"  -> "uncommented"
    [] OTHER          -> "delivered"

(* Mutant: a failed upload is logged, and the run goes on.                 *)
FailGoesOn(a) ==
  /\ Answered(a)
  /\ \/ call[a].state = "error"
     \/ step[a] \in Files
     \/ attempt[a] = MaxAttempts
  /\ IF step[a] \in Files
       THEN /\ step' = [step EXCEPT ![a] = StepAfter(a, @)]
            /\ UNCHANGED outcome
       ELSE /\ outcome' = [outcome EXCEPT ![a] = OutcomeOfFailure(step[a])]
            /\ UNCHANGED step
  /\ call' = [call EXCEPT ![a] = Ready]
  /\ UNCHANGED <<attempt, lock, wire, ticket, version, edits>>

(* The call raises: a 4xx status or an answer that is not JSON does so at  *)
(* once, a 5xx status or a transport error when no attempt is left.        *)
Fail(a) ==
  /\ Answered(a)
  /\ \/ call[a].state = "error"
     \/ step[a] \in Files
     \/ attempt[a] = MaxAttempts
  /\ outcome' = [outcome EXCEPT ![a] = OutcomeOfFailure(step[a])]
  /\ call' = [call EXCEPT ![a] = Ready]
  /\ UNCHANGED <<step, attempt, lock, wire, ticket, version, edits>>

(* The backend dies: what it has sent is still under way.                  *)
Die ==
  /\ \E a \in Agents : outcome[a] = "open"
  /\ outcome' = [a \in Agents |-> IF outcome[a] = "open" THEN "dead"
                                                         ELSE outcome[a]]
  /\ call' = [a \in Agents |-> Ready]
  /\ UNCHANGED <<step, attempt, lock, wire, ticket, version, edits>>

-----------------------------------------------------------------------------
(* OpenProject, as the services use it.                                    *)

(* The answer reaches the sender only while it waits for this attempt.  It *)
(* is a good one ("ok"), one that raises at once ("error": a 4xx status,   *)
(* or a body that is not JSON), or one that is retried ("again": 5xx).     *)
Answer(r, kind) ==
  LET a == r.agent IN
    call' = IF call[a] = Awaited /\ r = Request(a)
              THEN [call EXCEPT ![a] =
                      [state |-> kind,
                       version |-> IF r.step = "read" THEN version ELSE 0]]
              ELSE call

(* A request takes effect, and is answered well or badly.  A change of     *)
(* status needs the current lockVersion and moves it; a comment or a file  *)
(* may move it.                                                            *)
Serve(r) ==
  /\ r \in wire
  /\ r.step = "transition" => r.lock = version
  /\ wire' = wire \ {r}
  /\ ticket' = IF r.step = "read" THEN ticket ELSE ticket \cup {r}
  /\ version' \in CASE r.step = "read"       -> {version}
                    [] r.step = "transition" -> {version + 1}
                    [] OTHER                 -> {version, version + 1}
  /\ \E kind \in {"ok", "error", "again"} : Answer(r, kind)
  /\ UNCHANGED <<step, attempt, lock, outcome, edits>>

(* It is refused, by OpenProject or by something before it.                *)
Refuse(r) ==
  /\ r \in wire
  /\ wire' = wire \ {r}
  /\ \E kind \in {"error", "again"} : Answer(r, kind)
  /\ UNCHANGED <<step, attempt, lock, outcome, ticket, version, edits>>

(* Somebody else changes the work package.                                 *)
Edit ==
  /\ edits < MaxEdits
  /\ edits' = edits + 1
  /\ version' = version + 1
  /\ UNCHANGED <<step, attempt, call, lock, outcome, wire, ticket>>

-----------------------------------------------------------------------------
Advance(a) == Send(a) \/ Succeed(a) \/ Retry(a) \/ Fail(a)

Finished ==
  /\ \A a \in Agents : outcome[a] # "open"
  /\ wire = {}
  /\ UNCHANGED vars

Next ==
  \/ \E a \in Agents : Advance(a)
  \/ Die
  \/ \E r \in wire : Serve(r) \/ Refuse(r)
  \/ Edit
  \/ Finished

Spec == Init /\ [][Next]_vars

(* Every httpx call has a timeout and every wait between attempts an end;  *)
(* nothing is asked of the server or of the network.                       *)
Fairness == \A a \in Agents : WF_vars(Advance(a))

FairSpec == Spec /\ Fairness

-----------------------------------------------------------------------------
Steps == Files \cup {"comment", "read", "transition", "end"}
CallStates == {"ready", "awaited", "ok", "error", "again"}
Outcomes ==
  {"open", "raised", "uncommented", "delivered", "transitioned", "dead"}
Attempts ==
  [agent : Agents, step : Steps, attempt : 1..MaxAttempts, lock : Nat]

(* The types of the runs' memory, of the wire and of the work package; no  *)
(* attempt beyond the last allowed one is ever made.                       *)
TypeOK ==
  /\ step \in [Agents -> Steps]
  /\ attempt \in [Agents -> 1..MaxAttempts]
  /\ call \in [Agents -> [state : CallStates, version : Nat]]
  /\ lock \in [Agents -> Nat]
  /\ outcome \in [Agents -> Outcomes]
  /\ wire \subseteq Attempts
  /\ ticket \subseteq Attempts
  /\ version \in Nat
  /\ edits \in 0..MaxEdits

-----------------------------------------------------------------------------
(* Why the delivery works: the inductive invariant.                        *)

Rank ==
  [s \in Steps |->
     CASE s = "erd.mmd"       -> 1
       [] s = "migration.sql" -> 2
       [] s = "comment"       -> 3
       [] s = "read"          -> 4
       [] s = "transition"    -> 5
       [] OTHER               -> 6]

Landed(a, s) == \E r \in ticket : r.agent = a /\ r.step = s

(* Every attempt that was ever sent belongs to a call that its run has     *)
(* left behind, or to the present one and not to an attempt still to come. *)
SentBefore(r) ==
  \/ Rank[r.step] < Rank[step[r.agent]]
  \/ /\ r.step = step[r.agent]
     /\ \/ r.attempt < attempt[r.agent]
        \/ /\ r.attempt = attempt[r.agent]
           /\ \/ call[r.agent].state # "ready"
              \/ outcome[r.agent] # "open"

SentInOrder ==
  /\ wire \cap ticket = {}
  /\ \A r \in wire \cup ticket : SentBefore(r) /\ r.step # "end"
  /\ \A r \in ticket : r.step # "read"

(* A file is sent in one attempt.                                          *)
OneShot ==
  /\ \A a \in Agents : step[a] \in Files =>
       step[a] \in Attached[a] /\ attempt[a] = 1
  /\ \A r \in wire \cup ticket : r.step \in Files =>
       r.step \in Attached[r.agent] /\ r.attempt = 1

(* Every attempt to change the status carries the lockVersion that its run *)
(* read once (others carry none), and the first one to take effect makes that version stale.   *)
OneLock ==
  /\ \A a \in Agents : Rank[step[a]] < 5 => lock[a] = 0
  /\ \A r \in wire \cup ticket :
       r.lock = IF r.step = "transition" THEN lock[r.agent] ELSE 0
  /\ \A r \in ticket : r.step = "transition" => r.lock < version
  /\ \A q, r \in ticket :
       /\ q.step = "transition" /\ r.step = "transition"
       /\ q.agent = r.agent
       => q = r

(* What a run has left behind, or knows to have succeeded, is there.       *)
LeftBehind ==
  \A a \in Agents :
    /\ \A f \in Attached[a] : Rank[f] < Rank[step[a]] => Landed(a, f)
    /\ Rank[step[a]] > 3 => Landed(a, "comment")
    /\ call[a].state = "ok" /\ step[a] # "read" => Landed(a, step[a])

(* How a run ended tells how far it came.                                  *)
EndsInPlace ==
  \A a \in Agents :
    /\ outcome[a] = "open" => step[a] # "end"
    /\ outcome[a] # "open" => call[a] = Ready
    /\ outcome[a] = "raised" => step[a] \in Files
    /\ outcome[a] = "uncommented" => step[a] = "comment"

(* What holds of every delivery at every moment: nothing is sent twice     *)
(* under one name or out of turn, and what a run believes is so.           *)
DeliveryInv ==
  /\ TypeOK
  /\ SentInOrder
  /\ OneShot
  /\ OneLock
  /\ LeftBehind
  /\ EndsInPlace

-----------------------------------------------------------------------------
Effects(a, s) == {r \in ticket : r.agent = a /\ r.step = s}

(* A file is attached at most once, a status is changed at most once       *)
(* however often the change was retried and however late an attempt is     *)
(* handled, and a comment appears at most once per attempt.                *)
EffectsBounded ==
  \A a \in Agents : \A s \in Steps :
    Cardinality(Effects(a, s)) <= IF s = "comment" THEN MaxAttempts ELSE 1

(* The delivery keeps the promise to the readers of the work package.      *)
There == [a \in Agents |-> {r.step : r \in {q \in ticket : q.agent = a}}]

Promise == INSTANCE TicketPromise WITH there <- There, verdict <- outcome

KeepsPromise == Promise!Spec

(* Every run ends, whatever the server and the network do.                 *)
EveryRunEnds == \A a \in Agents : <>(outcome[a] # "open")
=============================================================================
