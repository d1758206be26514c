--------------------------- MODULE SessionsOnTicket ---------------------------
(***************************************************************************)
(* Many sessions, started and retaken on shared OpenProject tickets.       *)
(*                                                                         *)
(* A handler's transaction begins, a retake selects the latest session of  *)
(* its ticket, the session and its encrypted credential are inserted, and  *)
(* everything becomes visible at the commit.  created_at is PostgreSQL's   *)
(* now(): the time the transaction began, so the order of begun, while the *)
(* others see sessions in the order of their commits, rows.                *)
(*                                                                         *)
(* Expiry is measured with the application's clock, read anew at every     *)
(* use: a credential is live while now < expires_at, due at that instant,  *)
(* and past thereafter.                                                    *)
(*                                                                         *)
(* What happens inside one session once its schema is known is             *)
(* AnalysisWorkflow's matter; here it is proposing, rejecting, delivering. *)
(***************************************************************************)
EXTENDS Naturals, SequencesExt

CONSTANTS
  Calls,       \* POST /analysis/start and /analysis/retake
  Retakes,     \* the retakes among them
  Tickets,     \* work packages
  MaxFaults,   \* how many failures and crashes are followed
  None

ASSUME RetakesAreCalls == Retakes \subseteq Calls
ASSUME NoneIsNoCall == None \notin Calls
ASSUME FaultsAssumption == MaxFaults \in Nat

VARIABLES
  ticket,     \* openproject_task_id of each call's payload
  pc,         \* where each call, then its session's task, is
  begun,      \* calls in the order of their transactions' now()
  rows,       \* sessions in the order of their commits
  parent,     \* parent_session_id, as the handler hands it to the task
  age,        \* of the session's credential
  comments,   \* what the tickets' readers see, in order
  faults,
  hasty       \* history: tickets with a call that did not wait for the last one

vars == <<ticket, pc, begun, rows, parent, age, comments, faults, hasty>>

HandlerPhases == {"selecting", "storing"}

TaskPhases == {"queued", "found", "connected", "analyzing", "delivering"}

Ended == {"refused", "expired", "failed", "done"}

Phases == {"idle", "reviewing"} \cup HandlerPhases \cup TaskPhases \cup Ended

In(s, c) == \E i \in DOMAIN s : s[i] = c

Before(s, b, c) == \E i, j \in DOMAIN s : i < j /\ s[i] = b /\ s[j] = c

Commented(c) == \E i \in DOMAIN comments : comments[i].by = c

Init ==
  /\ ticket \in [Calls -> Tickets]
  /\ pc = [c \in Calls |-> "idle"]
  /\ begun = <<>>
  /\ rows = <<>>
  /\ parent = [c \in Calls |-> None]
  /\ age = [c \in Calls |-> "live"]
  /\ comments = <<>>
  /\ faults = 0
  /\ hasty = {}

-----------------------------------------------------------------------------
(* The handlers of start and retake.                                       *)

(* BEGIN: with the SELECT of a retake, or the first INSERT of a start.     *)
Begin(c) ==
  /\ pc[c] = "idle"
  /\ begun' = Append(begun, c)
  /\ pc' = [pc EXCEPT ![c] = IF c \in Retakes THEN "selecting" ELSE "storing"]
  /\ hasty' = IF \E b \in Calls : /\ In(begun, b) /\ ticket[b] = ticket[c]
                                  /\ pc[b] # "refused" /\ ~Commented(b)
              THEN hasty \cup {ticket[c]} ELSE hasty
  /\ UNCHANGED <<rows, parent, age, comments, faults>>

(* latest_session_for_task: the committed session of the ticket with the   *)
(* greatest created_at.                                                    *)
IsLatest(b, t) ==
  LET seen == {d \in Calls : In(rows, d) /\ ticket[d] = t} IN
  \/ seen = {} /\ b = None
  \/ b \in seen /\ \A d \in seen \ {b} : Before(begun, d, b)

(* Mutant: the row of the answer instead of the id in it.                  *)
SelectRow(c) ==
  /\ pc[c] = "selecting"
  /\ pc' = [pc EXCEPT ![c] = "storing"]
  /\ \E b \in Calls \cup {None} :
       IsLatest(b, ticket[c]) /\ parent' = [parent EXCEPT ![c] = <<b>>]
  /\ UNCHANGED <<begun, rows, age, comments, faults, hasty>>

(* Mutant: the session is inserted first, and sees itself.                 *)
SelectAfterInsert(c) ==
  /\ pc[c] = "selecting"
  /\ pc' = [pc EXCEPT ![c] = "storing"]
  /\ \E b \in Calls \cup {None} :
       /\ IsLatest(b, ticket[c])
       /\ parent' = [parent EXCEPT ![c] = IF Before(begun, c, b) THEN b ELSE c]
  /\ UNCHANGED <<begun, rows, age, comments, faults, hasty>>

(* Mutant: the ticket's first session.                                     *)
SelectFirst(c) ==
  /\ pc[c] = "selecting"
  /\ pc' = [pc EXCEPT ![c] = "storing"]
  /\ parent' = [parent EXCEPT ![c] =
       LET seen == {i \in DOMAIN rows : ticket[rows[i]] = ticket[c]} IN
       IF seen = {} THEN None
       ELSE rows[CHOOSE i \in seen : \A j \in seen : i <= j]]
  /\ UNCHANGED <<begun, rows, age, comments, faults, hasty>>

Select(c) ==
  /\ pc[c] = "selecting"
  /\ pc' = [pc EXCEPT ![c] = "storing"]
  /\ \E b \in Calls \cup {None} :
       IsLatest(b, ticket[c]) /\ parent' = [parent EXCEPT ![c] = b]
  /\ UNCHANGED <<begun, rows, age, comments, faults, hasty>>

(* create_session, CredentialVault.encrypt, store_credential, commit: the  *)
(* session is there for everybody, and its task is queued.                 *)
Commit(c) ==
  /\ pc[c] = "storing"
  /\ pc' = [pc EXCEPT ![c] = "queued"]
  /\ rows' = Append(rows, c)
  /\ UNCHANGED <<begun, parent, age, comments, faults, hasty>>

-----------------------------------------------------------------------------
(* The session's task.                                                     *)

(* validate_input asks for a credential whose expires_at > now ...         *)
Ask(c) ==
  /\ pc[c] = "queued"
  /\ pc' = [pc EXCEPT ![c] = IF age[c] = "live" THEN "found" ELSE "expired"]
  /\ UNCHANGED <<begun, rows, parent, age, comments, faults, hasty>>

(* Mutant: decrypt is not told when the credential expires.                *)
OpenUnchecked(c) ==
  /\ pc[c] = "found"
  /\ pc' = [pc EXCEPT ![c] = "connected"]
  /\ UNCHANGED <<begun, rows, parent, age, comments, faults, hasty>>

(* ... and decrypt raises if, by a later clock, now > expires_at.          *)
Open(c) ==
  /\ pc[c] = "found"
  /\ pc' = [pc EXCEPT ![c] = IF age[c] = "past" THEN "expired" ELSE "connected"]
  /\ UNCHANGED <<begun, rows, parent, age, comments, faults, hasty>>

(* The schema is read, and the connection with its password forgotten.     *)
Introspect(c) ==
  /\ pc[c] = "connected"
  /\ pc' = [pc EXCEPT ![c] = "analyzing"]
  /\ UNCHANGED <<begun, rows, parent, age, comments, faults, hasty>>

(* The IR, the model, the diagram, and the pause.                          *)
Propose(c) ==
  /\ pc[c] = "analyzing"
  /\ pc' = [pc EXCEPT ![c] = "reviewing"]
  /\ UNCHANGED <<begun, rows, parent, age, comments, faults, hasty>>

Approve(c) ==
  /\ pc[c] = "reviewing"
  /\ pc' = [pc EXCEPT ![c] = "delivering"]
  /\ UNCHANGED <<begun, rows, parent, age, comments, faults, hasty>>

(* Mutant: a rejected session starts from its first node.                  *)
RejectToStart(c) ==
  /\ pc[c] = "reviewing"
  /\ pc' = [pc EXCEPT ![c] = "queued"]
  /\ UNCHANGED <<begun, rows, parent, age, comments, faults, hasty>>

(* A rejection goes back to analyze_project, past the introspection.       *)
Reject(c) ==
  /\ pc[c] = "reviewing"
  /\ pc' = [pc EXCEPT ![c] = "analyzing"]
  /\ UNCHANGED <<begun, rows, parent, age, comments, faults, hasty>>

(* The comment names the session that a retake takes up; one that cannot   *)
(* be posted is given up, and the session completes.                       *)
Deliver(c) ==
  /\ pc[c] = "delivering"
  /\ pc' = [pc EXCEPT ![c] = "done"]
  /\ \/ /\ comments' = Append(comments, [by |-> c, names |-> parent[c]])
        /\ UNCHANGED faults
     \/ /\ faults < MaxFaults
        /\ faults' = faults + 1
        /\ UNCHANGED comments
  /\ UNCHANGED <<begun, rows, parent, age, hasty>>

-----------------------------------------------------------------------------
(* The surroundings.                                                       *)

(* Time passes; it is followed while somebody may still read it.           *)
Age(c) ==
  /\ pc[c] \in {"queued", "found"} /\ age[c] # "past"
  /\ age' = [age EXCEPT ![c] = IF @ = "live" THEN "due" ELSE "past"]
  /\ UNCHANGED <<pc, begun, rows, parent, comments, faults, hasty>>

Fallen(c) ==
  IF pc[c] \in HandlerPhases THEN "refused"
  ELSE IF pc[c] \in TaskPhases THEN "failed" ELSE pc[c]

(* An exception: the handler's transaction is rolled back, the background  *)
(* task logs and ends.                                                     *)
Fail(c) ==
  /\ faults < MaxFaults /\ faults' = faults + 1
  /\ Fallen(c) # pc[c]
  /\ pc' = [pc EXCEPT ![c] = Fallen(c)]
  /\ UNCHANGED <<begun, rows, parent, age, comments, hasty>>

(* The server dies: every handler and background task is lost.             *)
Crash ==
  /\ faults < MaxFaults /\ faults' = faults + 1
  /\ pc' = [c \in Calls |-> Fallen(c)]
  /\ UNCHANGED <<begun, rows, parent, age, comments, hasty>>

Finished ==
  /\ \A c \in Calls : pc[c] \in Ended
  /\ UNCHANGED vars

Proceed(c) ==
  /\ \/ Select(c) \/ Commit(c)
     \/ Ask(c) \/ Open(c) \/ Introspect(c) \/ Propose(c) \/ Deliver(c)
  /\ UNCHANGED ticket

Next ==
  \/ \E c \in Calls :
       \/ Proceed(c)
       \/ Begin(c) /\ UNCHANGED ticket
       \/ Approve(c) /\ UNCHANGED ticket
       \/ Reject(c) /\ UNCHANGED ticket
       \/ Age(c) /\ UNCHANGED ticket
       \/ Fail(c) /\ UNCHANGED ticket
  \/ Crash /\ UNCHANGED ticket
  \/ Finished

Spec == Init /\ [][Next]_vars

-----------------------------------------------------------------------------
Comment == [by : Calls, names : Calls \cup {None}]

TypeOK ==
  /\ ticket \in [Calls -> Tickets]
  /\ pc \in [Calls -> Phases]
  /\ begun \in Seq(Calls) /\ rows \in Seq(Calls)
  /\ parent \in [Calls -> Calls \cup {None}]
  /\ age \in [Calls -> {"live", "due", "past"}]
  /\ comments \in Seq(Comment)
  /\ faults \in 0 .. MaxFaults
  /\ hasty \subseteq Tickets

(* The sessions of a ticket form a forest: a retake takes up a session of  *)
(* the same ticket that was there before it, so no chain of retakes ever   *)
(* closes, in whatever order handlers interleave.                          *)
LineageGoesBack ==
  \A i \in DOMAIN rows :
    parent[rows[i]] # None =>
      \E j \in 1 .. i - 1 :
        rows[j] = parent[rows[i]] /\ ticket[rows[j]] = ticket[rows[i]]

(* A customer's database is never opened with a credential that is past    *)
(* its time, although the credential was live when it was selected.        *)
OpenedInTime == \A c \in Calls : pc[c] = "connected" => age[c] # "past"

(* A ticket whose callers wait for each comment before they retake reads   *)
(* as a history: each retake's comment names the session of the comment    *)
(* before it.                                                              *)
CommentsAreAHistory ==
  \A i, j \in DOMAIN comments :
    LET earlier == comments[i]
        later == comments[j] IN
    /\ i < j /\ later.by \in Retakes
    /\ ticket[earlier.by] = ticket[later.by] /\ ticket[later.by] \notin hasty
    /\ \A k \in i + 1 .. j - 1 : ticket[comments[k].by] # ticket[later.by]
    => later.names = earlier.by

(* The credential is needed once: from the introspection on, a session is  *)
(* rejected, proposes and delivers however old its credential gets.        *)
NeededOnce ==
  [][\A c \in Calls :
       pc[c] \in {"analyzing", "reviewing", "delivering"} =>
         pc'[c] \notin {"queued", "found", "connected", "expired"}]_vars
=============================================================================
