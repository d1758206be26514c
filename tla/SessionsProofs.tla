---------------------------- MODULE SessionsProofs ----------------------------
(***************************************************************************)
(* What holds of SessionsOnTicket for any calls, tickets and faults.       *)
(***************************************************************************)
EXTENDS SessionsOnTicket, SequenceTheorems, TLAPS

Uncommitted == {"idle", "selecting", "storing"}

(* A call's session is in rows only once its handler has committed.        *)
RowsAreCommitted == \A i \in DOMAIN rows : pc[rows[i]] \notin Uncommitted

(* What a retake has selected was committed, on its ticket.                *)
ParentsAreCommitted ==
  \A c \in Calls :
    parent[c] # None =>
      \E j \in DOMAIN rows : rows[j] = parent[c] /\ ticket[rows[j]] = ticket[c]

SessionsInv ==
  /\ TypeOK
  /\ RowsAreCommitted
  /\ ParentsAreCommitted
  /\ LineageGoesBack
  /\ OpenedInTime

-----------------------------------------------------------------------------
(* A step that commits nothing and selects nothing.                        *)
LEMMA QuietStep ==
  ASSUME SessionsInv, TypeOK', UNCHANGED <<ticket, rows, parent>>,
         \A c \in Calls : pc'[c] \in Uncommitted => pc[c] \in Uncommitted,
         OpenedInTime'
  PROVE  SessionsInv'
<1>1. RowsAreCommitted'
  BY DEF SessionsInv, RowsAreCommitted, TypeOK
<1>2. ParentsAreCommitted' /\ LineageGoesBack'
  BY DEF SessionsInv, ParentsAreCommitted, LineageGoesBack
<1> QED
  BY <1>1, <1>2 DEF SessionsInv

(* The same for one that moves a single call from one phase to another.    *)
LEMMA MoveKeepsInv ==
  ASSUME SessionsInv, NEW c \in Calls, NEW p \in Phases,
         pc' = [pc EXCEPT ![c] = p],
         p \in Uncommitted => pc[c] \in Uncommitted,
         p = "connected" => age[c] # "past",
         UNCHANGED <<ticket, rows, parent, age>>,
         begun' \in Seq(Calls), comments' \in Seq(Comment),
         faults' \in 0 .. MaxFaults, hasty' \subseteq Tickets
  PROVE  SessionsInv'
<1>1. TypeOK'
  BY DEF SessionsInv, TypeOK
<1>2. \A d \in Calls : pc'[d] \in Uncommitted => pc[d] \in Uncommitted
  BY DEF SessionsInv, TypeOK
<1>3. OpenedInTime'
  BY DEF SessionsInv, TypeOK, OpenedInTime
<1> QED
  BY <1>1, <1>2, <1>3, QuietStep

LEMMA SelectKeepsInv ==
  ASSUME SessionsInv, NEW c \in Calls, Select(c), UNCHANGED ticket
  PROVE  SessionsInv'
<1>1. PICK b \in Calls \cup {None} :
        IsLatest(b, ticket[c]) /\ parent' = [parent EXCEPT ![c] = b]
  BY DEF Select
<1>2. b # None => \E j \in DOMAIN rows : rows[j] = b /\ ticket[rows[j]] = ticket[c]
  BY <1>1 DEF IsLatest, In
<1>3. /\ pc[c] = "selecting" /\ pc' = [pc EXCEPT ![c] = "storing"]
      /\ rows' = rows /\ UNCHANGED <<begun, age, comments, faults, hasty>>
  BY DEF Select
<1>4. TypeOK'
  BY <1>1, <1>3 DEF SessionsInv, TypeOK, Phases, HandlerPhases
<1>5. RowsAreCommitted' /\ \A i \in DOMAIN rows : rows[i] # c
  BY <1>3 DEF SessionsInv, TypeOK, RowsAreCommitted, Uncommitted
<1>6. ParentsAreCommitted'
  BY <1>1, <1>2, <1>3 DEF SessionsInv, TypeOK, ParentsAreCommitted
<1>7. LineageGoesBack'
  <2>1. \A i \in DOMAIN rows : rows[i] \in Calls /\ parent'[rows[i]] = parent[rows[i]]
    BY <1>1, <1>5 DEF SessionsInv, TypeOK
  <2> QED
    BY <1>3, <2>1 DEF SessionsInv, LineageGoesBack
<1>8. OpenedInTime'
  BY <1>3 DEF SessionsInv, TypeOK, OpenedInTime
<1> QED
  BY <1>4, <1>5, <1>6, <1>7, <1>8 DEF SessionsInv

LEMMA CommitKeepsInv ==
  ASSUME SessionsInv, NEW c \in Calls, Commit(c), UNCHANGED ticket
  PROVE  SessionsInv'
<1>1. /\ pc[c] = "storing" /\ pc' = [pc EXCEPT ![c] = "queued"]
      /\ rows' = Append(rows, c)
      /\ UNCHANGED <<begun, parent, age, comments, faults, hasty>>
  BY DEF Commit
<1>2. rows \in Seq(Calls)
  BY DEF SessionsInv, TypeOK
<1>3. PICK n \in Nat :
        /\ n = Len(rows) /\ DOMAIN rows = 1 .. n /\ DOMAIN rows' = 1 .. n + 1
        /\ \A i \in 1 .. n : rows'[i] = rows[i] /\ rows[i] \in Calls
        /\ rows'[n + 1] = c
  BY <1>1, <1>2
<1>4. TypeOK'
  BY <1>1 DEF SessionsInv, TypeOK, Phases, TaskPhases
<1>5. RowsAreCommitted'
  BY <1>1, <1>3 DEF SessionsInv, TypeOK, RowsAreCommitted, Uncommitted
<1>6. ParentsAreCommitted'
  <2> SUFFICES ASSUME NEW d \in Calls, parent[d] # None
               PROVE  \E j \in 1 .. n + 1 : rows'[j] = parent[d] /\ ticket[rows'[j]] = ticket[d]
    BY <1>1, <1>3 DEF ParentsAreCommitted
  <2>1. PICK j \in 1 .. n : rows[j] = parent[d] /\ ticket[rows[j]] = ticket[d]
    BY <1>3 DEF SessionsInv, ParentsAreCommitted
  <2> QED
    BY <1>3, <2>1
<1>7. LineageGoesBack'
  <2> SUFFICES ASSUME NEW i \in 1 .. n + 1, parent[rows'[i]] # None
               PROVE  \E j \in 1 .. i - 1 :
                        rows'[j] = parent[rows'[i]] /\ ticket[rows'[j]] = ticket[rows'[i]]
    BY <1>1, <1>3 DEF LineageGoesBack
  <2>1. CASE i \in 1 .. n
    <3>1. PICK j \in 1 .. i - 1 :
            rows[j] = parent[rows[i]] /\ ticket[rows[j]] = ticket[rows[i]]
      BY <1>3, <2>1 DEF SessionsInv, LineageGoesBack
    <3>2. rows'[i] = rows[i] /\ rows'[j] = rows[j]
      BY <1>3, <2>1
    <3> QED
      BY <3>1, <3>2
  <2>2. CASE i = n + 1
    <3>1. PICK j \in 1 .. n : rows[j] = parent[c] /\ ticket[rows[j]] = ticket[c]
      BY <1>3, <2>2 DEF SessionsInv, ParentsAreCommitted
    <3>2. j \in 1 .. i - 1 /\ rows'[i] = c /\ rows'[j] = rows[j]
      BY <1>3, <2>2
    <3> QED
      BY <3>1, <3>2
  <2> QED
    BY <2>1, <2>2
<1>8. OpenedInTime'
  BY <1>1 DEF SessionsInv, TypeOK, OpenedInTime
<1> QED
  BY <1>4, <1>5, <1>6, <1>7, <1>8 DEF SessionsInv

LEMMA AgeKeepsInv ==
  ASSUME SessionsInv, NEW c \in Calls, Age(c), UNCHANGED ticket
  PROVE  SessionsInv'
<1>1. TypeOK'
  BY DEF SessionsInv, TypeOK, Age
<1>2. OpenedInTime'
  BY DEF SessionsInv, TypeOK, OpenedInTime, Age
<1> QED
  BY <1>1, <1>2, QuietStep DEF Age

(* What falls was not done, and is not back before its commit.             *)
LEMMA FallenPhase ==
  ASSUME TypeOK, NEW c \in Calls
  PROVE  /\ Fallen(c) \in Phases
         /\ Fallen(c) \in Uncommitted => pc[c] \in Uncommitted
         /\ Fallen(c) # "connected"
BY DEF TypeOK, Fallen, Phases, HandlerPhases, TaskPhases, Ended, Uncommitted

LEMMA CrashKeepsInv ==
  ASSUME SessionsInv, Crash, UNCHANGED ticket
  PROVE  SessionsInv'
<1>1. TypeOK
  BY DEF SessionsInv
<1>2. TypeOK'
  BY <1>1, FallenPhase, FaultsAssumption DEF TypeOK, Crash
<1>3. OpenedInTime' /\ \A c \in Calls : pc'[c] \in Uncommitted => pc[c] \in Uncommitted
  BY <1>1, FallenPhase DEF OpenedInTime, Crash
<1> QED
  BY <1>2, <1>3, QuietStep DEF Crash

LEMMA Start == Init => SessionsInv
BY FaultsAssumption DEF Init, SessionsInv, TypeOK, Phases, RowsAreCommitted,
   ParentsAreCommitted, LineageGoesBack, OpenedInTime

LEMMA Inductive == SessionsInv /\ [Next]_vars => SessionsInv'
<1> SUFFICES ASSUME SessionsInv, [Next]_vars PROVE SessionsInv'
  OBVIOUS
<1> USE DEF Phases, HandlerPhases, TaskPhases, Ended, Uncommitted
<1>0. TypeOK
  BY DEF SessionsInv
<1>1. ASSUME NEW c \in Calls, Begin(c), UNCHANGED ticket PROVE SessionsInv'
  <2>1. begun' \in Seq(Calls) /\ hasty' \subseteq Tickets
    BY <1>0, <1>1 DEF TypeOK, Begin
  <2>2. PICK p \in {"selecting", "storing"} : pc' = [pc EXCEPT ![c] = p]
    BY <1>1 DEF Begin
  <2> QED
    BY <1>0, <1>1, <2>1, <2>2, MoveKeepsInv DEF TypeOK, Begin
<1>2. ASSUME NEW c \in Calls, Ask(c), UNCHANGED ticket PROVE SessionsInv'
  <2>1. PICK p \in {"found", "expired"} : pc' = [pc EXCEPT ![c] = p]
    BY <1>2 DEF Ask
  <2> QED
    BY <1>0, <1>2, <2>1, MoveKeepsInv DEF TypeOK, Ask
<1>3. ASSUME NEW c \in Calls, Open(c), UNCHANGED ticket PROVE SessionsInv'
  <2>1. PICK p \in {"expired", "connected"} :
          pc' = [pc EXCEPT ![c] = p] /\ (p = "connected" => age[c] # "past")
    BY <1>3 DEF Open
  <2> QED
    BY <1>0, <1>3, <2>1, MoveKeepsInv DEF TypeOK, Open
<1>4. ASSUME NEW c \in Calls, Introspect(c), UNCHANGED ticket PROVE SessionsInv'
  BY <1>0, <1>4, MoveKeepsInv DEF TypeOK, Introspect
<1>5. ASSUME NEW c \in Calls, Propose(c), UNCHANGED ticket PROVE SessionsInv'
  BY <1>0, <1>5, MoveKeepsInv DEF TypeOK, Propose
<1>6. ASSUME NEW c \in Calls, Deliver(c), UNCHANGED ticket PROVE SessionsInv'
  <2>1. PICK e \in Comment : e = [by |-> c, names |-> parent[c]]
    BY <1>0 DEF TypeOK, Comment
  <2>2. comments' \in Seq(Comment) /\ faults' \in 0 .. MaxFaults
    <3>1. comments' = comments \/ comments' = Append(comments, e)
      BY <1>6, <2>1 DEF Deliver
    <3>2. faults' = faults \/ (faults < MaxFaults /\ faults' = faults + 1)
      BY <1>6 DEF Deliver
    <3>3. comments' \in Seq(Comment)
      <4>1. PICK s : s = comments
        OBVIOUS
      <4>2. s \in Seq(Comment)
        BY <1>0, <4>1 DEF TypeOK
      <4>3. Append(s, e) \in Seq(Comment)
        BY <4>2, AppendProperties
      <4> QED
        BY <3>1, <4>1, <4>2, <4>3
    <3> QED
      BY <1>0, <3>2, <3>3, FaultsAssumption DEF TypeOK
  <2> QED
    BY <1>0, <1>6, <2>2, MoveKeepsInv DEF TypeOK, Deliver
<1>7. ASSUME NEW c \in Calls, Approve(c), UNCHANGED ticket PROVE SessionsInv'
  BY <1>0, <1>7, MoveKeepsInv DEF TypeOK, Approve
<1>8. ASSUME NEW c \in Calls, Reject(c), UNCHANGED ticket PROVE SessionsInv'
  BY <1>0, <1>8, MoveKeepsInv DEF TypeOK, Reject
<1>9. ASSUME NEW c \in Calls, Fail(c), UNCHANGED ticket PROVE SessionsInv'
  <2>1. faults' \in 0 .. MaxFaults
    BY <1>0, <1>9, FaultsAssumption DEF TypeOK, Fail
  <2>2. PICK p \in Phases : p = Fallen(c) /\ pc' = [pc EXCEPT ![c] = p]
    BY <1>0, <1>9, FallenPhase DEF Fail
  <2> QED
    BY <1>0, <1>9, <2>1, <2>2, FallenPhase, MoveKeepsInv DEF TypeOK, Fail
<1>10. CASE UNCHANGED vars
  BY <1>0, <1>10, QuietStep DEF vars, TypeOK, SessionsInv, OpenedInTime
<1> QED
  BY <1>1, <1>2, <1>3, <1>4, <1>5, <1>6, <1>7, <1>8, <1>9, <1>10,
     SelectKeepsInv, CommitKeepsInv, AgeKeepsInv, CrashKeepsInv
  DEF Next, Proceed, Finished

-----------------------------------------------------------------------------
(* However the handlers and tasks of any sessions interleave, and wherever *)
(* they fail, rows, lineage and credentials stay consistent.               *)
THEOREM SessionsInvariance == Spec => []SessionsInv
BY Start, Inductive, PTL DEF Spec

(* The chains of retakes of latest_session_for_task never close and never  *)
(* leave their ticket.                                                     *)
THEOREM LineageIsAForest == Spec => []LineageGoesBack
<1>1. SessionsInv => LineageGoesBack
  BY DEF SessionsInv
<1> QED
  BY <1>1, SessionsInvariance, PTL

(* CredentialVault.decrypt never lets a credential through past its time,  *)
(* whenever it was selected.                                               *)
THEOREM CredentialsOpenInTime == Spec => []OpenedInTime
<1>1. SessionsInv => OpenedInTime
  BY DEF SessionsInv
<1> QED
  BY <1>1, SessionsInvariance, PTL

(* Calls, sessions and credentials stay in the phases of their code.       *)
THEOREM SessionsTypeCorrectness == Spec => []TypeOK
<1>1. SessionsInv => TypeOK
  BY DEF SessionsInv
<1> QED
  BY <1>1, SessionsInvariance, PTL

(* No session asks for its credential again once its schema is known.      *)
THEOREM CredentialsAreNeededOnce == Spec => NeededOnce
<1> DEFINE Later == {"analyzing", "reviewing", "delivering"}
           Earlier == {"queued", "found", "connected", "expired"}
<1>1. ASSUME SessionsInv, [Next]_vars, NEW c \in Calls, pc[c] \in Later
      PROVE  pc'[c] \notin Earlier
  <2> USE DEF Phases, HandlerPhases, TaskPhases, Ended
  <2>1. TypeOK
    BY <1>1 DEF SessionsInv
  <2>2. ASSUME NEW d \in Calls, NEW p, pc' = [pc EXCEPT ![d] = p],
               pc[d] \in Later => p \notin Earlier
        PROVE  pc'[c] \notin Earlier
    BY <1>1, <2>1, <2>2 DEF TypeOK
  <2>3. ASSUME NEW d \in Calls, Proceed(d) PROVE pc'[c] \notin Earlier
    BY <2>2, <2>3 DEF Proceed, Select, Commit, Ask, Open, Introspect, Propose, Deliver
  <2>4. ASSUME NEW d \in Calls, Begin(d) \/ Approve(d) \/ Reject(d)
        PROVE  pc'[c] \notin Earlier
    BY <2>2, <2>4 DEF Begin, Approve, Reject
  <2>5. ASSUME NEW d \in Calls, Age(d) \/ Fail(d) PROVE pc'[c] \notin Earlier
    BY <1>1, <2>2, <2>5 DEF Age, Fail, Fallen
  <2>6. CASE Crash
    BY <1>1, <2>6 DEF Crash, Fallen
  <2>7. CASE UNCHANGED vars
    BY <1>1, <2>7 DEF vars
  <2> QED
    BY <1>1, <2>3, <2>4, <2>5, <2>6, <2>7 DEF Next, Finished
<1>2. SessionsInv /\ [Next]_vars =>
        [\A c \in Calls :
           pc[c] \in Later => pc'[c] \notin Earlier]_vars
  BY <1>1
<1> QED
  BY <1>2, SessionsInvariance, PTL DEF Spec, NeededOnce

-----------------------------------------------------------------------------
(* Sequences without repetition order their elements.                      *)

Once(s) == \A i, j \in DOMAIN s : s[i] = s[j] => i = j

LEMMA OrderOf ==
  ASSUME NEW S, NEW s \in Seq(S), Once(s)
  PROVE  /\ \A b, c : Before(s, b, c) => In(s, b) /\ In(s, c) /\ ~Before(s, c, b)
         /\ \A b, c : In(s, b) /\ In(s, c) /\ b # c => Before(s, b, c) \/ Before(s, c, b)
<1>1. ASSUME NEW b, NEW c, Before(s, b, c)
      PROVE  In(s, b) /\ In(s, c) /\ ~Before(s, c, b)
  BY <1>1 DEF Before, In, Once
<1>2. ASSUME NEW b, NEW c, In(s, b), In(s, c), b # c
      PROVE  Before(s, b, c) \/ Before(s, c, b)
  <2>1. PICK i \in DOMAIN s, j \in DOMAIN s : s[i] = b /\ s[j] = c
    BY <1>2 DEF In
  <2>2. i < j \/ j < i
    BY <1>2, <2>1
  <2> QED
    BY <2>1, <2>2 DEF Before
<1> QED
  BY <1>1, <1>2

LEMMA OrderOfAppend ==
  ASSUME NEW S, NEW s \in Seq(S), NEW e \in S
  PROVE  /\ \A c : In(Append(s, e), c) <=> In(s, c) \/ c = e
         /\ \A b, c : Before(Append(s, e), b, c)
                        <=> Before(s, b, c) \/ (In(s, b) /\ c = e)
         /\ Once(s) /\ ~In(s, e) => Once(Append(s, e))
<1>0. PICK n, r : n = Len(s) /\ r = Append(s, e)
  OBVIOUS
<1>1. /\ n \in Nat /\ r = Append(s, e) /\ DOMAIN s = 1 .. n /\ DOMAIN r = 1 .. n + 1
      /\ \A i \in 1 .. n : r[i] = s[i]
      /\ r[n + 1] = e
  BY <1>0, AppendProperties
<1>2. \A i \in 1 .. n + 1 : i \in 1 .. n \/ i = n + 1
  BY <1>1
<1>3. ASSUME NEW c PROVE In(r, c) <=> In(s, c) \/ c = e
  BY <1>1, <1>2 DEF In
<1>4. ASSUME NEW b, NEW c PROVE Before(r, b, c) <=> Before(s, b, c) \/ (In(s, b) /\ c = e)
  <2>1. ASSUME Before(r, b, c) PROVE Before(s, b, c) \/ (In(s, b) /\ c = e)
    <3>1. PICK i \in 1 .. n + 1, j \in 1 .. n + 1 : i < j /\ r[i] = b /\ r[j] = c
      BY <1>1, <2>1 DEF Before
    <3>2. i \in 1 .. n
      BY <1>1, <3>1
    <3> QED
      BY <1>1, <1>2, <3>1, <3>2 DEF Before, In
  <2>2. ASSUME Before(s, b, c) PROVE Before(r, b, c)
    BY <1>1, <2>2 DEF Before
  <2>3. ASSUME In(s, b), c = e PROVE Before(r, b, c)
    <3>1. PICK i \in 1 .. n : s[i] = b
      BY <1>1, <2>3 DEF In
    <3>2. i \in 1 .. n + 1 /\ n + 1 \in 1 .. n + 1 /\ i < n + 1 /\ r[i] = b /\ r[n + 1] = c
      BY <1>1, <2>3, <3>1
    <3> QED
      BY <1>1, <3>2 DEF Before
  <2> QED
    BY <2>1, <2>2, <2>3
<1>5. ASSUME Once(s), ~In(s, e) PROVE Once(r)
  BY <1>1, <1>2, <1>5 DEF Once, In
<1> QED
  BY <1>1, <1>3, <1>4, <1>5

-----------------------------------------------------------------------------
(* The history of a ticket whose callers wait.                             *)

Uninserted == Uncommitted \cup {"refused"}

Unselected == {"idle", "selecting", "refused"}

Patient(c) == ticket[c] \notin hasty

(* Who has begun and who is committed is known from where they are.        *)
CallsAreListed ==
  /\ Once(begun)
  /\ \A c \in Calls : /\ In(begun, c) <=> pc[c] # "idle"
                      /\ In(rows, c) <=> pc[c] \notin Uninserted

(* A session comments once, at its end.                                    *)
CommentsAreLast ==
  \A i \in DOMAIN comments :
    /\ pc[comments[i].by] = "done"
    /\ comments[i].names = parent[comments[i].by]
    /\ \A j \in DOMAIN comments : comments[i].by = comments[j].by => i = j

(* Whoever began before another call of its ticket is over.                *)
OneAtATime ==
  \A b, c \in Calls :
    ticket[b] = ticket[c] /\ Patient(c) /\ Before(begun, b, c) =>
      pc[b] = "refused" \/ Commented(b)

(* So the comments are in the order in which the calls began.              *)
CommentsInOrder ==
  \A i, j \in DOMAIN comments :
    LET b == comments[i].by
        c == comments[j].by
    IN i < j /\ ticket[b] = ticket[c] /\ Patient(c) => Before(begun, b, c)

(* A retake took up the last session committed before it.                  *)
TakesUpTheLast ==
  \A c \in Retakes :
    pc[c] \notin Unselected /\ Patient(c) =>
      /\ parent[c] # None =>
           /\ In(rows, parent[c]) /\ ticket[parent[c]] = ticket[c]
           /\ Before(begun, parent[c], c)
      /\ \A b \in Calls :
           In(rows, b) /\ ticket[b] = ticket[c] /\ Before(begun, b, c) =>
             b = parent[c] \/ Before(begun, b, parent[c])

HistoryInv ==
  /\ TypeOK
  /\ CallsAreListed
  /\ CommentsAreLast
  /\ OneAtATime
  /\ CommentsInOrder
  /\ TakesUpTheLast

LEMMA HistoryInit == Init => HistoryInv
<1> SUFFICES ASSUME Init PROVE HistoryInv
  OBVIOUS
<1>1. TypeOK
  BY Start DEF SessionsInv
<1>2. begun = <<>> /\ rows = <<>> /\ comments = <<>> /\ \A c \in Calls : pc[c] = "idle"
  BY DEF Init
<1>3. \A b, c : ~In(<<>>, c) /\ ~Before(<<>>, b, c)
  BY DEF In, Before
<1>4. CallsAreListed
  BY <1>2, <1>3 DEF CallsAreListed, Once, Uncommitted, Uninserted
<1>5. CommentsAreLast /\ CommentsInOrder
  BY <1>2 DEF CommentsAreLast, CommentsInOrder
<1>6. OneAtATime /\ TakesUpTheLast
  BY <1>2, <1>3, RetakesAreCalls DEF OneAtATime, TakesUpTheLast, Unselected
<1> QED
  BY <1>1, <1>4, <1>5, <1>6 DEF HistoryInv

LEMMA CommentersAreCalls ==
  ASSUME TypeOK
  PROVE  \A i \in DOMAIN comments : comments[i].by \in Calls
<1>1. PICK s : s = comments
  OBVIOUS
<1>2. s \in Seq(Comment)
  BY <1>1 DEF TypeOK
<1>3. ASSUME NEW i \in DOMAIN s PROVE s[i].by \in Calls
  <2>1. s[i] \in Comment
    BY <1>2, <1>3, ElementOfSeq
  <2> QED
    BY <2>1 DEF Comment
<1> QED
  BY <1>1, <1>3

(* A step in which nobody begins, selects, commits or comments.            *)
LEMMA QuietHistory ==
  ASSUME HistoryInv, TypeOK',
         UNCHANGED <<ticket, begun, rows, parent, comments, hasty>>,
         \A c \in Calls :
           /\ pc'[c] = "idle" <=> pc[c] = "idle"
           /\ pc'[c] \in Uninserted <=> pc[c] \in Uninserted
           /\ pc'[c] \notin Unselected => pc[c] \notin Unselected
           /\ pc[c] = "refused" => pc'[c] = "refused"
           /\ pc[c] = "done" => pc'[c] = "done"
  PROVE  HistoryInv'
<1>1. CallsAreListed'
  BY DEF HistoryInv, CallsAreListed, In, Once
<1>2. CommentsAreLast'
  <2>1. \A i \in DOMAIN comments : comments[i].by \in Calls
    BY CommentersAreCalls DEF HistoryInv
  <2> QED
    BY <2>1 DEF HistoryInv, CommentsAreLast
<1>3. OneAtATime' /\ CommentsInOrder'
  BY DEF HistoryInv, OneAtATime, CommentsInOrder, Patient, Before, Commented
<1>4. TakesUpTheLast'
  BY RetakesAreCalls DEF HistoryInv, TakesUpTheLast, Patient, Before, In
<1> QED
  BY <1>1, <1>2, <1>3, <1>4 DEF HistoryInv

(* The same for one that moves a single call.                              *)
LEMMA MoveKeepsHistory ==
  ASSUME HistoryInv, TypeOK', NEW c \in Calls, NEW p,
         pc' = [pc EXCEPT ![c] = p],
         \/ pc[c] \in HandlerPhases /\ p = "refused"
         \/ /\ pc[c] \notin Uninserted /\ pc[c] # "done"
            /\ p \notin Uninserted,
         UNCHANGED <<ticket, begun, rows, parent, comments, hasty>>
  PROVE  HistoryInv'
<1>1. ASSUME NEW d \in Calls
      PROVE  /\ pc'[d] = "idle" <=> pc[d] = "idle"
             /\ pc'[d] \in Uninserted <=> pc[d] \in Uninserted
             /\ pc'[d] \notin Unselected => pc[d] \notin Unselected
             /\ pc[d] = "refused" => pc'[d] = "refused"
             /\ pc[d] = "done" => pc'[d] = "done"
  BY DEF HistoryInv, TypeOK, HandlerPhases, Uncommitted, Uninserted, Unselected
<1> QED
  BY <1>1, QuietHistory

LEMMA BeginKeepsHistory ==
  ASSUME HistoryInv, TypeOK', NEW c \in Calls, Begin(c), UNCHANGED ticket
  PROVE  HistoryInv'
<1>0. TypeOK
  BY DEF HistoryInv
<1>1. PICK p \in {"selecting", "storing"} :
        /\ pc' = [pc EXCEPT ![c] = p]
        /\ c \in Retakes => p = "selecting"
  BY DEF Begin
<1>2. /\ pc[c] = "idle" /\ begun' = Append(begun, c) /\ hasty \subseteq hasty'
      /\ UNCHANGED <<rows, parent, comments>>
      /\ Patient(c)' => \A b \in Calls : In(begun, b) /\ ticket[b] = ticket[c] =>
                          pc[b] = "refused" \/ Commented(b)
  BY DEF Begin, Patient
<1>3. /\ ~In(begun, c) /\ Once(begun')
      /\ \A d : In(begun', d) <=> In(begun, d) \/ d = c
      /\ \A b, d : Before(begun', b, d) <=> Before(begun, b, d) \/ (In(begun, b) /\ d = c)
  <2>1. begun \in Seq(Calls) /\ Once(begun) /\ ~In(begun, c)
    BY <1>0, <1>2 DEF HistoryInv, CallsAreListed, TypeOK
  <2> QED
    BY <1>2, <2>1, OrderOfAppend
<1>4. \A b, d : Before(begun, b, d) => In(begun, b) /\ In(begun, d)
  BY <1>0, OrderOf DEF HistoryInv, CallsAreListed, TypeOK
<1>5. /\ pc'[c] = p /\ \A d \in Calls : d # c => pc'[d] = pc[d]
      /\ \A d : Commented(d)' = Commented(d) /\ In(rows', d) = In(rows, d)
      /\ \A d : Patient(d)' => Patient(d)
  BY <1>0, <1>1, <1>2 DEF TypeOK, Commented, In, Patient
<1>6. CallsAreListed'
  BY <1>1, <1>2, <1>3, <1>5 DEF HistoryInv, CallsAreListed, Uncommitted, Uninserted
<1>7. CommentsAreLast'
  <2>1. \A i \in DOMAIN comments : comments[i].by \in Calls /\ comments[i].by # c
    BY <1>0, <1>2, CommentersAreCalls DEF HistoryInv, CommentsAreLast
  <2> QED
    BY <1>2, <1>5, <2>1 DEF HistoryInv, CommentsAreLast
<1>8. OneAtATime'
  <2> SUFFICES ASSUME NEW b \in Calls, NEW d \in Calls, ticket[b] = ticket[d],
                      Patient(d)', Before(begun', b, d)
               PROVE  pc'[b] = "refused" \/ Commented(b)'
    BY DEF OneAtATime
  <2>1. pc[b] = "refused" \/ Commented(b)
    BY <1>2, <1>3, <1>5 DEF HistoryInv, OneAtATime
  <2>2. b # c
    BY <1>3, <1>4
  <2> QED
    BY <1>5, <2>1, <2>2
<1>9. CommentsInOrder'
  BY <1>2, <1>3, <1>5 DEF HistoryInv, CommentsInOrder
<1>10. TakesUpTheLast'
  <2> SUFFICES ASSUME NEW d \in Retakes, pc'[d] \notin Unselected, Patient(d)'
               PROVE  /\ parent'[d] # None =>
                           /\ In(rows', parent'[d]) /\ ticket'[parent'[d]] = ticket'[d]
                           /\ Before(begun', parent'[d], d)
                      /\ \A b \in Calls :
                           In(rows', b) /\ ticket'[b] = ticket'[d] /\ Before(begun', b, d) =>
                             b = parent'[d] \/ Before(begun', b, parent'[d])
    BY DEF TakesUpTheLast
  <2>1. d # c /\ d \in Calls
    BY <1>1, <1>5, RetakesAreCalls DEF Unselected
  <2>2. pc[d] \notin Unselected /\ Patient(d)
    BY <1>5, <2>1
  <2> QED
    BY <1>2, <1>3, <1>5, <2>1, <2>2 DEF HistoryInv, TakesUpTheLast
<1> QED
  BY <1>6, <1>7, <1>8, <1>9, <1>10 DEF HistoryInv

LEMMA SelectKeepsHistory ==
  ASSUME HistoryInv, TypeOK', NEW c \in Calls, Select(c), UNCHANGED ticket
  PROVE  HistoryInv'
<1>0. TypeOK
  BY DEF HistoryInv
<1>1. PICK p \in Calls \cup {None} :
        IsLatest(p, ticket[c]) /\ parent' = [parent EXCEPT ![c] = p]
  BY DEF Select
<1>2. /\ pc[c] = "selecting" /\ pc' = [pc EXCEPT ![c] = "storing"]
      /\ UNCHANGED <<begun, rows, comments, hasty>>
  BY DEF Select
<1>3. /\ pc'[c] = "storing" /\ parent'[c] = p
      /\ \A d \in Calls : d # c => pc'[d] = pc[d] /\ parent'[d] = parent[d]
      /\ \A d : /\ Commented(d)' = Commented(d) /\ In(rows', d) = In(rows, d)
                /\ Patient(d)' = Patient(d)
      /\ \A b, d : Before(begun', b, d) = Before(begun, b, d)
  BY <1>0, <1>1, <1>2 DEF TypeOK, Commented, In, Patient, Before
<1>4. CallsAreListed'
  BY <1>2, <1>3 DEF HistoryInv, CallsAreListed, Uncommitted, Uninserted, In, Once
<1>5. CommentsAreLast'
  <2>1. \A i \in DOMAIN comments : comments[i].by \in Calls /\ comments[i].by # c
    BY <1>0, <1>2, CommentersAreCalls DEF HistoryInv, CommentsAreLast
  <2> QED
    BY <1>2, <1>3, <2>1 DEF HistoryInv, CommentsAreLast
<1>6. OneAtATime'
  BY <1>2, <1>3 DEF HistoryInv, OneAtATime
<1>7. CommentsInOrder'
  BY <1>2, <1>3 DEF HistoryInv, CommentsInOrder
<1>8. TakesUpTheLast'
  <2> SUFFICES ASSUME NEW d \in Retakes, pc'[d] \notin Unselected, Patient(d)
               PROVE  /\ parent'[d] # None =>
                           /\ In(rows, parent'[d]) /\ ticket[parent'[d]] = ticket[d]
                           /\ Before(begun, parent'[d], d)
                      /\ \A b \in Calls :
                           In(rows, b) /\ ticket[b] = ticket[d] /\ Before(begun, b, d) =>
                             b = parent'[d] \/ Before(begun, b, parent'[d])
    BY <1>2, <1>3 DEF TakesUpTheLast
  <2>1. CASE d # c
    BY <1>3, <2>1, RetakesAreCalls DEF HistoryInv, TakesUpTheLast
  <2>2. CASE d = c
    <3>1. ASSUME p # None
          PROVE  In(rows, p) /\ ticket[p] = ticket[c] /\ Before(begun, p, c)
      <4>1. p \in Calls /\ In(rows, p) /\ ticket[p] = ticket[c]
        BY <1>1, <3>1 DEF IsLatest
      <4>2. p # c /\ In(begun, p) /\ In(begun, c)
        BY <1>2, <4>1 DEF HistoryInv, CallsAreListed, Uncommitted, Uninserted
      <4>3. ~Before(begun, c, p)
        <5>1. SUFFICES ASSUME Before(begun, c, p) PROVE FALSE
          OBVIOUS
        <5>2. Commented(c)
          BY <1>2, <2>2, <4>1, <5>1 DEF HistoryInv, OneAtATime, Patient
        <5> QED
          BY <1>2, <5>2 DEF HistoryInv, CommentsAreLast, Commented
      <4> QED
        BY <1>0, <4>1, <4>2, <4>3, OrderOf DEF HistoryInv, CallsAreListed, TypeOK
    <3>2. ASSUME NEW b \in Calls, In(rows, b), ticket[b] = ticket[c]
          PROVE  b = p \/ Before(begun, b, p)
      BY <1>1, <3>2 DEF IsLatest
    <3> QED
      BY <1>3, <2>2, <3>1, <3>2
  <2> QED
    BY <2>1, <2>2
<1> QED
  BY <1>4, <1>5, <1>6, <1>7, <1>8 DEF HistoryInv

LEMMA CommitKeepsHistory ==
  ASSUME HistoryInv, TypeOK', NEW c \in Calls, Commit(c), UNCHANGED ticket
  PROVE  HistoryInv'
<1>0. TypeOK
  BY DEF HistoryInv
<1>1. /\ pc[c] = "storing" /\ pc' = [pc EXCEPT ![c] = "queued"]
      /\ rows' = Append(rows, c)
      /\ UNCHANGED <<begun, parent, comments, hasty>>
  BY DEF Commit
<1>2. \A d : In(rows', d) <=> In(rows, d) \/ d = c
  BY <1>0, <1>1, OrderOfAppend DEF TypeOK
<1>3. /\ pc'[c] = "queued"
      /\ \A d \in Calls : d # c => pc'[d] = pc[d]
      /\ \A d : Commented(d)' = Commented(d) /\ Patient(d)' = Patient(d)
      /\ \A b, d : Before(begun', b, d) = Before(begun, b, d)
      /\ \A d : In(begun', d) = In(begun, d)
  BY <1>0, <1>1 DEF TypeOK, Commented, In, Patient, Before
<1>4. CallsAreListed'
  BY <1>1, <1>2, <1>3 DEF HistoryInv, CallsAreListed, Uncommitted, Uninserted, Once
<1>5. CommentsAreLast'
  <2>1. \A i \in DOMAIN comments : comments[i].by \in Calls /\ comments[i].by # c
    BY <1>0, <1>1, CommentersAreCalls DEF HistoryInv, CommentsAreLast
  <2> QED
    BY <1>1, <1>3, <2>1 DEF HistoryInv, CommentsAreLast
<1>6. OneAtATime'
  BY <1>1, <1>3 DEF HistoryInv, OneAtATime
<1>7. CommentsInOrder'
  BY <1>1, <1>3 DEF HistoryInv, CommentsInOrder
<1>8. TakesUpTheLast'
  <2> SUFFICES ASSUME NEW d \in Retakes, pc'[d] \notin Unselected, Patient(d)
               PROVE  /\ parent[d] # None =>
                           /\ In(rows', parent[d]) /\ ticket[parent[d]] = ticket[d]
                           /\ Before(begun, parent[d], d)
                      /\ \A b \in Calls :
                           In(rows', b) /\ ticket[b] = ticket[d] /\ Before(begun, b, d) =>
                             b = parent[d] \/ Before(begun, b, parent[d])
    BY <1>1, <1>3 DEF TakesUpTheLast
  <2>1. pc[d] \notin Unselected
    BY <1>1, <1>3, RetakesAreCalls DEF Unselected
  <2>2. ~(ticket[c] = ticket[d] /\ Before(begun, c, d))
    <3>1. SUFFICES ASSUME ticket[c] = ticket[d], Before(begun, c, d) PROVE FALSE
      OBVIOUS
    <3>2. Commented(c)
      BY <1>1, <3>1, RetakesAreCalls DEF HistoryInv, OneAtATime
    <3> QED
      BY <1>1, <3>2 DEF HistoryInv, CommentsAreLast, Commented
  <2> QED
    BY <1>2, <2>1, <2>2 DEF HistoryInv, TakesUpTheLast
<1> QED
  BY <1>4, <1>5, <1>6, <1>7, <1>8 DEF HistoryInv

LEMMA DeliverKeepsHistory ==
  ASSUME HistoryInv, TypeOK', NEW c \in Calls, Deliver(c), UNCHANGED ticket
  PROVE  HistoryInv'
<1>0. TypeOK
  BY DEF HistoryInv
<1>1. /\ pc[c] = "delivering" /\ pc' = [pc EXCEPT ![c] = "done"]
      /\ UNCHANGED <<begun, rows, parent, hasty>>
  BY DEF Deliver
<1>2. CASE UNCHANGED comments
  BY <1>1, <1>2, MoveKeepsHistory DEF Uncommitted, Uninserted
<1>3. CASE comments' = Append(comments, [by |-> c, names |-> parent[c]])
  <2>0. PICK n, r, e : n = Len(comments) /\ r = comments' /\ e = [by |-> c, names |-> parent[c]]
    OBVIOUS
  <2>1. /\ n \in Nat /\ DOMAIN comments = 1 .. n /\ DOMAIN r = 1 .. n + 1
        /\ \A i \in 1 .. n : r[i] = comments[i]
        /\ r[n + 1] = e /\ e.by = c /\ e.names = parent[c]
    <3>1. e \in Comment /\ comments \in Seq(Comment)
      BY <1>0, <2>0 DEF TypeOK, Comment
    <3> QED
      BY <1>3, <2>0, <3>1, AppendProperties
  <2>2. \A i \in 1 .. n + 1 : i \in 1 .. n \/ i = n + 1
    BY <2>1
  <2>3. /\ pc'[c] = "done" /\ \A d \in Calls : d # c => pc'[d] = pc[d]
        /\ \A d : Commented(d) => Commented(d)'
        /\ \A d : Patient(d)' = Patient(d)
        /\ \A b, d : Before(begun', b, d) = Before(begun, b, d)
        /\ \A d : In(begun', d) = In(begun, d) /\ In(rows', d) = In(rows, d)
    <3>1. ASSUME NEW d, Commented(d) PROVE Commented(d)'
      <4>1. PICK i \in 1 .. n : comments[i].by = d
        BY <2>1, <3>1 DEF Commented
      <4>2. i \in 1 .. n + 1 /\ r[i].by = d
        BY <2>1, <4>1
      <4> QED
        BY <2>0, <2>1, <4>2 DEF Commented
    <3> QED
      BY <1>0, <1>1, <3>1 DEF TypeOK, In, Patient, Before
  <2>4. \A i \in 1 .. n : /\ comments[i].by \in Calls /\ comments[i].by # c
                          /\ pc[comments[i].by] = "done"
    BY <1>0, <1>1, <2>1, CommentersAreCalls DEF HistoryInv, CommentsAreLast
  <2>5. CallsAreListed'
    BY <1>1, <2>3 DEF HistoryInv, CallsAreListed, Uncommitted, Uninserted, Once
  <2>6. CommentsAreLast'
    <3>1. ASSUME NEW i \in 1 .. n + 1
          PROVE  /\ pc'[r[i].by] = "done" /\ r[i].names = parent[r[i].by]
                 /\ \A j \in 1 .. n + 1 : r[i].by = r[j].by => i = j
      BY <2>1, <2>2, <2>3, <2>4 DEF HistoryInv, CommentsAreLast
    <3> QED
      BY <1>1, <2>0, <2>1, <3>1 DEF CommentsAreLast
  <2>7. OneAtATime'
    BY <1>1, <2>3 DEF HistoryInv, OneAtATime
  <2>8. CommentsInOrder'
    <3>1. ASSUME NEW i \in 1 .. n + 1, NEW j \in 1 .. n + 1, i < j,
                 ticket[r[i].by] = ticket[r[j].by], Patient(r[j].by)
          PROVE  Before(begun, r[i].by, r[j].by)
      <4>1. i \in 1 .. n /\ r[i] = comments[i]
        BY <2>1, <3>1
      <4>2. CASE j \in 1 .. n
        BY <2>1, <3>1, <4>1, <4>2 DEF HistoryInv, CommentsInOrder
      <4>3. CASE j = n + 1
        <5> DEFINE b == r[i].by
        <5>1. /\ b \in Calls /\ b # c /\ pc[b] = "done" /\ r[j].by = c
              /\ ticket[b] = ticket[c] /\ Patient(b)
          BY <2>1, <2>4, <3>1, <4>1, <4>3 DEF Patient
        <5> HIDE DEF b
        <5>2. In(begun, b) /\ In(begun, c)
          BY <1>1, <5>1 DEF HistoryInv, CallsAreListed
        <5>3. ~Before(begun, c, b)
          <6>1. SUFFICES ASSUME Before(begun, c, b) PROVE FALSE
            OBVIOUS
          <6>2. Commented(c)
            BY <1>1, <5>1, <6>1 DEF HistoryInv, OneAtATime
          <6> QED
            BY <1>1, <6>2 DEF HistoryInv, CommentsAreLast, Commented
        <5>4. Before(begun, b, c)
          BY <1>0, <5>1, <5>2, <5>3, OrderOf DEF HistoryInv, CallsAreListed, TypeOK
        <5> QED
          BY <5>1, <5>4 DEF b
      <4> QED
        BY <2>2, <4>2, <4>3
    <3> QED
      BY <2>0, <2>1, <2>3, <3>1 DEF CommentsInOrder
  <2>9. TakesUpTheLast'
    <3>1. \A d \in Calls : pc'[d] \notin Unselected => pc[d] \notin Unselected
      BY <1>1, <2>3 DEF Unselected
    <3> QED
      BY <1>1, <2>3, <3>1, RetakesAreCalls DEF HistoryInv, TakesUpTheLast
  <2> QED
    BY <2>5, <2>6, <2>7, <2>8, <2>9 DEF HistoryInv
<1> QED
  BY <1>2, <1>3 DEF Deliver

LEMMA HistoryInductive == HistoryInv /\ TypeOK' /\ [Next]_vars => HistoryInv'
<1> SUFFICES ASSUME HistoryInv, TypeOK', [Next]_vars PROVE HistoryInv'
  OBVIOUS
<1> USE DEF HandlerPhases, TaskPhases, Uncommitted, Uninserted
<1>1. ASSUME NEW c \in Calls, UNCHANGED ticket,
             Ask(c) \/ Open(c) \/ Introspect(c) \/ Propose(c) \/ Approve(c) \/ Reject(c)
      PROVE  HistoryInv'
  <2>1. PICK p \in {"found", "expired", "connected", "analyzing", "reviewing", "delivering"} :
          pc' = [pc EXCEPT ![c] = p]
    BY <1>1 DEF Ask, Open, Introspect, Propose, Approve, Reject
  <2>2. /\ pc[c] \in {"queued", "found", "connected", "analyzing", "reviewing"}
        /\ UNCHANGED <<begun, rows, parent, comments, hasty>>
    BY <1>1 DEF Ask, Open, Introspect, Propose, Approve, Reject
  <2> QED
    BY <1>1, <2>1, <2>2, MoveKeepsHistory
<1>2. ASSUME NEW c \in Calls, UNCHANGED ticket, Age(c) PROVE HistoryInv'
  BY <1>2, QuietHistory DEF Age
<1>3. ASSUME UNCHANGED ticket, Crash \/ \E c \in Calls : Fail(c) PROVE HistoryInv'
  <2>1. ASSUME NEW d \in Calls
        PROVE  \/ pc'[d] = pc[d]
               \/ pc[d] \in HandlerPhases /\ pc'[d] = "refused"
               \/ pc[d] \in TaskPhases /\ pc'[d] = "failed"
    BY <1>3 DEF Crash, Fail, Fallen, HistoryInv, TypeOK
  <2>2. UNCHANGED <<begun, rows, parent, comments, hasty>>
    BY <1>3 DEF Crash, Fail
  <2> QED
    BY <1>3, <2>1, <2>2, QuietHistory DEF Unselected
<1>4. CASE UNCHANGED vars
  BY <1>4, QuietHistory DEF vars
<1> QED
  BY <1>1, <1>2, <1>3, <1>4, BeginKeepsHistory, SelectKeepsHistory,
     CommitKeepsHistory, DeliverKeepsHistory
  DEF Next, Proceed, Finished

(* What the sessions of a ticket say of each other, if nobody was hasty.   *)
THEOREM HistoryInvariance == Spec => []HistoryInv
<1>1. SessionsInv => TypeOK
  BY DEF SessionsInv
<1> QED
  BY <1>1, HistoryInit, HistoryInductive, SessionsInvariance, PTL DEF Spec

(* Each retake's comment names the session of the comment before it, on a  *)
(* ticket whose callers wait for each comment, whatever fails and however  *)
(* the handlers of other tickets interleave with theirs.                   *)
THEOREM CommentsMakeAHistory == Spec => []CommentsAreAHistory
<1>1. ASSUME HistoryInv PROVE CommentsAreAHistory
  <2> SUFFICES ASSUME NEW i \in DOMAIN comments, NEW j \in DOMAIN comments,
                      i < j, comments[j].by \in Retakes,
                      ticket[comments[i].by] = ticket[comments[j].by],
                      Patient(comments[j].by),
                      \A k \in i + 1 .. j - 1 :
                        ticket[comments[k].by] # ticket[comments[j].by]
               PROVE  comments[j].names = comments[i].by
    BY DEF CommentsAreAHistory, Patient
  <2>0. TypeOK /\ CallsAreListed /\ CommentsAreLast
    BY <1>1 DEF HistoryInv
  <2>1. PICK b, c : b = comments[i].by /\ c = comments[j].by
    OBVIOUS
  <2>2. /\ b \in Calls /\ c \in Retakes /\ c \in Calls /\ pc[b] = "done" /\ pc[c] = "done"
        /\ ticket[b] = ticket[c] /\ Patient(c) /\ comments[j].names = parent[c]
    BY <2>0, <2>1, CommentersAreCalls, RetakesAreCalls DEF CommentsAreLast
  <2>3. Before(begun, b, c)
    BY <1>1, <2>1, <2>2 DEF HistoryInv, CommentsInOrder
  <2>4. In(rows, b)
    BY <2>0, <2>2 DEF CallsAreListed, Uncommitted, Uninserted
  <2> DEFINE p == parent[c]
  <2>5. b = p \/ Before(begun, b, p)
    BY <1>1, <2>2, <2>3, <2>4 DEF HistoryInv, TakesUpTheLast, Unselected
  <2>6. SUFFICES ASSUME b # p PROVE FALSE
    BY <2>1, <2>2
  <2>7. begun \in Seq(Calls) /\ Once(begun) /\ p \in Calls \cup {None}
    BY <2>0, <2>2 DEF TypeOK, CallsAreListed
  <2>8. p \in Calls
    <3>1. In(begun, p)
      BY <2>5, <2>6, <2>7, OrderOf
    <3> QED
      BY <2>7, <3>1 DEF In
  <2>9. In(rows, p) /\ ticket[p] = ticket[c] /\ Before(begun, p, c)
    BY <1>1, <2>2, <2>8, NoneIsNoCall DEF HistoryInv, TakesUpTheLast, Unselected
  <2>10. PICK k \in DOMAIN comments : comments[k].by = p
    <3>1. pc[p] # "refused"
      BY <2>0, <2>8, <2>9 DEF CallsAreListed, Uninserted
    <3> QED
      BY <1>1, <2>2, <2>8, <2>9, <3>1 DEF HistoryInv, OneAtATime, Commented
  <2>11. ~(k < i)
    BY <1>1, <2>1, <2>2, <2>5, <2>6, <2>7, <2>9, <2>10, OrderOf
    DEF HistoryInv, CommentsInOrder, Patient
  <2>12. ~(j < k)
    BY <1>1, <2>1, <2>2, <2>7, <2>9, <2>10, OrderOf
    DEF HistoryInv, CommentsInOrder, Patient
  <2>13. k # i /\ k # j
    BY <2>1, <2>6, <2>7, <2>9, <2>10, OrderOf
  <2>14. i \in Nat /\ j \in Nat /\ k \in Nat
    BY <2>0 DEF TypeOK
  <2>15. k \in i + 1 .. j - 1
    BY <2>11, <2>12, <2>13, <2>14
  <2> QED
    BY <2>1, <2>9, <2>10, <2>15
<1> QED
  BY <1>1, HistoryInvariance, PTL
=============================================================================
