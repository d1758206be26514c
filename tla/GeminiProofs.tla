---------------------------- MODULE GeminiProofs ----------------------------
(***************************************************************************)
(* What holds of GeminiCalls for any callers, permits and retries.         *)
(***************************************************************************)
EXTENDS GeminiCalls, FiniteSetTheorems, SequenceTheorems, TLAPS

(* Who waits for a permit, or was handed one and has not run, is in the    *)
(* queue, and nobody else is.                                              *)
QueueHoldsWaiters ==
  \A c \in Callers :
    pc[c] \in {"waiting", "granted"} <=> \E i \in DOMAIN queue : queue[i] = c

(* Nobody is in the queue twice.                                           *)
QueuedOnce == \A i, j \in DOMAIN queue : queue[i] = queue[j] => i = j

(* Who may still try has an attempt left.                                  *)
AttemptsLeft ==
  \A c \in Callers :
    /\ pc[c] = "idle" => attempt[c] = 0
    /\ pc[c] = "backoff" => attempt[c] < MaxRetries

GeminiInv ==
  /\ TypeOK
  /\ AttemptsLeft
  /\ QueueHoldsWaiters
  /\ QueuedOnce
  /\ PermitsConserved
  /\ NoLostWakeup

Holding(phases) == {c \in Callers : phases[c] \in {"granted", "calling"}}

Pending(phases) == {c \in Callers : phases[c] = "waiting"}

-----------------------------------------------------------------------------
(* RemoveAt drops one element and keeps the others in order.               *)
LEMMA RemoveAtEffect ==
  ASSUME NEW S, NEW q \in Seq(S), NEW k \in 1 .. Len(q)
  PROVE  /\ RemoveAt(q, k) \in Seq(S)
         /\ Len(RemoveAt(q, k)) = Len(q) - 1
         /\ \A i \in 1 .. Len(q) - 1 :
              RemoveAt(q, k)[i] = IF i < k THEN q[i] ELSE q[i + 1]
<1> DEFINE before == SubSeq(q, 1, k - 1)
           after  == SubSeq(q, k + 1, Len(q))
<1>1. /\ before \in Seq(S) /\ Len(before) = k - 1
      /\ \A i \in 1 .. k - 1 : before[i] = q[i]
  OBVIOUS
<1>2. /\ after \in Seq(S) /\ Len(after) = Len(q) - k
      /\ \A i \in 1 .. Len(q) - k : after[i] = q[k + i]
  OBVIOUS
<1> HIDE DEF before, after
<1>3. /\ before \o after \in Seq(S)
      /\ Len(before \o after) = Len(q) - 1
      /\ \A i \in 1 .. Len(q) - 1 :
           (before \o after)[i] =
             IF i <= Len(before) THEN before[i] ELSE after[i - Len(before)]
  <2>1. before \o after \in Seq(S) /\ Len(before \o after) = Len(before) + Len(after)
    BY <1>1, <1>2, ConcatProperties
  <2>2. \A i \in 1 .. Len(before) + Len(after) :
          (before \o after)[i] =
            IF i <= Len(before) THEN before[i] ELSE after[i - Len(before)]
    BY <1>1, <1>2, ConcatProperties
  <2>3. Len(before) + Len(after) = Len(q) - 1
    BY <1>1, <1>2
  <2> QED
    BY <2>1, <2>2, <2>3
<1>4. \A i \in 1 .. Len(q) - 1 :
        (before \o after)[i] = IF i < k THEN q[i] ELSE q[i + 1]
  <2> SUFFICES ASSUME NEW i \in 1 .. Len(q) - 1
               PROVE  (before \o after)[i] = IF i < k THEN q[i] ELSE q[i + 1]
    OBVIOUS
  <2>1. CASE i < k
    BY <1>1, <1>3, <2>1
  <2>2. CASE ~(i < k)
    <3>1. i - (k - 1) \in 1 .. Len(q) - k /\ k + (i - (k - 1)) = i + 1
      BY <2>2
    <3> QED
      BY <1>1, <1>2, <1>3, <2>2, <3>1
  <2> QED
    BY <2>1, <2>2
<1> QED
  BY <1>3, <1>4 DEF RemoveAt, before, after

(* Leaving the queue keeps the others in it, in order.                     *)
LEMMA LeaveEffect ==
  ASSUME queue \in Seq(Callers), QueuedOnce, NEW c \in Callers, Leave(c)
  PROVE  /\ queue' \in Seq(Callers)
         /\ QueuedOnce'
         /\ \A d \in Callers :
              (\E i \in DOMAIN queue' : queue'[i] = d)
                <=> (d # c /\ \E i \in DOMAIN queue : queue[i] = d)
<1>0. PICK k \in DOMAIN queue : queue[k] = c /\ queue' = RemoveAt(queue, k)
  BY DEF Leave
<1>1. PICK q, n, r : q = queue /\ n = Len(queue) /\ r = queue'
  OBVIOUS
<1>2. /\ n \in Nat /\ DOMAIN q = 1 .. n /\ k \in 1 .. n /\ q[k] = c
      /\ r \in Seq(Callers) /\ DOMAIN r = 1 .. n - 1
      /\ \A i \in 1 .. n - 1 : r[i] = IF i < k THEN q[i] ELSE q[i + 1]
  BY <1>0, <1>1, RemoveAtEffect
<1>3. \A i, j \in 1 .. n : q[i] = q[j] => i = j
  BY <1>1, <1>2 DEF QueuedOnce
<1>4. \A i, j \in 1 .. n - 1 : r[i] = r[j] => i = j
  <2> SUFFICES ASSUME NEW i \in 1 .. n - 1, NEW j \in 1 .. n - 1, r[i] = r[j]
               PROVE  i = j
    OBVIOUS
  <2>1. i \in 1 .. n /\ i + 1 \in 1 .. n /\ j \in 1 .. n /\ j + 1 \in 1 .. n
    BY <1>2
  <2> QED
    BY <1>2, <1>3, <2>1
<1>5. ASSUME NEW d, NEW i \in 1 .. n - 1, r[i] = d
      PROVE  d # c /\ \E j \in 1 .. n : q[j] = d
  <2>1. i \in 1 .. n /\ i + 1 \in 1 .. n
    BY <1>2
  <2>2. CASE i < k
    <3>1. q[i] = d /\ i # k
      BY <1>2, <1>5, <2>2
    <3> QED
      BY <1>2, <1>3, <2>1, <3>1
  <2>3. CASE ~(i < k)
    <3>1. q[i + 1] = d /\ i + 1 # k
      BY <1>2, <1>5, <2>3
    <3> QED
      BY <1>2, <1>3, <2>1, <3>1
  <2> QED
    BY <2>2, <2>3
<1>6. ASSUME NEW d, d # c, NEW j \in 1 .. n, q[j] = d
      PROVE  \E i \in 1 .. n - 1 : r[i] = d
  <2>1. CASE j < k
    <3>1. j \in 1 .. n - 1 /\ r[j] = d
      BY <1>2, <1>6, <2>1
    <3> QED
      BY <3>1
  <2>2. CASE j > k
    <3>1. j - 1 \in 1 .. n - 1 /\ ~(j - 1 < k) /\ (j - 1) + 1 = j
      BY <1>2, <2>2
    <3>2. r[j - 1] = d
      BY <1>2, <1>6, <3>1
    <3> QED
      BY <3>1, <3>2
  <2> QED
    BY <1>2, <1>6, <2>1, <2>2
<1>7. QueuedOnce'
  BY <1>1, <1>2, <1>4 DEF QueuedOnce
<1>8. ASSUME NEW d \in Callers
      PROVE  (\E i \in DOMAIN queue' : queue'[i] = d)
                <=> (d # c /\ \E i \in DOMAIN queue : queue[i] = d)
  <2>1. /\ (\E i \in DOMAIN queue' : queue'[i] = d) <=> \E i \in 1 .. n - 1 : r[i] = d
        /\ (\E i \in DOMAIN queue : queue[i] = d) <=> \E i \in 1 .. n : q[i] = d
    BY <1>1, <1>2
  <2> QED
    BY <1>5, <1>6, <2>1
<1> QED
  BY <1>1, <1>2, <1>7, <1>8

(* Waking makes holders of some who wait, and pays for each of them.       *)
LEMMA WakeUpEffect ==
  ASSUME NEW most \in Nat, NEW permits \in Nat, most <= permits,
         NEW phases \in [Callers -> Phases],
         WakeUp(most, permits, phases)
  PROVE  /\ pc' \in [Callers -> Phases]
         /\ value' \in Nat /\ value' <= permits
         /\ value' + Cardinality(Holding(pc')) = permits + Cardinality(Holding(phases))
         /\ \A c \in Callers :
              \/ pc'[c] = phases[c]
              \/ phases[c] = "waiting" /\ pc'[c] = "granted"
         /\ \/ Pending(pc') = {}
            \/ \E c \in Callers : pc'[c] = "granted"
            \/ most = 0
         /\ most = permits => Pending(pc') = {} \/ value' = 0
<1> DEFINE pending == {c \in Callers : phases[c] = "waiting"}
<1>1. PICK woken \in SUBSET pending :
        /\ Cardinality(woken) <= most
        /\ Cardinality(woken) < most => woken = pending
        /\ value' = permits - Cardinality(woken)
        /\ pc' = [c \in Callers |-> IF c \in woken THEN "granted" ELSE phases[c]]
  BY DEF WakeUp
<1>2. /\ IsFiniteSet(woken) /\ IsFiniteSet(Holding(phases))
      /\ Cardinality(woken) \in Nat /\ Cardinality(Holding(phases)) \in Nat
  BY CallersFinite, FS_Subset, FS_CardinalityType DEF Holding
<1>3. pc' \in [Callers -> Phases]
  BY <1>1 DEF Phases
<1>4. Holding(pc') = Holding(phases) \cup woken /\ Holding(phases) \cap woken = {}
  BY <1>1 DEF Holding
<1>5. Cardinality(Holding(pc')) = Cardinality(Holding(phases)) + Cardinality(woken)
  <2>1. Cardinality(Holding(phases) \cap woken) = 0
    BY <1>4, FS_EmptySet
  <2>2. Cardinality(Holding(phases) \cup woken) =
          Cardinality(Holding(phases)) + Cardinality(woken)
            - Cardinality(Holding(phases) \cap woken)
    BY <1>2, FS_Union
  <2> QED
    BY <1>2, <1>4, <2>1, <2>2
<1>6. \A c \in Callers :
        \/ pc'[c] = phases[c]
        \/ phases[c] = "waiting" /\ pc'[c] = "granted"
  BY <1>1
<1>7. woken = pending => Pending(pc') = {}
  BY <1>1 DEF Pending
<1>8. woken # {} => \E c \in Callers : pc'[c] = "granted"
  BY <1>1
<1>9. most # 0 => Pending(pc') = {} \/ \E c \in Callers : pc'[c] = "granted"
  <2>1. CASE woken = {}
    <3>1. Cardinality(woken) = 0
      BY <2>1, FS_EmptySet
    <3> QED
      BY <1>1, <1>7, <3>1
  <2> QED
    BY <1>8, <2>1
<1> QED
  BY <1>1, <1>2, <1>3, <1>5, <1>6, <1>7, <1>9

(* One caller more, or one less, among the holders.                        *)
LEMMA HoldersChange ==
  ASSUME pc \in [Callers -> Phases], NEW c \in Callers, NEW p \in Phases
  PROVE  LET after == [pc EXCEPT ![c] = p] IN
         /\ after \in [Callers -> Phases]
         /\ Cardinality(Holding(pc)) \in Nat
         /\ Cardinality(Holding(after)) =
              Cardinality(Holding(pc))
                + (IF p \in {"granted", "calling"} THEN 1 ELSE 0)
                - (IF pc[c] \in {"granted", "calling"} THEN 1 ELSE 0)
<1> DEFINE after == [pc EXCEPT ![c] = p]
<1>1. after \in [Callers -> Phases]
  OBVIOUS
<1>2. IsFiniteSet(Holding(pc)) /\ Cardinality(Holding(pc)) \in Nat
  BY CallersFinite, FS_Subset, FS_CardinalityType DEF Holding
<1>3. CASE p \in {"granted", "calling"} /\ pc[c] \notin {"granted", "calling"}
  <2>1. Holding(after) = Holding(pc) \cup {c} /\ c \notin Holding(pc)
    BY <1>3 DEF Holding
  <2>2. Cardinality(Holding(after)) = Cardinality(Holding(pc)) + 1
    BY <1>2, <2>1, FS_AddElement
  <2> QED
    BY <1>1, <1>2, <1>3, <2>1, <2>2
<1>4. CASE p \notin {"granted", "calling"} /\ pc[c] \in {"granted", "calling"}
  <2>1. Holding(after) = Holding(pc) \ {c} /\ c \in Holding(pc)
    BY <1>4 DEF Holding
  <2>2. Cardinality(Holding(after)) = Cardinality(Holding(pc)) - 1
    BY <1>2, <2>1, FS_RemoveElement
  <2> QED
    BY <1>1, <1>2, <1>4, <2>1, <2>2
<1>5. CASE p \in {"granted", "calling"} <=> pc[c] \in {"granted", "calling"}
  <2>1. Holding(after) = Holding(pc)
    BY <1>5 DEF Holding
  <2> QED
    BY <1>1, <1>2, <1>5, <2>1
<1> QED
  BY <1>3, <1>4, <1>5

-----------------------------------------------------------------------------
(* A step that takes c out of the queue, or out of its call, to phase p,   *)
(* and hands its permit, or the free ones, on.                             *)
LEMMA HandingOn ==
  ASSUME GeminiInv, NEW c \in Callers, NEW p \in Phases \ {"idle", "waiting", "granted"},
         NEW most \in Nat, NEW permits \in Nat, most \in {1, permits}, most <= permits,
         WakeUp(most, permits, [pc EXCEPT ![c] = p]),
         permits + (IF p = "calling" THEN 1 ELSE 0)
           = value + (IF pc[c] \in {"granted", "calling"} THEN 1 ELSE 0),
         p = "backoff" => attempt[c] < MaxRetries,
         attempt' = attempt, queue' \in Seq(Callers), QueuedOnce',
         \A d \in Callers : (\E i \in DOMAIN queue' : queue'[i] = d)
                             <=> (d # c /\ \E i \in DOMAIN queue : queue[i] = d)
  PROVE  GeminiInv'
<1>0. PICK after : after = [pc EXCEPT ![c] = p]
  OBVIOUS
<1>1. /\ after \in [Callers -> Phases]
      /\ Cardinality(Holding(pc)) \in Nat
      /\ Cardinality(Holding(after)) =
           Cardinality(Holding(pc))
             + (IF p \in {"granted", "calling"} THEN 1 ELSE 0)
             - (IF pc[c] \in {"granted", "calling"} THEN 1 ELSE 0)
  BY <1>0, HoldersChange DEF GeminiInv, TypeOK
<1>2. WakeUp(most, permits, after)
  BY <1>0
<1>3. /\ pc' \in [Callers -> Phases]
      /\ value' \in Nat /\ value' <= permits
      /\ value' + Cardinality(Holding(pc')) = permits + Cardinality(Holding(after))
      /\ \A d \in Callers :
           \/ pc'[d] = after[d]
           \/ after[d] = "waiting" /\ pc'[d] = "granted"
      /\ \/ Pending(pc') = {}
         \/ \E d \in Callers : pc'[d] = "granted"
         \/ most = 0
  <2>1. most \in Nat /\ permits \in Nat /\ most <= permits
    OBVIOUS
  <2> QED
    BY <1>1, <1>2, <2>1, WakeUpEffect
<1>4. value + Cardinality(Holding(pc)) = Permits /\ value \in 0 .. Permits
  BY DEF GeminiInv, PermitsConserved, Holding, In, TypeOK
<1>5. Cardinality(Holding(pc')) \in Nat
  <2>1. Holding(pc') \in SUBSET Callers
    BY DEF Holding
  <2> QED
    BY <2>1, CallersFinite, FS_Subset, FS_CardinalityType
<1>6. value' + Cardinality(Holding(pc')) = Permits
  <2>1. PICK held \in Nat : held = Cardinality(Holding(pc))
    BY <1>1
  <2>2. PICK gained \in {0, 1} : gained = IF p \in {"granted", "calling"} THEN 1 ELSE 0
    OBVIOUS
  <2>3. PICK lost \in {0, 1} : lost = IF pc[c] \in {"granted", "calling"} THEN 1 ELSE 0
    OBVIOUS
  <2>4. PICK free \in Nat : free = value
    BY <1>4, PermitsPositive
  <2>5. permits + gained = free + lost
    BY <2>2, <2>3, <2>4
  <2>6. Cardinality(Holding(after)) = held + gained - lost
    BY <1>1, <2>1, <2>2, <2>3
  <2>7. free + held = Permits
    BY <1>4, <2>1, <2>4
  <2>8. value' + Cardinality(Holding(pc')) = permits + Cardinality(Holding(after))
    BY <1>3
  <2>9. permits + (held + gained - lost) = Permits
    <3>1. \A a, b, h \in Nat, g, l \in {0, 1} :
            a + g = b + l => a + (h + g - l) = b + h
      OBVIOUS
    <3> QED
      BY <2>5, <2>7, <3>1
  <2> QED
    BY <2>6, <2>8, <2>9
<1>7. PermitsConserved' /\ value' \in 0 .. Permits
  BY <1>3, <1>5, <1>6, PermitsPositive DEF PermitsConserved, Holding, In
<1>8. TypeOK'
  BY <1>3, <1>7 DEF TypeOK, GeminiInv
<1>9. AttemptsLeft'
  BY <1>0, <1>1, <1>3 DEF AttemptsLeft, GeminiInv, TypeOK, Phases
<1>10. QueueHoldsWaiters'
  <2> SUFFICES ASSUME NEW d \in Callers
               PROVE  pc'[d] \in {"waiting", "granted"}
                        <=> \E i \in DOMAIN queue' : queue'[i] = d
    BY DEF QueueHoldsWaiters
  <2>1. CASE d = c
    BY <1>0, <1>1, <1>3, <2>1 DEF GeminiInv, TypeOK
  <2>2. CASE d # c
    <3>1. pc'[d] \in {"waiting", "granted"} <=> pc[d] \in {"waiting", "granted"}
      BY <1>0, <1>1, <1>3, <2>2 DEF GeminiInv, TypeOK
    <3> QED
      BY <2>2, <3>1 DEF GeminiInv, QueueHoldsWaiters
  <2> QED
    BY <2>1, <2>2
<1>11. NoLostWakeup'
  BY <1>3 DEF NoLostWakeup, In, Pending
<1> QED
  BY <1>7, <1>8, <1>9, <1>10, <1>11 DEF GeminiInv

(* Nobody on the wire is in the queue, so giving a permit back leaves it.  *)
LEMMA ReleaseKeepsInv ==
  ASSUME GeminiInv, NEW c \in Callers, pc[c] = "calling",
         NEW p \in Phases \ {"idle", "waiting", "granted", "calling"},
         p = "backoff" => attempt[c] < MaxRetries,
         Release([pc EXCEPT ![c] = p]), attempt' = attempt
  PROVE  GeminiInv'
<1>1. value \in Nat /\ value + 1 \in Nat
  BY DEF GeminiInv, TypeOK
<1>2. queue' = queue /\ WakeUp(1, value + 1, [pc EXCEPT ![c] = p])
  BY DEF Release
<1>3. queue' \in Seq(Callers) /\ QueuedOnce'
  BY <1>2 DEF GeminiInv, TypeOK, QueuedOnce
<1>4. \A d \in Callers : (\E i \in DOMAIN queue' : queue'[i] = d)
                         <=> (d # c /\ \E i \in DOMAIN queue : queue[i] = d)
  BY <1>2 DEF GeminiInv, QueueHoldsWaiters
<1>5. /\ 1 <= value + 1
      /\ value + 1 + (IF p = "calling" THEN 1 ELSE 0)
           = value + (IF pc[c] \in {"granted", "calling"} THEN 1 ELSE 0)
  BY <1>1
<1> QED
  BY <1>1, <1>2, <1>3, <1>4, <1>5, HandingOn

(* Leaving the queue, with a permit or without.                            *)
LEMMA LeaveKeepsInv ==
  ASSUME GeminiInv, NEW c \in Callers, NEW p \in {"calling", "cancelled"}, Leave(c),
         NEW permits \in Nat, WakeUp(permits, permits, [pc EXCEPT ![c] = p]),
         permits + (IF p = "calling" THEN 1 ELSE 0)
           = value + (IF pc[c] \in {"granted", "calling"} THEN 1 ELSE 0),
         attempt' = attempt
  PROVE  GeminiInv'
<1>1. /\ queue' \in Seq(Callers) /\ QueuedOnce'
      /\ \A d \in Callers : (\E i \in DOMAIN queue' : queue'[i] = d)
                            <=> (d # c /\ \E i \in DOMAIN queue : queue[i] = d)
  BY LeaveEffect DEF GeminiInv, TypeOK
<1>2. /\ p \in Phases \ {"idle", "waiting", "granted"} /\ p # "backoff"
      /\ permits \in {1, permits} /\ permits <= permits
  BY DEF Phases
<1> QED
  BY <1>1, <1>2, HandingOn

LEMMA AttemptKeepsInv ==
  ASSUME GeminiInv, NEW c \in Callers, Attempt(c)
  PROVE  GeminiInv'
<1>1. /\ pc \in [Callers -> Phases] /\ attempt \in [Callers -> 0 .. MaxRetries]
      /\ value \in 0 .. Permits /\ queue \in Seq(Callers)
      /\ pc[c] \in {"idle", "backoff"}
      /\ attempt' = [attempt EXCEPT ![c] = @ + 1]
      /\ \A i \in DOMAIN queue : queue[i] # c
  BY DEF GeminiInv, TypeOK, Attempt, QueueHoldsWaiters
<1>2. attempt' \in [Callers -> 0 .. MaxRetries]
  <2>1. attempt[c] + 1 \in 0 .. MaxRetries
    BY <1>1, RetriesPositive DEF GeminiInv, AttemptsLeft
  <2> QED
    BY <1>1, <2>1
<1>3. value + Cardinality(Holding(pc)) = Permits
  BY DEF GeminiInv, PermitsConserved, Holding, In
<1>4. CASE /\ ~Locked /\ value' = value - 1 /\ queue' = queue
           /\ pc' = [pc EXCEPT ![c] = "calling"]
  <2>1. value > 0 /\ queue = <<>>
    BY <1>1, <1>4 DEF Locked
  <2>2. /\ Cardinality(Holding(pc)) \in Nat
        /\ Cardinality(Holding(pc')) = Cardinality(Holding(pc)) + 1
    <3>1. PICK after : after = [pc EXCEPT ![c] = "calling"]
      OBVIOUS
    <3>2. /\ Cardinality(Holding(pc)) \in Nat
          /\ Cardinality(Holding(after)) = Cardinality(Holding(pc)) + 1
      <4>1. "calling" \in Phases
        BY DEF Phases
      <4>2. /\ Cardinality(Holding(pc)) \in Nat
            /\ Cardinality(Holding(after)) =
                 Cardinality(Holding(pc))
                   + (IF "calling" \in {"granted", "calling"} THEN 1 ELSE 0)
                   - (IF pc[c] \in {"granted", "calling"} THEN 1 ELSE 0)
        BY <1>1, <3>1, <4>1, HoldersChange
      <4> QED
        BY <1>1, <4>2
    <3> QED
      BY <1>4, <3>1, <3>2
  <2>3. PermitsConserved' /\ value' \in 0 .. Permits
    BY <1>1, <1>3, <1>4, <2>1, <2>2, PermitsPositive DEF PermitsConserved, Holding, In
  <2>4. pc' \in [Callers -> Phases] /\ queue' \in Seq(Callers)
    BY <1>1, <1>4 DEF Phases
  <2>5. TypeOK'
    BY <1>2, <2>3, <2>4 DEF TypeOK
  <2>6. AttemptsLeft'
    BY <1>1, <1>4 DEF GeminiInv, AttemptsLeft
  <2>7. QueueHoldsWaiters' /\ QueuedOnce'
    BY <1>1, <1>4 DEF GeminiInv, QueueHoldsWaiters, QueuedOnce
  <2>8. NoLostWakeup'
    <3>1. \A d \in Callers : pc[d] # "waiting"
      BY <2>1 DEF GeminiInv, QueueHoldsWaiters
    <3> QED
      BY <1>1, <1>4, <3>1 DEF NoLostWakeup, In
  <2> QED
    BY <2>3, <2>5, <2>6, <2>7, <2>8 DEF GeminiInv
<1>5. CASE /\ Locked /\ queue' = Append(queue, c) /\ value' = value
           /\ pc' = [pc EXCEPT ![c] = "waiting"]
  <2>1. PICK n \in Nat :
          /\ n = Len(queue) /\ DOMAIN queue = 1 .. n /\ DOMAIN queue' = 1 .. n + 1
          /\ \A i \in 1 .. n : queue'[i] = queue[i]
          /\ queue'[n + 1] = c
    BY <1>1, <1>5
  <2>2. Holding(pc') = Holding(pc)
    BY <1>1, <1>5 DEF Holding
  <2>3. PermitsConserved'
    BY <1>3, <1>5, <2>2 DEF PermitsConserved, Holding, In
  <2>4. TypeOK'
    BY <1>1, <1>2, <1>5 DEF TypeOK, Phases
  <2>5. AttemptsLeft'
    BY <1>1, <1>5 DEF GeminiInv, AttemptsLeft
  <2>6. QueueHoldsWaiters'
    <3> SUFFICES ASSUME NEW d \in Callers
                 PROVE  pc'[d] \in {"waiting", "granted"}
                          <=> \E i \in 1 .. n + 1 : queue'[i] = d
      BY <2>1 DEF QueueHoldsWaiters
    <3>1. CASE d = c
      BY <1>1, <1>5, <2>1, <3>1
    <3>2. CASE d # c
      <4>1. pc'[d] = pc[d]
        BY <1>1, <1>5, <3>2
      <4>2. (\E i \in 1 .. n + 1 : queue'[i] = d) <=> \E i \in 1 .. n : queue[i] = d
        BY <2>1, <3>2
      <4> QED
        BY <2>1, <4>1, <4>2 DEF GeminiInv, QueueHoldsWaiters
    <3> QED
      BY <3>1, <3>2
  <2>7. QueuedOnce'
    <3> SUFFICES ASSUME NEW i \in 1 .. n + 1, NEW j \in 1 .. n + 1,
                        queue'[i] = queue'[j]
                 PROVE  i = j
      BY <2>1 DEF QueuedOnce
    <3>1. CASE i \in 1 .. n /\ j \in 1 .. n
      BY <2>1, <3>1 DEF GeminiInv, QueuedOnce
    <3>2. CASE i = n + 1 \/ j = n + 1
      <4>1. ASSUME NEW k \in 1 .. n PROVE queue'[k] # c
        BY <1>1, <2>1
      <4>2. queue'[i] = c /\ queue'[j] = c
        BY <2>1, <3>2
      <4> QED
        BY <4>1, <4>2
    <3> QED
      BY <3>1, <3>2
  <2>8. NoLostWakeup'
    <3> SUFFICES ASSUME value > 0
                 PROVE  \E d \in Callers : pc'[d] = "granted"
      BY <1>5 DEF NoLostWakeup, In
    <3>1. PICK d \in Callers : pc[d] \in {"waiting", "granted"}
      <4>1. queue # <<>>
        BY <1>5 DEF Locked
      <4>2. 1 \in DOMAIN queue /\ queue[1] \in Callers
        BY <1>1, <4>1
      <4> QED
        BY <4>2 DEF GeminiInv, QueueHoldsWaiters
    <3>2. PICK e \in Callers : pc[e] = "granted"
      BY <1>1, <3>1 DEF GeminiInv, NoLostWakeup, In
    <3> QED
      BY <1>1, <1>5, <3>2
  <2> QED
    BY <2>3, <2>4, <2>5, <2>6, <2>7, <2>8 DEF GeminiInv
<1> QED
  BY <1>4, <1>5 DEF Attempt

LEMMA CancelKeepsInv ==
  ASSUME GeminiInv, NEW c \in Callers, Cancel(c)
  PROVE  GeminiInv'
<1>1. value \in Nat /\ value + 1 \in Nat /\ attempt' = attempt
  BY DEF GeminiInv, TypeOK, Cancel
<1>2. CASE /\ pc[c] \in {"idle", "backoff"} /\ pc' = [pc EXCEPT ![c] = "cancelled"]
           /\ UNCHANGED <<value, queue>>
  <2>1. Holding(pc') = Holding(pc)
    BY <1>2 DEF Holding, GeminiInv, TypeOK
  <2>2. TypeOK'
    BY <1>1, <1>2 DEF GeminiInv, TypeOK, Phases
  <2>3. PermitsConserved'
    BY <1>2, <2>1 DEF GeminiInv, PermitsConserved, Holding, In
  <2> QED
    BY <1>1, <1>2, <2>2, <2>3 DEF GeminiInv, TypeOK, AttemptsLeft, QueueHoldsWaiters,
                                  QueuedOnce, NoLostWakeup, In
<1>3. CASE /\ pc[c] = "waiting" /\ Leave(c)
           /\ WakeUp(value, value, [pc EXCEPT ![c] = "cancelled"])
  BY <1>1, <1>3, LeaveKeepsInv
<1>4. CASE /\ pc[c] = "granted" /\ Leave(c)
           /\ WakeUp(value + 1, value + 1, [pc EXCEPT ![c] = "cancelled"])
  <2>1. /\ value + 1 + (IF "cancelled" = "calling" THEN 1 ELSE 0)
             = value + (IF pc[c] \in {"granted", "calling"} THEN 1 ELSE 0)
        /\ "cancelled" \in {"calling", "cancelled"}
    BY <1>1, <1>4
  <2> QED
    BY <1>1, <1>4, <2>1, LeaveKeepsInv
<1>5. CASE pc[c] = "calling" /\ Release([pc EXCEPT ![c] = "cancelled"])
  BY <1>1, <1>5, ReleaseKeepsInv DEF Phases
<1> QED
  BY <1>2, <1>3, <1>4, <1>5 DEF Cancel

LEMMA Start == Init => GeminiInv
<1> SUFFICES ASSUME Init PROVE GeminiInv
  OBVIOUS
<1>1. In({"granted", "calling"}) = {} /\ In({"waiting"}) = {}
  BY DEF Init, In
<1>2. Cardinality(In({"granted", "calling"})) = 0
  BY <1>1, FS_EmptySet
<1>3. PermitsConserved /\ NoLostWakeup
  BY <1>1, <1>2, PermitsPositive DEF Init, PermitsConserved, NoLostWakeup
<1>4. TypeOK
  BY PermitsPositive, RetriesPositive DEF Init, TypeOK, Phases
<1> QED
  BY <1>3, <1>4 DEF Init, GeminiInv, AttemptsLeft, QueueHoldsWaiters, QueuedOnce

LEMMA Inductive == GeminiInv /\ [Next]_vars => GeminiInv'
<1> SUFFICES ASSUME GeminiInv, [Next]_vars PROVE GeminiInv'
  OBVIOUS
<1>1. ASSUME NEW c \in Callers, Attempt(c) PROVE GeminiInv'
  BY <1>1, AttemptKeepsInv
<1>2. ASSUME NEW c \in Callers, Acquired(c) PROVE GeminiInv'
  <2>1. value \in Nat
    BY DEF GeminiInv, TypeOK
  <2> QED
    BY <1>2, <2>1, LeaveKeepsInv DEF Acquired
<1>3. ASSUME NEW c \in Callers, Answer(c) PROVE GeminiInv'
  BY <1>3, ReleaseKeepsInv DEF Answer, Phases
<1>4. ASSUME NEW c \in Callers, FailAttempt(c) PROVE GeminiInv'
  <2>1. CASE attempt[c] < Attempts(c)
    <3>1. attempt[c] < MaxRetries
      BY <2>1, RetriesPositive DEF Attempts, GeminiInv, TypeOK
    <3> QED
      BY <1>4, <2>1, <3>1, ReleaseKeepsInv DEF FailAttempt, Phases
  <2>2. CASE ~(attempt[c] < Attempts(c))
    BY <1>4, <2>2, ReleaseKeepsInv DEF FailAttempt, Phases
  <2> QED
    BY <2>1, <2>2
<1>5. ASSUME NEW c \in Callers, Cancel(c) PROVE GeminiInv'
  BY <1>5, CancelKeepsInv
<1>6. CASE UNCHANGED vars
  BY <1>6 DEF vars, GeminiInv, TypeOK, AttemptsLeft, QueueHoldsWaiters, QueuedOnce,
              PermitsConserved, NoLostWakeup, In
<1> QED
  BY <1>1, <1>2, <1>3, <1>4, <1>5, <1>6 DEF Next, Begin, Proceed, Finished

-----------------------------------------------------------------------------
(* Through every retry and cancellation the semaphore of GeminiService     *)
(* keeps its count, its queue and its free permits consistent.             *)
THEOREM GeminiInvariance == Spec => []GeminiInv
BY Start, Inductive, PTL DEF Spec

(* No permit is ever lost or made, so never more than Permits calls are    *)
(* with Gemini, whatever is cancelled.                                     *)
THEOREM PermitConservation == Spec => []PermitsConserved
<1>1. GeminiInv => PermitsConserved
  BY DEF GeminiInv
<1> QED
  BY <1>1, GeminiInvariance, PTL

(* A free permit never lies idle while a call waits for one: somebody who  *)
(* was handed a permit is about to run, and passes the free ones on.       *)
THEOREM WakeupsAreNotLost == Spec => []NoLostWakeup
<1>1. GeminiInv => NoLostWakeup
  BY DEF GeminiInv
<1> QED
  BY <1>1, GeminiInvariance, PTL

(* Calls are in the phases of invoke_structured, with at most MaxRetries   *)
(* attempts each.                                                          *)
THEOREM GeminiTypeCorrectness == Spec => []TypeOK
<1>1. GeminiInv => TypeOK
  BY DEF GeminiInv
<1> QED
  BY <1>1, GeminiInvariance, PTL

-----------------------------------------------------------------------------
(* Order.                                                                  *)

Ahead(d, c) == \E i, j \in DOMAIN queue : i < j /\ queue[i] = d /\ queue[j] = c

LEMMA LeaveKeepsOrder ==
  ASSUME queue \in Seq(Callers), NEW b, Leave(b), NEW c, NEW d, Ahead(d, c)'
  PROVE  Ahead(d, c)
<1>0. PICK k \in DOMAIN queue : queue[k] = b /\ queue' = RemoveAt(queue, k)
  BY DEF Leave
<1>1. PICK q, n, r : q = queue /\ n = Len(queue) /\ r = queue'
  OBVIOUS
<1>2. /\ n \in Nat /\ DOMAIN q = 1 .. n /\ k \in 1 .. n
      /\ r \in Seq(Callers) /\ DOMAIN r = 1 .. n - 1
      /\ \A i \in 1 .. n - 1 : r[i] = IF i < k THEN q[i] ELSE q[i + 1]
  <2>1. n \in Nat /\ DOMAIN q = 1 .. n /\ k \in 1 .. n /\ q \in Seq(Callers)
    BY <1>0, <1>1
  <2>2. /\ r \in Seq(Callers) /\ Len(r) = n - 1
        /\ \A i \in 1 .. n - 1 : r[i] = IF i < k THEN q[i] ELSE q[i + 1]
    BY <1>0, <1>1, <2>1, RemoveAtEffect
  <2> QED
    BY <2>1, <2>2
<1>3. PICK i \in 1 .. n - 1, j \in 1 .. n - 1 : i < j /\ r[i] = d /\ r[j] = c
  BY <1>1, <1>2 DEF Ahead
<1>4. PICK m \in 1 .. n : q[m] = d /\ m = IF i < k THEN i ELSE i + 1
  BY <1>2, <1>3
<1>5. PICK l \in 1 .. n : q[l] = c /\ l = IF j < k THEN j ELSE j + 1
  BY <1>2, <1>3
<1>6. m < l
  BY <1>2, <1>3, <1>4, <1>5
<1> QED
  BY <1>1, <1>2, <1>4, <1>5, <1>6 DEF Ahead

(* Of two that wait, the one that is woken alone is ahead of the other.    *)
LEMMA WokenInOrder ==
  ASSUME NEW most, NEW permits, NEW phases, WakeUp(most, permits, phases),
         GeminiInv', NEW c \in Callers, NEW d \in Callers,
         phases[c] = "waiting", pc'[c] = "waiting",
         phases[d] = "waiting", pc'[d] = "granted"
  PROVE  Ahead(d, c)'
<1> DEFINE pending == {b \in Callers : phases[b] = "waiting"}
<1>1. PICK woken \in SUBSET pending :
        /\ \A i, j \in DOMAIN queue' :
             i < j /\ queue'[j] \in woken /\ queue'[i] \in pending
               => queue'[i] \in woken
        /\ pc' = [b \in Callers |-> IF b \in woken THEN "granted" ELSE phases[b]]
  BY DEF WakeUp
<1>2. c \in pending /\ c \notin woken /\ d \in woken
  BY <1>1
<1>3. PICK j \in DOMAIN queue' : queue'[j] = c
  BY DEF GeminiInv, QueueHoldsWaiters
<1>4. PICK i \in DOMAIN queue' : queue'[i] = d
  BY DEF GeminiInv, QueueHoldsWaiters
<1>5. i \in Nat /\ j \in Nat
  BY DEF GeminiInv, TypeOK
<1>6. ~(j < i) /\ i # j
  BY <1>1, <1>2, <1>3, <1>4
<1> QED
  BY <1>3, <1>4, <1>5, <1>6 DEF Ahead

(* A permit of GeminiService's semaphore never goes to a call while one    *)
(* that asked before it still waits, whoever leaves the queue meanwhile.   *)
THEOREM FirstComeIsFirstServed == Spec => FirstComeFirstServed
<1> DEFINE Served(d) == pc[d] \notin {"granted", "calling"} /\ pc'[d] \in {"granted", "calling"}
           Waits(c) == pc[c] = "waiting" /\ pc'[c] = "waiting"
<1>1. ASSUME GeminiInv, GeminiInv', [Next]_vars,
             NEW c \in Callers, NEW d \in Callers, Waits(c), Served(d)
      PROVE  Ahead(d, c)
  <2>0. pc \in [Callers -> Phases] /\ queue \in Seq(Callers)
    BY <1>1 DEF GeminiInv, TypeOK
  <2>1. ASSUME NEW b \in Callers, NEW p, p # "granted", p # "waiting",
               p = "calling" => pc[b] = "granted",
               NEW most, NEW permits, WakeUp(most, permits, [pc EXCEPT ![b] = p])
        PROVE  Ahead(d, c)'
    <3> DEFINE phases == [pc EXCEPT ![b] = p]
    <3>1. \A a \in Callers : \/ pc'[a] = phases[a]
                             \/ phases[a] = "waiting" /\ pc'[a] = "granted"
      BY <2>1 DEF WakeUp
    <3>2. phases[c] = "waiting" /\ phases[d] = "waiting" /\ pc'[d] = "granted"
      BY <1>1, <2>0, <2>1, <3>1
    <3> HIDE DEF phases
    <3> QED
      BY <1>1, <2>1, <3>2, WokenInOrder DEF phases
  <2>2. ASSUME NEW b \in Callers, Attempt(b) PROVE FALSE
    <3>1. CASE ~Locked
      <4>1. \E i \in DOMAIN queue : queue[i] = c
        BY <1>1 DEF GeminiInv, QueueHoldsWaiters
      <4> QED
        BY <3>1, <4>1 DEF Locked
    <3>2. CASE Locked
      BY <1>1, <2>0, <2>2, <3>2 DEF Attempt
    <3> QED
      BY <3>1, <3>2
  <2>3. ASSUME NEW b \in Callers, NEW p, p # "granted", p # "waiting", p # "calling",
               Release([pc EXCEPT ![b] = p])
        PROVE  Ahead(d, c)
    BY <2>1, <2>3 DEF Release, Ahead
  <2>4. ASSUME NEW b \in Callers, Acquired(b) PROVE Ahead(d, c)
    BY <2>0, <2>1, <2>4, LeaveKeepsOrder DEF Acquired
  <2>5. ASSUME NEW b \in Callers, Cancel(b) PROVE Ahead(d, c)
    <3>1. CASE pc' = [pc EXCEPT ![b] = "cancelled"]
      BY <1>1, <2>0, <3>1
    <3>2. CASE /\ Leave(b)
               /\ \/ WakeUp(value, value, [pc EXCEPT ![b] = "cancelled"])
                  \/ WakeUp(value + 1, value + 1, [pc EXCEPT ![b] = "cancelled"])
      BY <2>0, <2>1, <3>2, LeaveKeepsOrder
    <3> QED
      BY <2>3, <2>5, <3>1, <3>2 DEF Cancel
  <2>6. ASSUME NEW b \in Callers, Answer(b) \/ FailAttempt(b) PROVE Ahead(d, c)
    BY <2>3, <2>6 DEF Answer, FailAttempt
  <2>7. CASE UNCHANGED vars
    BY <1>1, <2>7 DEF vars
  <2> QED
    BY <1>1, <2>2, <2>4, <2>5, <2>6, <2>7 DEF Next, Begin, Proceed, Finished
<1>2. GeminiInv /\ GeminiInv' /\ [Next]_vars =>
        [\A c, d \in Callers :
           /\ pc[c] = "waiting" /\ pc'[c] = "waiting"
           /\ pc[d] \notin {"granted", "calling"} /\ pc'[d] \in {"granted", "calling"}
           => \E i, j \in DOMAIN queue : i < j /\ queue[i] = d /\ queue[j] = c]_vars
  BY <1>1 DEF Ahead
<1> QED
  BY <1>2, GeminiInvariance, PTL DEF Spec, FirstComeFirstServed
=============================================================================
