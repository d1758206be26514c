----------------------------- MODULE GeminiCalls -----------------------------
(***************************************************************************)
(* GeminiService: the calls of all sessions' agents share one              *)
(* asyncio.Semaphore.  A structured call takes a permit for each attempt,  *)
(* gives it back before the answer is validated and before tenacity's      *)
(* back-off, and tries again after any exception; a free-form call has one *)
(* attempt.  LangGraph cancels a branch whose sibling raised, wherever the *)
(* branch is: queued for a permit, handed one but not yet resumed, on the  *)
(* wire, or between two attempts.                                          *)
(*                                                                         *)
(* The semaphore is Python 3.12's: permits not held by anybody (value), a  *)
(* queue of futures, and a release that hands the permit to the first      *)
(* pending future, whose owner runs later.                                 *)
(***************************************************************************)
EXTENDS Naturals, FiniteSets, SequencesExt

CONSTANTS
  Callers,      \* agent runs that invoke the service
  Structured,   \* those that use invoke_structured
  Sibling,      \* the parallel branch of a caller; the caller itself if none
  Permits,      \* asyncio.Semaphore(8)
  MaxRetries    \* GEMINI_MAX_RETRIES

ASSUME CallersFinite == IsFiniteSet(Callers)
ASSUME SiblingInCallers == Sibling \in [Callers -> Callers]
ASSUME PermitsPositive == Permits \in Nat \ {0}
ASSUME RetriesPositive == MaxRetries \in Nat \ {0}

VARIABLES
  pc,        \* where each caller is
  attempt,   \* attempts each caller has begun
  value,     \* Semaphore._value
  queue      \* owners of Semaphore._waiters, first come first

vars == <<pc, attempt, value, queue>>

Phases == {"idle", "waiting", "granted", "calling", "backoff",
           "returned", "raised", "cancelled"}

Ended == {"returned", "raised", "cancelled"}

In(phases) == {c \in Callers : pc[c] \in phases}

Attempts(c) == IF c \in Structured THEN MaxRetries ELSE 1

Init ==
  /\ pc = [c \in Callers |-> "idle"]
  /\ attempt = [c \in Callers |-> 0]
  /\ value = Permits
  /\ queue = <<>>

-----------------------------------------------------------------------------
(* asyncio.Semaphore.                                                      *)

(* locked(): a newcomer waits its turn although a permit is free.          *)
Locked == value = 0 \/ queue # <<>>

(* Mutant: whoever waits may be woken.                                     *)
WakeAnybody(most, permits, phases) ==
  LET pending == {c \in Callers : phases[c] = "waiting"} IN
  \E woken \in SUBSET pending :
    /\ Cardinality(woken) <= most
    /\ Cardinality(woken) < most => woken = pending
    /\ value' = permits - Cardinality(woken)
    /\ pc' = [c \in Callers |-> IF c \in woken THEN "granted" ELSE phases[c]]

(* _wake_up_next, up to most times: the first pending futures of the queue *)
(* get the permits; phases is where everybody is otherwise.                *)
WakeUp(most, permits, phases) ==
  LET pending == {c \in Callers : phases[c] = "waiting"} IN
  \E woken \in SUBSET pending :
    /\ Cardinality(woken) <= most
    /\ Cardinality(woken) < most => woken = pending
    /\ \A i, j \in DOMAIN queue' :
         i < j /\ queue'[j] \in woken /\ queue'[i] \in pending
           => queue'[i] \in woken
    /\ value' = permits - Cardinality(woken)
    /\ pc' = [c \in Callers |-> IF c \in woken THEN "granted" ELSE phases[c]]

Leave(c) == \E i \in DOMAIN queue : queue[i] = c /\ queue' = RemoveAt(queue, i)

Release(phases) == queue' = queue /\ WakeUp(1, value + 1, phases)

-----------------------------------------------------------------------------
(* Calls.                                                                  *)

(* The next attempt asks for a permit: at once, or by queueing.            *)
Attempt(c) ==
  /\ pc[c] \in {"idle", "backoff"}
  /\ attempt' = [attempt EXCEPT ![c] = @ + 1]
  /\ \/ /\ ~Locked
        /\ value' = value - 1
        /\ pc' = [pc EXCEPT ![c] = "calling"]
        /\ UNCHANGED queue
     \/ /\ Locked
        /\ queue' = Append(queue, c)
        /\ pc' = [pc EXCEPT ![c] = "waiting"]
        /\ UNCHANGED value

(* Mutant: it takes its permit and wakes nobody.                           *)
AcquiredQuietly(c) ==
  /\ pc[c] = "granted"
  /\ Leave(c)
  /\ pc' = [pc EXCEPT ![c] = "calling"]
  /\ UNCHANGED <<attempt, value>>

(* A caller that was handed a permit runs, and wakes those that queued     *)
(* behind it although permits were free.                                   *)
Acquired(c) ==
  /\ pc[c] = "granted"
  /\ Leave(c)
  /\ WakeUp(value, value, [pc EXCEPT ![c] = "calling"])
  /\ UNCHANGED attempt

(* The model answers and the answer fits the schema.                       *)
Answer(c) ==
  /\ pc[c] = "calling"
  /\ Release([pc EXCEPT ![c] = "returned"])
  /\ UNCHANGED attempt

(* Mutant: one attempt too many.                                           *)
FailOnceMore(c) ==
  /\ pc[c] = "calling"
  /\ Release([pc EXCEPT
       ![c] = IF attempt[c] <= Attempts(c) THEN "backoff" ELSE "raised"])
  /\ UNCHANGED attempt

(* Mutant: failed attempts are not counted.                                *)
FailUncounted(c) ==
  /\ pc[c] = "calling"
  /\ Release([pc EXCEPT ![c] = "backoff"])
  /\ attempt' = [attempt EXCEPT ![c] = @ - 1]

(* The call fails or times out, or its answer does not fit: the permit is  *)
(* given back first, then tenacity waits, or reraises the last failure.    *)
FailAttempt(c) ==
  /\ pc[c] = "calling"
  /\ Release([pc EXCEPT
       ![c] = IF attempt[c] < Attempts(c) THEN "backoff" ELSE "raised"])
  /\ UNCHANGED attempt

(* Mutant: a permit handed to a caller that is cancelled before it runs is *)
(* not given back.                                                         *)
CancelKeepsPermit(c) ==
  LET phases == [pc EXCEPT ![c] = "cancelled"] IN
  /\ Sibling[c] # c /\ pc[Sibling[c]] = "raised"
  /\ \/ pc[c] \in {"idle", "backoff"} /\ pc' = phases /\ UNCHANGED <<value, queue>>
     \/ pc[c] \in {"waiting", "granted"} /\ Leave(c) /\ WakeUp(value, value, phases)
     \/ pc[c] = "calling" /\ Release(phases)
  /\ UNCHANGED attempt

(* CancelledError, which is no Exception, reaches the branch of a caller   *)
(* whose sibling raised.                                                   *)
Cancel(c) ==
  LET phases == [pc EXCEPT ![c] = "cancelled"] IN
  /\ Sibling[c] # c /\ pc[Sibling[c]] = "raised"
  /\ \/ pc[c] \in {"idle", "backoff"} /\ pc' = phases /\ UNCHANGED <<value, queue>>
     \/ pc[c] = "waiting" /\ Leave(c) /\ WakeUp(value, value, phases)
     \/ pc[c] = "granted" /\ Leave(c) /\ WakeUp(value + 1, value + 1, phases)
     \/ pc[c] = "calling" /\ Release(phases)
  /\ UNCHANGED attempt

Begin(c) == pc[c] = "idle" /\ Attempt(c)

Proceed(c) ==
  \/ pc[c] = "backoff" /\ Attempt(c)
  \/ Acquired(c)
  \/ Answer(c)
  \/ FailAttempt(c)

Finished == In(Ended) = Callers /\ UNCHANGED vars

Next ==
  \/ \E c \in Callers : Begin(c) \/ Proceed(c) \/ Cancel(c)
  \/ Finished

Spec == Init /\ [][Next]_vars

(* asyncio runs every ready task; GEMINI_REQUEST_TIMEOUT ends every call.  *)
FairSpec == Spec /\ \A c \in Callers : WF_vars(Proceed(c))

-----------------------------------------------------------------------------
TypeOK ==
  /\ pc \in [Callers -> Phases]
  /\ attempt \in [Callers -> 0 .. MaxRetries]
  /\ value \in 0 .. Permits
  /\ queue \in Seq(Callers)

(* No permit is lost or made: those nobody has and those that were handed  *)
(* out, the ones whose owner has not run yet included, are all there are.  *)
(* So at most Permits calls are on the wire, whatever is cancelled.        *)
PermitsConserved == value + Cardinality(In({"granted", "calling"})) = Permits

(* No wake-up is lost: while a permit is free and somebody waits, somebody *)
(* who was handed a permit is about to run and will pass the free one on.  *)
NoLostWakeup ==
  value > 0 /\ In({"waiting"}) # {} => In({"granted"}) # {}

(* First come, first served: a permit never goes to a caller while one     *)
(* that asked before it still waits.                                       *)
FirstComeFirstServed ==
  [][\A c, d \in Callers :
       /\ pc[c] = "waiting" /\ pc'[c] = "waiting"
       /\ pc[d] \notin {"granted", "calling"} /\ pc'[d] \in {"granted", "calling"}
       => \E i, j \in DOMAIN queue : i < j /\ queue[i] = d /\ queue[j] = c]_vars

(* Every call ends, by an answer, by its last failure or by cancellation.  *)
EveryCallEnds == \A c \in Callers : (pc[c] # "idle") ~> (pc[c] \in Ended)
=============================================================================
