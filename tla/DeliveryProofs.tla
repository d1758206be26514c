--------------------------- MODULE DeliveryProofs ---------------------------
(***************************************************************************)
(* What holds of OpenProjectDelivery for any number of runs, attempts and  *)
(* changes by other users.                                                 *)
(***************************************************************************)
EXTENDS OpenProjectDelivery, FiniteSetTheorems, TLAPS

LEMMA StepTypes ==
  ASSUME NEW a \in Agents, NEW s \in Steps
  PROVE  /\ StepAfter(a, s) \in Steps
         /\ FirstStep(a) \in Steps \ {"end"}
         /\ FirstStep(a) \in Files => FirstStep(a) \in Attached[a]
         /\ StepAfter(a, s) \in Files => StepAfter(a, s) \in Attached[a]
BY DEF StepAfter, StepAfterErd, FirstStep, Steps, Files

LEMMA Ranks ==
  /\ Rank["erd.mmd"] = 1 /\ Rank["migration.sql"] = 2 /\ Rank["comment"] = 3
  /\ Rank["read"] = 4 /\ Rank["transition"] = 5 /\ Rank["end"] = 6
  /\ \A s \in Steps : Rank[s] \in 1..6
BY DEF Rank, Steps, Files

(* Nothing that a run has to do is left out when it goes on.               *)
LEMMA Order ==
  ASSUME NEW a \in Agents, NEW s \in Steps, s # "end"
  PROVE  /\ Rank[s] < Rank[StepAfter(a, s)]
         /\ \A f \in Attached[a] :
              Rank[f] < Rank[StepAfter(a, s)] => Rank[f] <= Rank[s]
         /\ Rank[StepAfter(a, s)] > 3 => Rank[s] >= 3
         /\ s # "read" => (Rank[StepAfter(a, s)] < 5 => Rank[s] < 4)
         /\ s = "read" => StepAfter(a, s) = "transition"
         /\ \A f \in Attached[a] : ~ Rank[f] < Rank[FirstStep(a)]
         /\ Rank[FirstStep(a)] <= 3
BY Ranks, AttachedAssumption
   DEF StepAfter, StepAfterErd, FirstStep, Steps, Files

-----------------------------------------------------------------------------
LEMMA InitTypeOK == Init => TypeOK
<1> SUFFICES ASSUME Init PROVE TypeOK
  OBVIOUS
<1>1. 1 \in 1..MaxAttempts
  BY MaxAttemptsAssumption
<1>2. \A a \in Agents : FirstStep(a) \in Steps
  BY DEF FirstStep, StepAfterErd, Steps, Files
<1> QED
  BY <1>1, <1>2, MaxEditsAssumption
     DEF Init, TypeOK, Ready, CallStates, Outcomes

LEMMA InitDeliveryInv == Init => DeliveryInv
<1> SUFFICES ASSUME Init PROVE DeliveryInv
  OBVIOUS
<1>1. TypeOK
  BY InitTypeOK
<1>2. SentInOrder /\ OneShot
  BY DEF Init, SentInOrder, OneShot, FirstStep, StepAfterErd, Files
<1>3. OneLock
  BY DEF Init, OneLock
<1>4. LeftBehind
  <2> SUFFICES ASSUME NEW a \in Agents
               PROVE  /\ \A f \in Attached[a] :
                           Rank[f] < Rank[step[a]] => Landed(a, f)
                      /\ Rank[step[a]] > 3 => Landed(a, "comment")
                      /\ call[a].state = "ok" /\ step[a] # "read"
                           => Landed(a, step[a])
    BY DEF LeftBehind
  <2>1. step[a] = FirstStep(a) /\ call[a] = Ready
    BY DEF Init
  <2>2. \A f \in Attached[a] : ~ Rank[f] < Rank[FirstStep(a)]
    BY Order DEF Steps
  <2>3. ~ Rank[FirstStep(a)] > 3
    BY Ranks DEF FirstStep, StepAfterErd, Files
  <2> QED
    BY <2>1, <2>2, <2>3 DEF Ready
<1>5. EndsInPlace
  BY DEF Init, EndsInPlace, FirstStep, StepAfterErd
<1> QED
  BY <1>1, <1>2, <1>3, <1>4, <1>5 DEF DeliveryInv

-----------------------------------------------------------------------------
(* Each action keeps the types.                                            *)

LEMMA RequestType ==
  ASSUME TypeOK, NEW a \in Agents
  PROVE  Request(a) \in Attempts
BY DEF Request, TypeOK, Attempts

LEMMA AnswerType ==
  ASSUME TypeOK, NEW r \in Attempts, NEW kind \in {"ok", "error", "again"},
         Answer(r, kind)
  PROVE  call' \in [Agents -> [state : CallStates, version : Nat]]
BY DEF Answer, TypeOK, CallStates, Attempts

LEMMA TypeStep == TypeOK /\ [Next]_vars => TypeOK'
<1> SUFFICES ASSUME TypeOK, [Next]_vars PROVE TypeOK'
  OBVIOUS
<1>1. ASSUME NEW a \in Agents, Send(a) PROVE TypeOK'
  BY <1>1, RequestType DEF Send, TypeOK, Awaited, CallStates
<1>2. ASSUME NEW a \in Agents, Succeed(a) PROVE TypeOK'
  <2>1. StepAfter(a, step[a]) \in Steps
    BY StepTypes DEF TypeOK
  <2>2. step' \in [Agents -> Steps]
    BY <1>2, <2>1 DEF Succeed, TypeOK
  <2>3. attempt' \in [Agents -> 1..MaxAttempts]
    BY <1>2, MaxAttemptsAssumption DEF Succeed, TypeOK
  <2>4. /\ call' \in [Agents -> [state : CallStates, version : Nat]]
        /\ lock' \in [Agents -> Nat]
    BY <1>2 DEF Succeed, TypeOK, Ready, CallStates
  <2>5. outcome' \in [Agents -> Outcomes]
    BY <1>2 DEF Succeed, OutcomeOfSuccess, TypeOK, Outcomes
  <2> QED
    BY <1>2, <2>2, <2>3, <2>4, <2>5 DEF Succeed, TypeOK
<1>3. ASSUME NEW a \in Agents, Retry(a) PROVE TypeOK'
  BY <1>3, MaxAttemptsAssumption DEF Retry, TypeOK, Ready, CallStates
<1>4. ASSUME NEW a \in Agents, Fail(a) PROVE TypeOK'
  BY <1>4 DEF Fail, OutcomeOfFailure, TypeOK, Ready, CallStates, Outcomes
<1>5. CASE Die
  BY <1>5 DEF Die, TypeOK, Ready, CallStates, Outcomes
<1>6. ASSUME NEW r \in wire, Serve(r) PROVE TypeOK'
  <2>1. call' \in [Agents -> [state : CallStates, version : Nat]]
    BY <1>6, AnswerType DEF Serve, TypeOK
  <2>2. version' \in Nat
    BY <1>6 DEF Serve, TypeOK
  <2> QED
    BY <1>6, <2>1, <2>2 DEF Serve, TypeOK
<1>7. ASSUME NEW r \in wire, Refuse(r) PROVE TypeOK'
  <2>1. call' \in [Agents -> [state : CallStates, version : Nat]]
    BY <1>7, AnswerType DEF Refuse, TypeOK
  <2> QED
    BY <1>7, <2>1 DEF Refuse, TypeOK
<1>8. CASE Edit
  BY <1>8, MaxEditsAssumption DEF Edit, TypeOK
<1>9. CASE UNCHANGED vars
  BY <1>9 DEF vars, TypeOK
<1> QED
  BY <1>1, <1>2, <1>3, <1>4, <1>5, <1>6, <1>7, <1>8, <1>9
     DEF Next, Advance, Finished

-----------------------------------------------------------------------------
(* Each action keeps the rest of the invariant.                            *)

(* What is sent is new: no attempt on the wire or in effect has its name.  *)
LEMMA RequestIsNew ==
  ASSUME TypeOK, SentInOrder, NEW a \in Agents,
         outcome[a] = "open", call[a].state = "ready"
  PROVE  Request(a) \notin wire \cup ticket
<1> SUFFICES ASSUME Request(a) \in wire \cup ticket PROVE FALSE
  OBVIOUS
<1>1. SentBefore(Request(a))
  BY DEF SentInOrder
<1>2. step[a] \in Steps /\ attempt[a] \in Nat
  BY MaxAttemptsAssumption DEF TypeOK
<1> QED
  BY <1>1, <1>2, Ranks DEF SentBefore, Request

LEMMA SendKeepsInv ==
  ASSUME DeliveryInv, TypeOK', NEW a \in Agents, Send(a)
  PROVE  DeliveryInv'
<1>1. PICK q \in Attempts :
        q = [agent |-> a, step |-> step[a], attempt |-> attempt[a],
             lock |-> lock[a]]
  BY RequestType DEF DeliveryInv, Request
<1>2. q \notin wire \cup ticket
  BY <1>1, RequestIsNew DEF DeliveryInv, Send, Request
<1>3. /\ wire' = wire \cup {q} /\ ticket' = ticket
      /\ \A b \in Agents : call'[b] = IF b = a THEN Awaited ELSE call[b]
      /\ UNCHANGED <<step, attempt, lock, outcome, version>>
  BY <1>1 DEF Send, Request, DeliveryInv, TypeOK
<1>4. wire \cup ticket \subseteq Attempts
  BY DEF DeliveryInv, TypeOK
<1>5. SentInOrder'
  <2>1. (wire \cap ticket = {})'
    BY <1>2, <1>3 DEF DeliveryInv, SentInOrder
  <2>2. ASSUME NEW r \in wire \cup ticket PROVE SentBefore(r)'
    BY <1>3, <1>4 DEF DeliveryInv, SentInOrder, SentBefore, Attempts, Awaited
  <2>3. SentBefore(q)'
    BY <1>1, <1>3 DEF SentBefore, Awaited
  <2>4. q.step # "end"
    BY <1>1 DEF DeliveryInv, EndsInPlace, Send
  <2> QED
    BY <1>3, <2>1, <2>2, <2>3, <2>4 DEF DeliveryInv, SentInOrder
<1>6. OneShot'
  BY <1>1, <1>3 DEF DeliveryInv, OneShot
<1>7. OneLock'
  <2>1. step[a] # "transition" => lock[a] = 0
    BY Ranks DEF DeliveryInv, OneLock, EndsInPlace, TypeOK, Steps, Files, Send
  <2> QED
    BY <1>1, <1>3, <2>1 DEF DeliveryInv, OneLock
<1>8. LeftBehind'
  BY <1>3 DEF DeliveryInv, LeftBehind, Landed, Awaited
<1>9. EndsInPlace'
  BY <1>3 DEF DeliveryInv, EndsInPlace, Send
<1> QED
  BY <1>5, <1>6, <1>7, <1>8, <1>9 DEF DeliveryInv

LEMMA RetryKeepsInv ==
  ASSUME DeliveryInv, TypeOK', NEW a \in Agents, Retry(a)
  PROVE  DeliveryInv'
<1>1. /\ outcome[a] = "open" /\ step[a] \notin Files
      /\ \A b \in Agents : call'[b] = IF b = a THEN Ready ELSE call[b]
      /\ \A b \in Agents :
           attempt'[b] = IF b = a THEN attempt[b] + 1 ELSE attempt[b]
      /\ UNCHANGED <<step, lock, outcome, wire, ticket, version>>
  BY DEF Retry, Answered, DeliveryInv, TypeOK
<1>2. wire \cup ticket \subseteq Attempts /\ attempt \in [Agents -> Nat]
  BY DEF DeliveryInv, TypeOK
<1>3. SentInOrder'
  <2>1. ASSUME NEW r \in wire \cup ticket PROVE SentBefore(r)'
    <3>1. r.agent \in Agents /\ r.attempt \in Nat /\ SentBefore(r)
      BY <1>2 DEF Attempts, DeliveryInv, SentInOrder
    <3> QED
      BY <1>1, <1>2, <3>1 DEF SentBefore
  <2> QED
    BY <1>1, <2>1 DEF DeliveryInv, SentInOrder
<1>4. OneShot' /\ OneLock'
  BY <1>1 DEF DeliveryInv, OneShot, OneLock
<1>5. LeftBehind'
  BY <1>1 DEF DeliveryInv, LeftBehind, Landed, Ready
<1>6. EndsInPlace'
  BY <1>1 DEF DeliveryInv, EndsInPlace
<1> QED
  BY <1>3, <1>4, <1>5, <1>6 DEF DeliveryInv

LEMMA FailKeepsInv ==
  ASSUME DeliveryInv, TypeOK', NEW a \in Agents, Fail(a)
  PROVE  DeliveryInv'
<1>1. /\ outcome[a] = "open" /\ call[a].state # "ready"
      /\ \A b \in Agents : call'[b] = IF b = a THEN Ready ELSE call[b]
      /\ \A b \in Agents :
           outcome'[b] = IF b = a THEN OutcomeOfFailure(step[a])
                                  ELSE outcome[b]
      /\ UNCHANGED <<step, attempt, lock, wire, ticket, version>>
  BY DEF Fail, Answered, DeliveryInv, TypeOK
<1>2. /\ OutcomeOfFailure(step[a]) # "open"
      /\ OutcomeOfFailure(step[a]) = "raised" => step[a] \in Files
      /\ OutcomeOfFailure(step[a]) = "uncommented" => step[a] = "comment"
  BY DEF OutcomeOfFailure, Files
<1>3. SentInOrder'
  <2>1. ASSUME NEW r \in wire \cup ticket PROVE SentBefore(r)'
    <3>1. r.agent \in Agents /\ SentBefore(r)
      BY DEF Attempts, DeliveryInv, TypeOK, SentInOrder
    <3> QED
      BY <1>1, <1>2, <3>1 DEF SentBefore
  <2> QED
    BY <1>1, <2>1 DEF DeliveryInv, SentInOrder
<1>4. OneShot' /\ OneLock'
  BY <1>1 DEF DeliveryInv, OneShot, OneLock
<1>5. LeftBehind'
  BY <1>1 DEF DeliveryInv, LeftBehind, Landed, Ready
<1>6. EndsInPlace'
  BY <1>1, <1>2 DEF DeliveryInv, EndsInPlace
<1> QED
  BY <1>3, <1>4, <1>5, <1>6 DEF DeliveryInv

LEMMA DieKeepsInv ==
  ASSUME DeliveryInv, TypeOK', Die
  PROVE  DeliveryInv'
<1>1. /\ \A b \in Agents : call'[b] = Ready
      /\ \A b \in Agents :
           outcome'[b] = IF outcome[b] = "open" THEN "dead" ELSE outcome[b]
      /\ UNCHANGED <<step, attempt, lock, wire, ticket, version>>
  BY DEF Die
<1>2. SentInOrder'
  <2>1. ASSUME NEW r \in wire \cup ticket PROVE SentBefore(r)'
    <3>1. r.agent \in Agents /\ SentBefore(r)
      BY DEF Attempts, DeliveryInv, TypeOK, SentInOrder
    <3> QED
      BY <1>1, <3>1 DEF SentBefore
  <2> QED
    BY <1>1, <2>1 DEF DeliveryInv, SentInOrder
<1>3. OneShot' /\ OneLock'
  BY <1>1 DEF DeliveryInv, OneShot, OneLock
<1>4. LeftBehind'
  BY <1>1 DEF DeliveryInv, LeftBehind, Landed, Ready
<1>5. EndsInPlace'
  BY <1>1 DEF DeliveryInv, EndsInPlace
<1> QED
  BY <1>2, <1>3, <1>4, <1>5 DEF DeliveryInv

LEMMA SucceedKeepsInv ==
  ASSUME DeliveryInv, TypeOK', NEW a \in Agents, Succeed(a)
  PROVE  DeliveryInv'
<1> DEFINE next == StepAfter(a, step[a])
<1>1. /\ outcome[a] = "open" /\ call[a].state = "ok"
      /\ step[a] \in Steps /\ step[a] # "end"
      /\ \A b \in Agents : call'[b] = IF b = a THEN Ready ELSE call[b]
      /\ \A b \in Agents : step'[b] = IF b = a THEN next ELSE step[b]
      /\ \A b \in Agents : attempt'[b] = IF b = a THEN 1 ELSE attempt[b]
      /\ \A b \in Agents :
           outcome'[b] = IF b = a THEN OutcomeOfSuccess(a, step[a])
                                  ELSE outcome[b]
      /\ \A b \in Agents :
           lock'[b] = IF b = a /\ step[a] = "read" THEN call[a].version
                                                   ELSE lock[b]
      /\ UNCHANGED <<wire, ticket, version>>
  BY DEF Succeed, Answered, DeliveryInv, TypeOK, EndsInPlace
<1>2. next \in Steps /\ Rank[step[a]] < Rank[next]
  BY <1>1, StepTypes, Order
<1>3. Rank \in [Steps -> Nat]
  BY Ranks DEF Rank
<1>4. wire \cup ticket \subseteq Attempts /\ step \in [Agents -> Steps]
  BY DEF DeliveryInv, TypeOK
<1>5. ASSUME NEW r \in wire \cup ticket
      PROVE  /\ r.agent \in Agents /\ SentBefore(r)
             /\ r.agent = a => Rank[r.step] <= Rank[step[a]]
  BY <1>1, <1>3, <1>4 DEF Attempts, DeliveryInv, SentInOrder, SentBefore
<1>6. SentInOrder'
  <2>1. ASSUME NEW r \in wire \cup ticket PROVE SentBefore(r)'
    <3>1. CASE r.agent = a
      <4>1. Rank[r.step] < Rank[next]
        BY <1>1, <1>2, <1>3, <1>4, <1>5, <3>1 DEF Attempts
      <4> QED
        BY <1>1, <3>1, <4>1 DEF SentBefore
    <3>2. CASE r.agent # a
      BY <1>1, <1>5, <3>2 DEF SentBefore
    <3> QED
      BY <3>1, <3>2
  <2> QED
    BY <1>1, <2>1 DEF DeliveryInv, SentInOrder
<1>7. OneShot'
  <2>1. next \in Files => next \in Attached[a]
    BY <1>1, StepTypes
  <2> QED
    BY <1>1, <2>1 DEF DeliveryInv, OneShot
<1>8. OneLock'
  <2>1. \A b \in Agents : (Rank[step[b]] < 5 => lock[b] = 0)'
    <3>1. step[a] # "read" => (Rank[next] < 5 => Rank[step[a]] < 5)
      BY <1>1, <1>2, <1>3
    <3>2. step[a] = "read" => ~ Rank[next] < 5
      BY <1>1, Order, Ranks
    <3> QED
      BY <1>1, <3>1, <3>2 DEF DeliveryInv, OneLock
  <2>2. ASSUME NEW r \in wire \cup ticket, r.step = "transition",
               r.agent = a
        PROVE  step[a] # "read"
    BY <1>5, <2>2, Ranks
  <2>3. \A r \in wire \cup ticket :
          r.lock = IF r.step = "transition" THEN lock'[r.agent] ELSE 0
    BY <1>1, <1>5, <2>2 DEF DeliveryInv, OneLock
  <2> QED
    BY <1>1, <2>1, <2>3 DEF DeliveryInv, OneLock
<1>9. LeftBehind'
  <2> SUFFICES ASSUME NEW b \in Agents
               PROVE  (/\ \A f \in Attached[b] :
                            Rank[f] < Rank[step[b]] => Landed(b, f)
                       /\ Rank[step[b]] > 3 => Landed(b, "comment")
                       /\ call[b].state = "ok" /\ step[b] # "read" =>
                            Landed(b, step[b]))'
    BY DEF LeftBehind
  <2>1. CASE b # a
    BY <1>1, <2>1 DEF DeliveryInv, LeftBehind, Landed
  <2>2. CASE b = a
    <3>1. /\ \A f \in Attached[a] :
               Rank[f] < Rank[step[a]] => Landed(a, f)
          /\ Rank[step[a]] > 3 => Landed(a, "comment")
          /\ step[a] # "read" => Landed(a, step[a])
      BY <1>1 DEF DeliveryInv, LeftBehind
    <3>2. \A f \in Attached[a] :
            Rank[f] < Rank[next] =>
              Rank[f] < Rank[step[a]] \/ f = step[a]
      BY <1>1, Order, Ranks, AttachedAssumption DEF Steps, Files
    <3>3. Rank[next] > 3 => Rank[step[a]] > 3 \/ step[a] = "comment"
      BY <1>1, Order, Ranks DEF Steps, Files
    <3>4. \A f \in Attached[a] : f # "read"
      BY AttachedAssumption DEF Files
    <3>5. \A f \in Attached[a] : Rank[f] < Rank[next] => Landed(a, f)
      BY <3>1, <3>2, <3>4
    <3>6. Rank[next] > 3 => Landed(a, "comment")
      BY <3>1, <3>3
    <3> QED
      BY <1>1, <2>2, <3>5, <3>6 DEF Landed, Ready
  <2> QED
    BY <2>1, <2>2
<1>10. EndsInPlace'
  <2>1. OutcomeOfSuccess(a, step[a]) = "open" => next # "end"
    BY <1>1 DEF OutcomeOfSuccess, StepAfter, StepAfterErd, Steps, Files
  <2>2. OutcomeOfSuccess(a, step[a]) \notin {"raised", "uncommented"}
    BY DEF OutcomeOfSuccess
  <2> QED
    BY <1>1, <2>1, <2>2 DEF DeliveryInv, EndsInPlace
<1> QED
  BY <1>6, <1>7, <1>8, <1>9, <1>10 DEF DeliveryInv

(* An answer changes the state of the call that waits for it, and no other. *)
LEMMA AnswerEffect ==
  ASSUME DeliveryInv, NEW r \in wire, NEW kind \in {"ok", "error", "again"},
         Answer(r, kind)
  PROVE  \A b \in Agents :
           \/ call'[b] = call[b]
           \/ /\ b = r.agent /\ r.step = step[b] /\ outcome[b] = "open"
              /\ call[b].state # "ready" /\ call'[b].state = kind
<1>1. /\ r.agent \in Agents /\ call \in [Agents -> [state : CallStates, version : Nat]]
  BY DEF DeliveryInv, TypeOK, Attempts
<1>2. CASE call[r.agent] = Awaited /\ r = Request(r.agent)
  <2>1. r.step = step[r.agent] /\ outcome[r.agent] = "open"
    BY <1>1, <1>2 DEF Request, DeliveryInv, EndsInPlace, Awaited, Ready
  <2> QED
    BY <1>1, <1>2, <2>1 DEF Answer, Awaited
<1>3. CASE ~ (call[r.agent] = Awaited /\ r = Request(r.agent))
  BY <1>3 DEF Answer
<1> QED
  BY <1>2, <1>3

LEMMA ServeKeepsInv ==
  ASSUME DeliveryInv, TypeOK', NEW r \in wire, Serve(r)
  PROVE  DeliveryInv'
<1>1. PICK kind \in {"ok", "error", "again"} : Answer(r, kind)
  BY DEF Serve
<1>2. /\ wire' = wire \ {r}
      /\ ticket' = IF r.step = "read" THEN ticket ELSE ticket \cup {r}
      /\ version' >= version
      /\ r.step = "transition" => r.lock = version /\ version' = version + 1
      /\ version \in Nat /\ version' \in Nat
      /\ UNCHANGED <<step, attempt, lock, outcome>>
  BY DEF Serve, DeliveryInv, TypeOK
<1>3. \A b \in Agents :
        \/ call'[b] = call[b]
        \/ /\ b = r.agent /\ r.step = step[b] /\ outcome[b] = "open"
           /\ call[b].state # "ready" /\ call'[b].state = kind
  BY <1>1, AnswerEffect
<1>4. wire \cup ticket \subseteq Attempts
  BY DEF DeliveryInv, TypeOK
<1>5. (wire \cup ticket)' \subseteq wire \cup ticket
  BY <1>2
<1>6. SentInOrder'
  <2>1. ASSUME NEW q \in wire \cup ticket PROVE SentBefore(q)'
    <3>1. q.agent \in Agents /\ SentBefore(q)
      BY <1>4 DEF Attempts, DeliveryInv, SentInOrder
    <3>2. call'[q.agent].state = "ready" => call[q.agent].state = "ready"
      BY <1>3, <3>1
    <3> QED
      BY <1>2, <3>1, <3>2 DEF SentBefore
  <2>2. (wire \cap ticket = {})'
    BY <1>2 DEF DeliveryInv, SentInOrder
  <2> QED
    BY <1>2, <1>5, <2>1, <2>2 DEF DeliveryInv, SentInOrder
<1>7. OneShot'
  BY <1>2, <1>5 DEF DeliveryInv, OneShot
<1>8. OneLock'
  <2>1. ASSUME NEW q \in ticket, q.step = "transition",
               r.step = "transition", q.agent = r.agent
        PROVE  FALSE
    <3>1. q.lock = lock[r.agent] /\ r.lock = lock[r.agent]
      BY <2>1 DEF DeliveryInv, OneLock
    <3>2. q.lock < version
      BY <2>1 DEF DeliveryInv, OneLock
    <3> QED
      BY <1>2, <2>1, <3>1, <3>2
  <2>2. \A q \in ticket' : q.step = "transition" => q.lock < version'
    <3>1. \A q \in ticket : q.lock \in Nat
      BY <1>4 DEF Attempts
    <3> QED
      BY <1>2, <3>1 DEF DeliveryInv, OneLock
  <2> QED
    BY <1>2, <1>5, <2>1, <2>2 DEF DeliveryInv, OneLock
<1>9. LeftBehind'
  <2>1. \A b \in Agents, s \in Steps \cup {"comment"} :
          Landed(b, s) => Landed(b, s)'
    BY <1>2 DEF Landed
  <2>2. ASSUME NEW b \in Agents, call'[b].state = "ok", step[b] # "read"
        PROVE  Landed(b, step[b])'
    <3>1. CASE call'[b] = call[b]
      <4>1. Landed(b, step[b])
        BY <2>2, <3>1 DEF DeliveryInv, LeftBehind
      <4> QED
        BY <1>2, <4>1 DEF Landed
    <3>2. CASE b = r.agent /\ r.step = step[b]
      BY <1>2, <2>2, <3>2 DEF Landed
    <3> QED
      BY <1>3, <3>1, <3>2
  <2>3. \A b \in Agents : Attached[b] \subseteq Steps
    BY AttachedAssumption DEF Steps
  <2> QED
    BY <1>2, <2>1, <2>2, <2>3 DEF DeliveryInv, LeftBehind
<1>10. EndsInPlace'
  BY <1>2, <1>3 DEF DeliveryInv, EndsInPlace
<1> QED
  BY <1>6, <1>7, <1>8, <1>9, <1>10 DEF DeliveryInv

LEMMA RefuseKeepsInv ==
  ASSUME DeliveryInv, TypeOK', NEW r \in wire, Refuse(r)
  PROVE  DeliveryInv'
<1>1. PICK kind \in {"error", "again"} : Answer(r, kind)
  BY DEF Refuse
<1>2. /\ wire' = wire \ {r}
      /\ UNCHANGED <<step, attempt, lock, outcome, ticket, version>>
  BY DEF Refuse
<1>3. \A b \in Agents :
        \/ call'[b] = call[b]
        \/ /\ outcome[b] = "open" /\ call[b].state # "ready"
           /\ call'[b].state = kind
  BY <1>1, AnswerEffect
<1>4. SentInOrder'
  <2>1. ASSUME NEW q \in wire \cup ticket PROVE SentBefore(q)'
    <3>1. q.agent \in Agents /\ SentBefore(q)
      BY DEF Attempts, DeliveryInv, TypeOK, SentInOrder
    <3>2. call'[q.agent].state = "ready" => call[q.agent].state = "ready"
      BY <1>3, <3>1
    <3> QED
      BY <1>2, <3>1, <3>2 DEF SentBefore
  <2> QED
    BY <1>2, <2>1 DEF DeliveryInv, SentInOrder
<1>5. OneShot' /\ OneLock'
  BY <1>2 DEF DeliveryInv, OneShot, OneLock
<1>6. LeftBehind'
  BY <1>2, <1>3 DEF DeliveryInv, LeftBehind, Landed
<1>7. EndsInPlace'
  BY <1>2, <1>3 DEF DeliveryInv, EndsInPlace
<1> QED
  BY <1>4, <1>5, <1>6, <1>7 DEF DeliveryInv

LEMMA EditKeepsInv ==
  ASSUME DeliveryInv, TypeOK', Edit
  PROVE  DeliveryInv'
<1>1. /\ version' = version + 1 /\ version \in Nat
      /\ UNCHANGED <<step, attempt, call, lock, outcome, wire, ticket>>
  BY DEF Edit, DeliveryInv, TypeOK
<1>2. SentInOrder' /\ OneShot'
  BY <1>1 DEF DeliveryInv, SentInOrder, SentBefore, OneShot
<1>3. OneLock'
  <2>1. \A r \in ticket : r.lock \in Nat
    BY DEF DeliveryInv, TypeOK, Attempts
  <2> QED
    BY <1>1, <2>1 DEF DeliveryInv, OneLock
<1>4. LeftBehind' /\ EndsInPlace'
  BY <1>1 DEF DeliveryInv, LeftBehind, Landed, EndsInPlace
<1> QED
  BY <1>2, <1>3, <1>4 DEF DeliveryInv

-----------------------------------------------------------------------------
(* The theorems.                                                           *)

LEMMA InvStep == DeliveryInv /\ [Next]_vars => DeliveryInv'
<1> SUFFICES ASSUME DeliveryInv, [Next]_vars PROVE DeliveryInv'
  OBVIOUS
<1>1. TypeOK'
  BY TypeStep DEF DeliveryInv
<1>2. CASE UNCHANGED vars
  BY <1>2 DEF vars, DeliveryInv, TypeOK, SentInOrder, SentBefore, OneShot,
              OneLock, LeftBehind, Landed, EndsInPlace
<1> QED
  BY <1>1, <1>2, SendKeepsInv, SucceedKeepsInv, RetryKeepsInv, FailKeepsInv,
     DieKeepsInv, ServeKeepsInv, RefuseKeepsInv, EditKeepsInv
     DEF Next, Advance, Finished

(* The invariant that explains why a delivery works holds for any runs,    *)
(* any number of attempts and any changes by others.                       *)
THEOREM DeliveryInvariance == Spec => []DeliveryInv
BY InitDeliveryInv, InvStep, PTL DEF Spec

(* The types of the runs, the wire and the ticket.                         *)
THEOREM DeliveryTypeCorrectness == Spec => []TypeOK
<1>1. DeliveryInv => TypeOK
  BY DEF DeliveryInv
<1>2. QED
  BY <1>1, DeliveryInvariance, PTL

(* However late the attempts of a call are handled, a file is attached and *)
(* a status changed at most once, and a comment at most MaxAttempts times. *)
THEOREM BoundedEffects == Spec => []EffectsBounded
<1>1. DeliveryInv => EffectsBounded
  <2> SUFFICES ASSUME DeliveryInv, NEW a \in Agents, NEW s \in Steps
               PROVE  Cardinality(Effects(a, s)) <=
                        IF s = "comment" THEN MaxAttempts ELSE 1
    BY DEF EffectsBounded
  <2>1. ticket \subseteq Attempts
    BY DEF DeliveryInv, TypeOK
  <2>2. CASE s = "comment"
    <3> DEFINE name == [r \in Effects(a, s) |-> r.attempt]
    <3>1. /\ IsFiniteSet(1..MaxAttempts)
          /\ Cardinality(1..MaxAttempts) = MaxAttempts
      BY FS_Interval, MaxAttemptsAssumption
    <3>2. \A q, r \in Effects(a, s) : q.attempt = r.attempt => q = r
      BY <2>1, <2>2 DEF Effects, Attempts, DeliveryInv, OneLock
    <3>3. name \in Injection(Effects(a, s), 1..MaxAttempts)
      BY <2>1, <3>2 DEF Injection, IsInjective, Effects, Attempts
    <3> HIDE DEF name
    <3>4. Cardinality(Effects(a, s)) <= Cardinality(1..MaxAttempts)
      BY <3>1, <3>3, FS_Injection
    <3> QED
      BY <2>2, <3>1, <3>4
  <2>3. CASE s # "comment"
    <3>1. \A q, r \in Effects(a, s) : q = r
      BY <2>1, <2>3 DEF Effects, Attempts, DeliveryInv, SentInOrder, OneShot,
                        OneLock, Steps
    <3>2. CASE Effects(a, s) = {}
      BY <2>3, <3>2, FS_EmptySet
    <3>3. ASSUME NEW r \in Effects(a, s)
          PROVE  Cardinality(Effects(a, s)) = 1
      <4>1. Effects(a, s) = {r}
        BY <3>1
      <4> QED
        BY <4>1, FS_Singleton
    <3> QED
      BY <2>3, <3>2, <3>3
  <2> QED
    BY <2>2, <2>3
<1> QED
  BY <1>1, DeliveryInvariance, PTL

-----------------------------------------------------------------------------
(* The delivery implements the promise to the readers.                     *)

LEMMA ThereIsLanded ==
  ASSUME NEW a \in Agents, NEW s
  PROVE  s \in There[a] <=> Landed(a, s)
BY DEF There, Landed

LEMMA InitIsPromised == Init => Promise!Init
BY DEF Init, Promise!Init, There

(* A run that sends a call has left the earlier ones behind.               *)
LEMMA EarlierLanded ==
  ASSUME DeliveryInv, NEW r \in wire
  PROVE  /\ r.agent \in Agents
         /\ r.step \in Steps
         /\ Rank[r.step] <= Rank[step[r.agent]]
         /\ \A f \in Attached[r.agent] :
              Rank[f] < Rank[r.step] => Landed(r.agent, f)
         /\ Rank[r.step] > 3 => Landed(r.agent, "comment")
<1>1. r.agent \in Agents /\ r.step \in Steps /\ step[r.agent] \in Steps
  BY DEF DeliveryInv, TypeOK, Attempts
<1>2. Rank[r.step] <= Rank[step[r.agent]]
  BY <1>1, Ranks DEF DeliveryInv, SentInOrder, SentBefore
<1>3. \A f \in Attached[r.agent] : f \in Steps
  BY <1>1, AttachedAssumption DEF Steps
<1> QED
  BY <1>1, <1>2, <1>3, Ranks DEF DeliveryInv, LeftBehind

(* An attempt that takes effect shows the readers something that may be    *)
(* shown, or nothing new.                                                  *)
LEMMA ServeIsPromised ==
  ASSUME DeliveryInv, NEW r \in wire, Serve(r)
  PROVE  [Promise!Next]_(Promise!vars)
<1> DEFINE a == r.agent
<1>1. /\ a \in Agents
      /\ r.step \in Steps
      /\ Rank[r.step] <= Rank[step[a]]
      /\ \A f \in Attached[a] : Rank[f] < Rank[r.step] => f \in There[a]
      /\ Rank[r.step] > 3 => "comment" \in There[a]
  BY EarlierLanded, ThereIsLanded
<1>2. UNCHANGED outcome /\ r.step # "end"
  BY DEF Serve, DeliveryInv, SentInOrder
<1>3. step[a] \in Steps /\ Attached[a] \subseteq Files
  BY <1>1, AttachedAssumption DEF DeliveryInv, TypeOK
<1>4. CASE r.step = "read"
  BY <1>2, <1>4 DEF Serve, There, Promise!vars
<1>5. ASSUME r.step # "read" PROVE Promise!Show(a, r.step)
  <2>1. ticket' = ticket \cup {r}
    BY <1>5 DEF Serve
  <2>2. There' = [There EXCEPT ![a] = @ \cup {r.step}]
    BY <1>1, <2>1 DEF There
  <2> QED
    BY <1>2, <2>2 DEF Promise!Show
<1>6. CASE r.step \in Files
  <2>1. r.step \in Attached[a]
    BY <1>6 DEF DeliveryInv, OneShot
  <2>2. r.step = "migration.sql" => Attached[a] \subseteq There[a] \cup {r.step}
    BY <1>1, <1>3, Ranks DEF Files
  <2>3. Promise!ShowFile(a, r.step)
    BY <1>5, <1>6, <2>1, <2>2 DEF Promise!ShowFile, Files
  <2> QED
    BY <1>1, <2>1, <2>3 DEF Promise!Next
<1>7. CASE r.step = "comment"
  <2>1. Attached[a] \subseteq There[a]
    BY <1>1, <1>3, <1>7, Ranks DEF Files
  <2>2. outcome[a] # "raised"
    BY <1>1, <1>7, Ranks DEF DeliveryInv, EndsInPlace, Files
  <2>3. Promise!ShowComment(a)
    BY <1>5, <1>7, <2>1, <2>2 DEF Promise!ShowComment
  <2> QED
    BY <1>1, <2>3 DEF Promise!Next
<1>8. CASE r.step = "transition"
  <2>1. "comment" \in There[a]
    BY <1>1, <1>8, Ranks
  <2>2. outcome[a] \notin {"raised", "uncommented"}
    BY <1>1, <1>8, Ranks DEF DeliveryInv, EndsInPlace, Files
  <2>3. Promise!ShowTransition(a)
    BY <1>5, <1>8, <2>1, <2>2 DEF Promise!ShowTransition
  <2> QED
    BY <1>1, <2>3 DEF Promise!Next
<1> QED
  BY <1>1, <1>2, <1>4, <1>6, <1>7, <1>8 DEF Steps

(* A run that ends by its last call reports what is there.                 *)
LEMMA SucceedIsPromised ==
  ASSUME DeliveryInv, NEW a \in Agents, Succeed(a)
  PROVE  [Promise!Next]_(Promise!vars)
<1> DEFINE v == OutcomeOfSuccess(a, step[a])
<1>1. There' = There
  BY DEF Succeed, There
<1>2. /\ outcome[a] = "open"
      /\ outcome' = [outcome EXCEPT ![a] = v]
      /\ step[a] \in Steps
      /\ step[a] # "read" => step[a] \in There[a]
  BY ThereIsLanded DEF Succeed, Answered, DeliveryInv, TypeOK, LeftBehind
<1>3. \A f \in Attached[a] : Rank[f] < Rank[step[a]] => f \in There[a]
  BY ThereIsLanded, AttachedAssumption DEF DeliveryInv, LeftBehind, Files
<1>4. Rank[step[a]] > 3 => "comment" \in There[a]
  BY ThereIsLanded DEF DeliveryInv, LeftBehind
<1>5. CASE v = "open"
  BY <1>1, <1>2, <1>5 DEF Promise!vars, DeliveryInv, TypeOK
<1>6. CASE v # "open"
  <2>1. \/ step[a] = "comment" /\ v = "delivered"
        \/ step[a] = "transition" /\ v = "transitioned"
    BY <1>6 DEF OutcomeOfSuccess
  <2>2. Attached[a] \cup {"comment"} \subseteq There[a]
    BY <1>2, <1>3, <1>4, <2>1, Ranks, AttachedAssumption DEF Files
  <2>3. Promise!Conclude(a, v)
    BY <1>1, <1>2, <2>1, <2>2 DEF Promise!Conclude
  <2> QED
    BY <2>1, <2>3 DEF Promise!Next, Promise!Verdicts
<1> QED
  BY <1>5, <1>6

(* A run that ends by a failure reports no more than what is there.        *)
LEMMA FailIsPromised ==
  ASSUME DeliveryInv, NEW a \in Agents, Fail(a)
  PROVE  Promise!Next
<1> DEFINE v == OutcomeOfFailure(step[a])
<1>1. There' = There
  BY DEF Fail, There
<1>2. /\ outcome[a] = "open"
      /\ outcome' = [outcome EXCEPT ![a] = v]
      /\ step[a] \in Steps /\ step[a] # "end"
  BY DEF Fail, Answered, DeliveryInv, TypeOK, EndsInPlace
<1>3. \A f \in Attached[a] : Rank[f] < Rank[step[a]] => f \in There[a]
  BY ThereIsLanded, AttachedAssumption DEF DeliveryInv, LeftBehind, Files
<1>4. Rank[step[a]] > 3 => "comment" \in There[a]
  BY ThereIsLanded DEF DeliveryInv, LeftBehind
<1>5. ASSUME NEW s \in There[a]
      PROVE  s \in Steps /\ Rank[s] <= Rank[step[a]]
  <2>1. PICK r \in ticket : r.agent = a /\ r.step = s
    BY <1>5 DEF There
  <2>2. s \in Steps /\ SentBefore(r)
    BY <2>1 DEF DeliveryInv, TypeOK, Attempts, SentInOrder
  <2> QED
    BY <1>2, <2>1, <2>2, Ranks DEF SentBefore
<1>6. CASE step[a] \in Files
  <2>1. v = "raised" /\ "comment" \notin There[a]
    BY <1>5, <1>6, Ranks DEF OutcomeOfFailure, Files
  <2> QED
    BY <1>1, <1>2, <2>1 DEF Promise!Conclude, Promise!Next, Promise!Verdicts
<1>7. CASE step[a] = "comment"
  <2>1. v = "uncommented" /\ "transition" \notin There[a]
    BY <1>5, <1>7, Ranks DEF OutcomeOfFailure, Files
  <2>2. Attached[a] \subseteq There[a]
    BY <1>3, <1>7, Ranks, AttachedAssumption DEF Files
  <2> QED
    BY <1>1, <1>2, <2>1, <2>2
       DEF Promise!Conclude, Promise!Next, Promise!Verdicts
<1>8. CASE step[a] \in {"read", "transition"}
  <2>1. v = "delivered"
    BY <1>8 DEF OutcomeOfFailure, Files
  <2>2. Attached[a] \cup {"comment"} \subseteq There[a]
    BY <1>3, <1>4, <1>8, Ranks, AttachedAssumption DEF Files
  <2> QED
    BY <1>1, <1>2, <2>1, <2>2
       DEF Promise!Conclude, Promise!Next, Promise!Verdicts
<1> QED
  BY <1>2, <1>6, <1>7, <1>8 DEF Steps

LEMMA StepIsPromised ==
  DeliveryInv /\ [Next]_vars => [Promise!Next]_(Promise!vars)
<1> SUFFICES ASSUME DeliveryInv, [Next]_vars
             PROVE  [Promise!Next]_(Promise!vars)
  OBVIOUS
<1>1. ASSUME UNCHANGED <<ticket, outcome>> PROVE UNCHANGED Promise!vars
  BY <1>1 DEF There, Promise!vars
<1>2. ASSUME NEW a \in Agents, Send(a) \/ Retry(a)
      PROVE  UNCHANGED <<ticket, outcome>>
  BY <1>2 DEF Send, Retry
<1>3. CASE Die
  BY <1>3 DEF Die, There, Promise!Die, Promise!Next
<1>4. ASSUME NEW r \in wire, Refuse(r)
      PROVE  UNCHANGED <<ticket, outcome>>
  BY <1>4 DEF Refuse
<1>5. Edit \/ Finished \/ UNCHANGED vars => UNCHANGED <<ticket, outcome>>
  BY DEF Edit, Finished, vars
<1> QED
  BY <1>1, <1>2, <1>3, <1>4, <1>5, ServeIsPromised, SucceedIsPromised,
     FailIsPromised
     DEF Next, Advance

(* Files first, then the comment, then the status, and no report of what   *)
(* is not there: whatever the network does, the delivery keeps what        *)
(* TicketPromise says.                                                     *)
THEOREM PromiseKept == Spec => KeepsPromise
BY InitIsPromised, StepIsPromised, DeliveryInvariance, PTL
   DEF Spec, KeepsPromise, Promise!Spec
=============================================================================
