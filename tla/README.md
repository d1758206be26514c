# db_gerador: verification project

`db_gerador` is a FastAPI backend that analyses a customer's database with LLM
agents, proposes a relational model, waits for a human to approve or reject it,
and on approval puts a diagram, an SQL script and a comment on an OpenProject
work package. This directory holds TLA+ modules translated from its source, the
TLC configurations that check them, and theorems about them that TLAPS checks.

Contents: 1 inventory, 2 modules and their correspondence to the code, 3 runs
and bounds, 4 fairness, 5 proofs, 6 what the runs show about the documentation,
7 abstractions, 8 what is not modelled or not proved, 9 what could follow.

## 1. Inventory

Paths are under `src/backend/`.

| Component | State | Operations | Hard behaviour | Correct when |
|---|---|---|---|---|
| Workflow graph (`workflows/graph.py`, `nodes.py`, `state.py`) | channel values of a running graph, in memory | ten nodes, fan-out, join, gate, loop | nodes await between their writes; two branches run in parallel; the loop reuses channels | a node never lacks its inputs; the merge sees both branches; an old decision is never reused |
| Engine and checkpointer (`workflows/engine.py`, `checkpointer.py`, LangGraph) | latest checkpoint of a session's thread | `start`, `approve`, `reject` (update_state, then ainvoke) | two resumptions of one thread; a checkpoint saved under a decision's feet; a crash between row and checkpoint | whatever is loaded can run; at rest the checkpoint agrees with the row |
| Approval API (`api/routes/analysis.py`) | a handler's loaded row, background tasks | `start`, `retake`, `approve`, `reject`, GET routes | the status is tested but not moved; the background task runs after the answer; answers are put together from three tables | nothing passes the gate undecided; each decision has its effect once; the routes tell one story |
| Repository (`repositories/`, `persistence/`) | `analysis_sessions`, `analysis_artifacts`, `analysis_logs`, `encrypted_credentials` | one commit per write, `latest_session_for_task` | separate transactions; the ORM writes only changed columns; `created_at` is not the order of commits | statuses tell the truth about artifacts; retakes form chains |
| OpenProject (`agents/openproject_agent.py`, `services/openproject/`) | the remote ticket, its lockVersion | two uploads, comment, optional transition | one-shot uploads, retried comment, swallowed failures | what is posted is what was approved |
| Gemini service (`services/llm/gemini.py`) | semaphore of 8 | `invoke_structured`, `invoke_text` | retries that give the permit back; a branch is cancelled by its sibling anywhere | permits are never lost; nobody is overtaken; every call ends |
| Credential vault (`security/credentials.py`) | ciphertexts with an expiry | encrypt, decrypt, token variants, purge | two clock readings; expiry during a session | an expired credential is never used, and a session needs its credential once |
| SQL generator, migration agent (`services/rendering/sql_generator.py`) | none | model to ordered DDL, both scripts and the downgrade | foreign keys between tables created in any order; two notations of a primary key | the script can be executed and builds the model |
| Introspector, connector (`services/database/`) | one connection | read the schema, table by table | the database changes between two reads | what is read lies between two real schemas |
| Diagram agent, Mermaid renderer | none | model to prompt to diagram | key tags in two notations | what is shown is what is built |
| Sanitizer, prompts, config, logging, middleware, wiring, migrations | none of interest | - | - | - |

Interaction: `POST /analysis/start` commits a row and queues a background task
that drives the graph up to the gate. The graph persists its status, its
snapshot and its artifacts in short transactions of its own, and LangGraph saves
a checkpoint after each superstep. A client polls the row. `approve` and
`reject` are handlers that test the row, commit the decision and queue another
background task, which writes the decision into the latest checkpoint and runs
the graph from there. Nothing but the row's status keeps these tasks apart.
Sessions meet in four places: the Gemini semaphore, the OpenProject ticket, the
`analysis_sessions` table (a retake looks for the latest session of its ticket)
and the customer's database, which one session reads and the script of another
changes.

`PROJECT.json` lists every hazard at its line, with the properties that cover it
or the reason why none does.

## 2. Modules

| Module | What it is |
|---|---|
| `AnalysisGraph` | the enumerations, the nodes, the edges, the status each node persists |
| `AnalysisWorkflow` | one session: row, snapshot, artifacts, checkpoint, ticket and every task that acts on them |
| `ReviewLoop` | the abstract promise to a reviewer: propose, reject, approve, deliver, close, up to the first failure |
| `PatientReview` | `AnalysisWorkflow` under reviewers that decide only when the session is at rest; the answers of the GET routes; the refinement mapping to `ReviewLoop` |
| `OpenProjectDelivery` | what `AddComment` and the uploads of `AnalysisWorkflow` stand for: the HTTP calls of the agent's runs, their attempts, answers and late effects on one work package |
| `TicketPromise` | the abstract promise to the readers of the work package |
| `GeminiCalls` | the semaphore, the attempts and the cancellations behind every agent's call |
| `SessionsOnTicket` | many sessions: the handlers of start and retake, lineage, credentials and the comments on shared tickets |
| `SqlGenerator` | the generator as operators: plan, upgrade, downgrade, the diagram's key tags |
| `PostgresCatalog` | when a generated statement fails and what it makes of a catalog |
| `CustomerDatabase` | composes the last two with the introspector, `psql`, Alembic and other people |
| `DocumentedPromises` | sentences of the documentation that the code does not keep |
| `AnalysisInductive`, `PatientInductive` | the inductive invariants of `AnalysisWorkflow` and `PatientReview` |
| `AnalysisProofs`, `PatientProofs`, `LoopProofs`, `DeliveryProofs`, `GeminiProofs`, `SessionsProofs`, `DatabaseProofs`, `ScriptProofs` | the theorems |
| `MC*` | the instances for TLC |

### One session (`AnalysisWorkflow`)

| Variable | Code |
|---|---|
| `row` | the columns of `analysis_sessions` that decisions depend on |
| `snapshot` | `result_snapshot` of that row: the model and the two recommendation lists |
| `artifacts` | what `latest_artifact` returns per type (0: none) |
| `checkpoint` | the channel values of the thread's latest checkpoint and the nodes it has left to run |
| `ticket` | what the OpenProject work package received, in order |
| `pc[p]` | where the start task or a request is: handler, queued background task, `aupdate_state`, `ainvoke`, or its end |
| `request[r]` | a request's decision, the columns its handler loaded, and the diagram that could be seen at that time |
| `vals[p]`, `task[p]` | the channel values and the phases of the nodes in the graph that task `p` runs |
| `proposals`, `faults` | history: the feedback each model answers; the number of failures so far |

Models are numbered in the order in which they are made, and a diagram, script,
recommendation or post is represented by the number of the model it came from:
that is all that "the approved model's script" needs. The agent's IR keeps only
the feedback it was made under.

A step lasts from one `await` that lets another task in to the next one:
`EnterNode` is the `_persist_status` each node begins with, then one action per
node does the work and returns. Nodes with several visible effects have several
actions: `GenerateErd`/`AnnounceErd` (artifact, then `awaiting_approval`),
`UploadErd`/`UploadSql`/`AddComment`/`Complete`. `Superstep` is LangGraph's end
of a superstep: save the checkpoint, then stop before the gate, stop at END, or
schedule what follows. A decision is `AcceptDecision` (load and test the row) or
`RefuseDecision`, `CommitDecision` (write and commit, queue), `UpdateStateRead`
and `UpdateStateWrite` (`aupdate_state`), `Resume` (`ainvoke(None)`). `Raise` is
an exception in any of these, `Crash` the death of the server: memory is lost,
and nothing in `main.py` resumes a session.

`PatientReview` adds the answers of the GET routes as expressions over these
variables (`GetStatus`, `GetDiagram`, `GetSql`, `GetAnalysis`), and what is true
of them if a decision is only sent while nothing of the session is at work. The
backend does not enforce that, and section 6 shows what happens without it.

### The delivery (`OpenProjectDelivery`)

It details the four steps of `update_openproject` down to attempts. A run of the
agent is at one call (`step`): the upload of `erd.mmd`, of `migration.sql`, the
comment, then, if it was constructed with a `completion_status_id`, the read of
the lockVersion and the PATCH of the status (`main.py` passes no
`completion_status_id`; the agent's class takes one, and both kinds of run are
modelled). `Send` puts an attempt on the `wire`; `Serve` and `Refuse` are
OpenProject handling it, at any time, also after the sender gave it up; an
attempt that is lost is one that is never handled. `Retry` is `AsyncRetrying`
(5xx or transport error, not for uploads, which bypass it); `Fail` is an
exception and what the agent makes of it. `ticket` is the set of attempts that
took effect: the same call twice is two elements.

`TicketPromise` has no attempts, wire or answers: only what readers can see of
each run and how the run ended. The mapping forgets how often an entry is there.

### The model's calls (`GeminiCalls`)

`value` and `queue` are `_value` and `_waiters` of the one `asyncio.Semaphore`;
`pc[c]` says whether a call waits in the queue, was handed a permit and has not
run yet (`granted`), is on the wire, or sleeps between two attempts. `WakeUp` is
`_wake_up_next`, called by a release, by a waiter that runs while permits are
free, and by a waiter that is cancelled. A structured call takes a permit for
each attempt (`Attempt`, `FailAttempt`) and tenacity's wait happens without one;
`invoke_text` has one attempt. `Cancel` is LangGraph cancelling a branch whose
`Sibling` raised, at each of the places where the branch can be.

### Sessions on a ticket (`SessionsOnTicket`)

A handler's transaction begins (`Begin`: PostgreSQL's `now()`, which becomes
`created_at`), a retake selects the latest session (`Select`), and session and
credential become visible together (`Commit`): `begun` has the order of the
first, `rows` that of the last. The session's task asks for a live credential
(`Ask`) and opens it (`Open`) by two readings of the clock; `age` is where the
credential's `expires_at` is relative to now, the very instant included, because
the code compares with `>` on both sides. A rejection goes back past the
introspection, so `Ask` happens once. `Deliver` posts the comment that names the
parent session, or gives it up.

### The customer's database (`CustomerDatabase`)

`SqlGenerator.Plan` is the order of `MigrationStep`s that both the `.sql` script
and the Alembic `upgrade` spell out, `Downgrade` the reverse; `PostgresCatalog`
says of each statement when it fails and what it changes. `reading` is an
introspection: `ListTables`, then five reads per table (`ReadPart`), every one
at its own moment. `Propose` is a session that answers with any of `Models` and
delivers its script; `StartScript`/`Statement` is `psql -f`, statement by
statement, `AlembicUpgrade`/`AlembicDowngrade` one transaction; `Other` is
anybody else.

## 3. Runs and bounds

| Run | Question | Bounds | States |
|---|---|---|---|
| `concurrent` | what holds however two decisions and a pausing graph interleave, with one failure anywhere | 2 requests (symmetric), 1 feedback, 1 fault | 400,814 |
| `patient` | for reviewers that wait: does the workflow implement `ReviewLoop` up to the first failure; is what is delivered what was shown, through failures and crashes | 3 requests, 2 feedbacks, 2 faults | 102,791 |
| `delivery` | is nothing attached or moved twice, in order, truly reported, and does every run end | 1 run, both files, status change, 3 attempts as in the code, 2 changes by others | 254,637 |
| `gemini` | are permits conserved, in order and never idle, and does every call end | 5 callers, two of them sibling branches, 2 permits, 2 attempts | 69,928 |
| `sessions` | lineage, history and credentials of sessions on shared tickets | 1 start and 2 retakes (symmetric), 2 tickets (symmetric), 1 fault | 2,880,886 |
| `database` | do scripts run, restore and show what was approved; is a schema read while the database changes a real one | 4 models, 2 sessions, one existing table, 1 change by others out of 5 | 521,787 |
| six violation runs | section 6 | - | - |

Why these bounds are enough to see the interesting cases.

- `concurrent`, `patient`: every race in this code is between two decisions, or
  between one decision and the graph that is still pausing; two requests give
  both, and both at once. In `patient` three requests give reject, reject,
  approve: two turns of the loop, so that channels, lists and decisions left by
  one turn meet the next, and a turn after that. Two feedback texts tell
  "answers this feedback" from "answers some feedback"; `concurrent` needs no
  second one because none of its properties reads it. One fault at every point is
  every way to lose a task or to separate row, artifact and checkpoint; two
  faults also lose the decision that follows.
- `delivery`: two changes by others are one before and one after the run reads
  the lockVersion; three attempts let the first and the second be late together.
- `gemini`: with five callers and two permits, up to three queue; one waiter can
  be cancelled while another has been handed a permit and a third waits behind
  both. Two attempts give a retry that meets a full queue.
- `sessions`: two retakes can select before either commits, and a third session
  gives them something to select; two tickets tell "latest" from "latest of the
  ticket".
- `database`: the models are two tables that refer to each other (one through a
  unique index), a table that refers to one it does not list, the same with the
  existing table listed, and an empty answer. The changes by others add a table
  in the way of the script, add one with a composite key, add a foreign key, and
  drop a table the script made or one that was there.

What the safety theorems prove holds for every value of these bounds.

Properties, by run:

- `concurrent`: `TypeOK`; `IInv` (section 5); `InputsPresent` (the "Missing
  project_ir / relational_model" errors cannot happen); `GateNeedsApproval`;
  `PausedUndecided` (a graph paused before the gate holds no earlier decision);
  `StatusIsTrue` (`awaiting_approval` implies a diagram, `completed` a saved and
  posted script); `BranchesJoined`; `NeverBack` (a running graph only moves on
  along the topology, so every run ends).
- `patient`: `PInv` (section 5); `ScriptWasShown`; `ScreensAgree` (while the
  status asks for a decision, diagram, actions and analysis are of one model;
  in `completed` the script is that of the diagram); `RestAgrees` (at rest the
  checkpoint holds what the routes show); `CompletedIsFinal`;
  `ImplementsReviewLoop`, liveness included.
- `delivery`: `TypeOK`; `DeliveryInv` (section 5); `EffectsBounded` (a file
  once, a status once although the PATCH is retried, a comment once per
  attempt); `KeepsPromise` (the refinement of `TicketPromise`); `EveryRunEnds`.
- `gemini`: `TypeOK`; `PermitsConserved`; `NoLostWakeup`;
  `FirstComeFirstServed`; `EveryCallEnds`.
- `sessions`: `TypeOK`; `LineageGoesBack` (no chain of retakes closes or leaves
  its ticket); `OpenedInTime`; `CommentsAreAHistory` (on a ticket whose callers
  wait for each comment, each retake's comment names the session of the comment
  before it); `NeededOnce`.
- `database`: `TypeOK`; `ScriptBuildsTheModel` (whatever the order of the
  model's tables); `SchemaInTime`; `ShownAsBuilt` (a later session reads of each
  table what the diagram's prompt said of it for the reviewer, unless somebody
  interfered with the script); and `DowngradeRestores`.

`CHECK_DEADLOCK` stays on everywhere: `Finished` is the only way to stop, and it
requires that nothing is left to do.

## 4. Fairness

`FairSpec` and `FairPatientSpec` add weak fairness of `Proceed(p)` for the start
task and for each request that has been accepted. A ready asyncio task is run
again by the event loop, and every call it awaits has a timeout or an answer; a
call that fails is a fault. After a fault `ReviewLoop` is in its stage `broken`
and promises nothing more: the code really does nothing more (section 6).
Nothing is assumed of reviewers: no fairness on `Decide` or `StartAnalysis`.

In `OpenProjectDelivery` only the runs are fair. An attempt ends by its answer or
by httpx's timeout (`OPENPROJECT_TIMEOUT`), and the waits of `wait_exponential`
are at most 8 seconds. Nothing is assumed of the server or the network: `Serve`
and `Refuse` may never happen. (httpx's timeout is one per read, so a server that
trickles single bytes for ever is excluded.)

In `GeminiCalls` each caller's `Proceed` is fair: asyncio resumes a task whose
future is done, tenacity's waits are bounded, and `GEMINI_REQUEST_TIMEOUT` ends a
call that gets no answer. Neither the beginning of a call nor a cancellation is
fair.

`SessionsOnTicket` and `CustomerDatabase` state no liveness and no fairness.

## 5. Proofs

All theorems hold for every value of the constants that satisfies the named
assumptions of their module (the start task is not a request, `None` is no
feedback, retakes are calls, bounds are natural numbers, permits and retries are
positive, and the like). `CustomerDatabase` assumes besides that the agents'
models are records of lists, as their schema has it (`ModelsAssumption`), that
the database begins as a catalog, without an index or a foreign key of a table
that is not there (`BeforeAssumption`), and that other people run statements of
the five kinds the catalog knows (`OthersAssumption`). Nothing is assumed of the
contents of a model; `WellFormed` is a hypothesis of the one property that needs
it, and what the modeling agent's prompt asks for.

| Module | Theorem | What it establishes |
|---|---|---|
| `AnalysisProofs` | `Invariance` | `[](TypeOK /\ IInv)` |
| | `TypeCorrectness` | `[]TypeOK` |
| | `InputsArePresent` | `[]InputsPresent` |
| | `HumanGate` | `[]GateNeedsApproval` |
| | `PausedGraphsAreUndecided` | `[]PausedUndecided` |
| | `StatusesAreTrue` | `[]StatusIsTrue` |
| | `BranchesAreJoined` | `[]BranchesJoined` |
| | `GraphsMoveOn` | `NeverBack` |
| `PatientProofs` | `PatientInvariance` | `[]PInv`, under `PatientSpec` |
| | `ScriptsWereShown`, `ScreensAlwaysAgree`, `RestingSessionsAgree` | `[]ScriptWasShown`, `[]ScreensAgree`, `[]RestAgrees` |
| | `CompletedStaysFinal` | `CompletedIsFinal` |
| `LoopProofs` | `ReviewLoopFollowed` | `FollowsReviewLoop`: `PatientReview` implements the safety part of `ReviewLoop` |
| `DeliveryProofs` | `DeliveryInvariance`, `DeliveryTypeCorrectness`, `BoundedEffects` | `[]DeliveryInv`, `[]TypeOK`, `[]EffectsBounded` |
| | `PromiseKept` | `KeepsPromise`: `OpenProjectDelivery` implements `TicketPromise` |
| `GeminiProofs` | `GeminiInvariance`, `GeminiTypeCorrectness` | `[]GeminiInv`, `[]TypeOK` |
| | `PermitConservation`, `WakeupsAreNotLost` | `[]PermitsConserved`, `[]NoLostWakeup` |
| | `FirstComeIsFirstServed` | `FirstComeFirstServed` |
| `SessionsProofs` | `SessionsInvariance`, `SessionsTypeCorrectness` | `[]SessionsInv`, `[]TypeOK` |
| | `LineageIsAForest`, `CredentialsOpenInTime` | `[]LineageGoesBack`, `[]OpenedInTime` |
| | `CredentialsAreNeededOnce` | `NeededOnce` |
| | `HistoryInvariance`, `CommentsMakeAHistory` | `[]HistoryInv`, `[]CommentsAreAHistory` |
| `DatabaseProofs` | `ReadingInvariance`, `SchemasAreInTime` | `[]ReadingInv`, `[]SchemaInTime` |
| `ScriptProofs` | `ScriptInvariance`, `DatabaseTypeCorrect` | `[]ScriptInv`, `[]TypeOK` |
| | `ScriptsBuildTheirModels`, `BuiltTablesAreShown` | `[]ScriptBuildsTheModel`, `[]ShownAsBuilt` |
| | `DowngradesRestore` | `DowngradeRestores` |

**`AnalysisProofs`.** None of the properties is inductive by itself. A node's
inputs are present because of what the previous superstep returned, and after a
resumption because of what the checkpoint holds, which another task may have
written. `IInv` says so in six parts: `GraphsSound` (each running graph is in
one superstep; `Ready` holds of a node about to work and `Returned` of one that
has returned), `CheckpointSound` (`Ready` holds of everything the checkpoint has
left to run), `DecisionsFollowModel` (no decision is accepted before a diagram
exists, and from then on every copy of the channel values has a model: this is
why even a decision that overtakes the pause finds its inputs), `RequestsSound`,
`DeliverySound` and `SnapshotSound`. `TypeOK` itself needs `RequestsSound`, for
the decision that `CommitDecision` writes. `NodeStep` shows once, action by
action, that each step of a node has one common form (`NodeEffect`), and the
preservation of most of `IInv` follows from that form alone; `Advance` shows that
what a finished superstep leads to is ready, including the join of the two
branches; the runtime's and the requests' steps have one lemma each; `Inductive`
puts them together.

**`PatientProofs`.** A patient reviewer's steps are steps of `AnalysisWorkflow`,
so `IInv` is inherited. What patience adds is `OneDriver`: one task at a time
acts on the session. From it follows what `PInv` says and `concurrent` refutes:
the model in the driver's memory, the checkpoint's, the snapshot's and the
artifacts' move in step, the row's status tells how far they have come, a
decision on its way was made on the diagram that is still shown, and at most one
delivery ever begins. `ScriptWasShown`, `ScreensAgree` and `RestAgrees` are
parts or consequences; `CompletedIsFinal` holds because a completed session's
driver has nothing left but its last superstep.

**`LoopProofs`.** Up to the first failure each step is a step of the loop or a
stutter. This needs `LInv` besides: every copy of the channel values on the way
from a rejection to its proposal carries the feedback that was asked for
(request, checkpoint, IR, model), and the length of the ticket is the phase of
`update_openproject`. A step that makes `faults` positive maps to `Break`.

**`DeliveryProofs`.** `EffectsBounded` alone does not say what is still on the
wire. `DeliveryInv` says that whatever was ever sent belongs to a call the run
has left behind or to an attempt it has made (`SentInOrder`, so that a new
attempt is new), that a file's attempts are all the first (`OneShot`), that all
attempts to move the status carry the one lockVersion the run read, which the
first to take effect makes stale (`OneLock`), and that a call left behind has
taken effect (`LeftBehind`). The refinement maps `Serve` to a step that shows
something, the end of a run to `Conclude`, and everything else to a stutter.

**`GeminiProofs`.** `GeminiInv` adds to the properties that the queue holds
exactly the callers that wait or were handed a permit, each once, and that who
may still try has an attempt left. The lemma `HandingOn` covers every step that
wakes somebody, whatever its cause; `NoLostWakeup` survives a cancellation
because the cancelled waiter passes its permit on. For `FirstComeFirstServed`,
`WokenInOrder` compares two waiters, one woken and one not, and
`LeaveKeepsOrder` takes the comparison back to the queue before the step.

**`SessionsProofs`.** `LineageGoesBack` follows from: rows are committed, and
what a retake has selected was committed on its ticket. The history of comments
needs an invariant of its own (`HistoryInv`), about tickets whose callers wait:
whoever began before another call of the ticket is over (`OneAtATime`), so
comments come in the order of `begun` (`CommentsInOrder`) and a retake took up
the last session committed before it (`TakesUpTheLast`). If a retake's parent
were not the session of the comment before, the parent would have begun between
the two, would be over, and so would have a comment between the two.

**`DatabaseProofs`.** `ReadingInv` says of each fact that was there when the
reading began that it has been read, or that its table is left and has not been
asked for it; and that, unless something was dropped, everything read is still
there. At the end no table is left, which is `SchemaInTime`.

**`ScriptProofs`.** What holds when a script has ended says nothing about one
that is half-way through, so neither `ScriptBuildsTheModel` nor `TypeOK` is
inductive. `RunningInv` says of a script that nobody has disturbed that the
catalog is the one it began with and what the first `at - 1` statements of its
plan make (`Made`), and that each of them was in place when its turn came;
`ResultInv` says of an ended one that it succeeded exactly if every statement of
its plan is in place in its turn (`RunsThrough`). Both hold of any model. Then:

- `PlanShape` says where in the plan everything is: each `create_index` behind
  the `create_table` of its table, every foreign key behind all of them.
- `WellFormedRunsThrough`: if the parts of a model fit together and its names are
  free, then whatever a statement refers to stands before it and no name that it
  takes is taken, so the plan runs through; `MadeAll` says that what it has made
  is the model, `With(m, d)`. This is `ScriptBuildsTheModel`.
- `TablesOfTheirOwn`: in a plan that runs through, no two tables have one name,
  so what a later introspection reads of a name is one table of the model
  (`TagsOfOneTable`), and `ReadingInv` puts it into the schema: `ShownAsBuilt`.
- `DowngradeShape` and `DowngradeDrops`: the downgrade drops the constraints
  first and the tables in reverse, and each of its statements finds what it
  drops. `UnmadeAll`: what is left is the catalog before the upgrade, because the
  tables that were there did not have the names, and no foreign key of theirs
  can have pointed to a table that did not exist (`IsCatalog`). This is
  `DowngradeRestores`.

A plan (`FlattenSeq`) and a transaction (`Transaction`) are recursive functions
on sequences of any length. What they compute is proved without an induction
rule that takes a predicate: `Induction` is about the set of the numbers for
which a fact holds, and follows from the least number outside of it, which
exists because `<` is well-founded. `FlattenSeqTogether` and
`TransactionFollows` rest on it.

The attempt to prove `ShownAsBuilt` showed that it had claimed too much: somebody
who drops a table of the script and creates another of that name before the
script ends leaves a script that succeeded with a table nobody approved. The
instance, with one change by others, had hidden it. The property now speaks of
scripts that ran alone (`result.alone`), as `ScriptBuildsTheModel` always did.

## 6. What the documentation says and the code does not do

Each is a sentence of the README or of a comment, refuted by a run of its own.

- `early_approval`: an approve sent as soon as the status says
  `awaiting_approval` can be lost. The status is persisted inside `generate_erd`,
  before the checkpoint of that superstep; a resumption in between is overtaken
  by that checkpoint. No failure is needed.
- `crashed_pause`: a crash in the same window; the script is later uploaded
  without the diagram.
- `repeated_approval`: approving twice delivers twice.
- `approve_reject_race`: with an approve and a reject accepted together, the
  script of a model nobody has seen can be delivered.
- `stale_recommendations`: proposed actions keep the recommendations on rejected
  models.
- `existing_tables`: the script "with the changes" creates every table of the
  model, the existing ones that it changes or refers to included, and fails on
  the schema it was made for.

Observed while modelling and not made a run: `FAILED` and the `errors` column
are never written, so a client that polls a failed session waits for ever; a
session completes though its comment could not be posted; the row's
`approval_state` stays `rejected` when the next proposal awaits approval;
`GET /analysis/{id}` reads `openproject_update` from a snapshot that is written
before there is one; `README.md:18` and `:35` describe deterministic Mermaid
rendering, but the diagram comes from the LLM agent and `MermaidRenderer` is
constructed and never called.

## 7. Abstractions

`AnalysisWorkflow`, `PatientReview`:

- One session per model: sessions share no row, thread or artifact.
- A checkpoint is saved before the next superstep starts. LangGraph's default
  overlaps the two; that only lengthens the windows that are modelled.
- The writes of one branch of a half-finished parallel superstep, which LangGraph
  keeps for a resumption, are not modelled; no decision resumes there.
- Two graphs on one thread: the checkpoint saved last is the latest one.
- A branch's return value reaches its graph's channel values at once; the two
  branches write different channels and read neither.
- The channel `status` is written and never read, and is left out.
- Introspection and the ticket's description are inputs of `validate_input`;
  their failure is a `Raise`. Log events are left out.
- An upload and the comment's POST are one step each; that an upload may arrive
  after its run has raised, that the comment may be there twice, or be there
  although the run reports it missing, is the matter of `OpenProjectDelivery`.
  The completion status transition comes after the comment, is caught when it
  fails and changes nothing that the session records.
- A GET route reads its tables in one step.

`OpenProjectDelivery`: the server handles an attempt at most once and as a whole.
A 4xx status and a 2xx answer that is not JSON have the same effect on the run
and are one answer, "error". A comment or a file may or may not move the
lockVersion.

`GeminiCalls`: the semaphore is that of Python 3.12 (`Dockerfile:1`). A cancelled branch's way out of the semaphore is one step. Prompts,
answers and their validation are "fits" or "does not fit".

`SessionsOnTicket`: two transactions have different `now()`s. A credential's
lifetime is positive, and its age is followed while somebody may still read it.
A session's inserts and its commit are one step; the rest of a session is
`AnalysisWorkflow`'s, reduced to proposing, rejecting and delivering.

`CustomerDatabase`: a column is its name, whether it is required and whether it
is unique; types, defaults, comments, referential actions and CHECK constraints
are left out, and with them the introspector's sixth read, `get_check_constraints`.
The names of implicit indexes never collide. `psql` runs with `ON_ERROR_STOP`;
an Alembic revision is one transaction. Reads see what is committed at that moment.

## 8. Not modelled, not proved

Only model-checked: liveness (`Progress` of `ReviewLoop` in
`ImplementsReviewLoop`, `EveryRunEnds`, `EveryCallEnds`), which needs `ENABLED`
and is out of the prover's reach. Every invariant and every action property that
a passing run checks is a theorem.

Not modelled, with the reasons in `PROJECT.json`: the sanitizer (a rewriting of
strings), wiring, configuration, logging and middleware, the database migrations,
prompts and field declarations, `MermaidRenderer` and `link_attachments` (nobody
calls them), the token variants and the purge of the vault (no session depends on
them).

## 9. What could follow

- Several sessions on one checkpointer connection and one pool
  (`checkpointer.py:24`, `nodes.py:116`), once it is decided what the saver
  should do with a dropped connection.
- The GET routes as several reads each (`analysis.py:278`).
- If the code is changed so that `approve` moves the status it tests, the runs of
  section 6 become theorems to prove in `AnalysisWorkflow` rather than in
  `PatientReview`.
