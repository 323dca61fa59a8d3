# ChatGPT Cursor Bridge: TLA+ models and proofs

The repository is a bridge between a chat assistant in the browser and a project
on the user's disk. A browser extension shows proposals; a local FastAPI server
(`local-bridge/`) turns each into an *approval request*, and only a request that
the user approves is run. On top of the queue sit an engineering workflow whose
stages need approval, an execution loop that plans, proposes, executes, verifies,
learns and can be rolled back, and some twenty services that keep documents,
databases and logs of their own and are changed through the same queue.

This directory models the bridge in TLA+, checks the models with TLC on small
instances and proves the main invariants with TLAPS for every value of the
constants.

    tlc -workers 2 -config ApprovalRace.cfg MCApprovalStore.tla
    tlapm ApprovalStoreProofs.tla

- [Why this code is hard](#why-this-code-is-hard)
- [Components](#components)
- [Modules](#modules): [queue](#approvalstore), [workflow](#workflowmanager),
  [loop](#executionloop), [order of work](#executiondag-and-taskdependencies),
  [documents and files](#what-is-kept-on-disk), [endpoints, queue and log](#routes-gateway-and-records),
  [claims and measures](#what-is-computed-and-judged), [assistant](#assistant-and-chat),
  [organization](#strategy-and-orggraph), [extension](#extension)
- [Runs](#runs), [bounds](#bounds), [fairness](#fairness)
- [Proofs](#proofs)
- [What the code does and its documents do not say](#what-the-code-does-and-its-documents-do-not-say)
- [Not modelled](#not-modelled), [plan](#plan)

## Why this code is hard

All endpoints are plain `def` functions, so FastAPI runs them on a thread pool.
They share the stores, but each request builds managers, storages and event buses
of its own, so that a lock in one of them excludes nobody. Where a store is
shared, it guards a single load or a single save, not the pair: an operation
*loads* a row or a document, tests and edits its *copy*, and *saves the whole of
it*. Whatever another thread saved in between is overwritten, its status
included. In addition

- one request touches several stores (the approval row, the workflow's document,
  the task, the result, the snapshot, the loop, the project's files, the audit
  log) in separate commits, so that an error or a crash leaves some of them done;
- several operations act first and check afterwards: a proposal is saved before
  the task's move is checked, files are restored before the loop's move is;
- after a restart the queue, the loops and the runtimes are recovered (a pending
  request must be reconfirmed, a running runtime is paused), while nothing is
  known of the threads that died;
- a request has a time to live, and rows expire only when some call sweeps them;
- ids are made of the second of their creation in several layers, so that two
  objects may share one;
- logs are lines of JSON, which a crash may cut off anywhere;
- the extension keeps a state of its own, in every tab, and its calls time out
  while the server goes on.

Hence the shape of the models: an operation is a sequence of steps, one per
critical section, commit or file operation, and the copy that a thread holds is
part of the state. Where a race or a crash really can break a promise, a history
variable says which rows it touched (`stale`, `contested`, `crossed`,
`disturbed`, ...), no guard reads it, and the property says what remains true and
that *only* such an event can undo it.

## Components

M = modelled, P = partly, - = not modelled. `PROJECT.json` lists each component's
files, and the hazards of the code with the line where each bites and the
properties that are about it.

| | component | state | operations | meets | what must hold |
|-|-|-|-|-|-|
| M | Approval queue (`security/permissions.py`, `/permission/*`) | SQLite rows with a status and an expiry | create, list, approve, reject, reconfirm, bind, void, mark executed/failed, recover, expire | everything that writes | an action is run only on an approval, at most once, never after the time to live, after a restart only when reconfirmed; decisions are final |
| M | Engineering workflow (`workflow/`) | a JSON document per workflow: status, stages, bound requests, agents, gate | start stage, report, bind, request approval, approve, reject, cancel, attach agent/test/gate | queue (stage approval runs the bound batch), agents, rollback | stages are approved only with consent, DELIVERY only with a gate, terminal states are final, document and rows agree |
| M | Execution loop (`execution_loop/`) | a row per loop: status, task ids, proposal, result, memory flag | create, prepare, on_executed, verify, recover, rollback, startup recovery | queue, controlled execution, snapshots, memory | what a loop says it did was done and can be undone |
| P | Controlled execution (`execution/`) | rows of tasks, proposals, results; snapshot files | plan, generate_proposal, execute, verify, recovery of the tables | queue, loop, project files | a task runs after a snapshot, once per planning |
| M | Stage snapshots and rollback (`workflow/rollback.py`) | a snapshot file per stage and request | capture, preview, restore | queue, workflow | restore gives back the state before the stage |
| M | Execution DAG (`execution_dag/`) | a row per DAG: loops, edges, status | create, ready_loops, advance, on_loop_completed | loop | acyclic; a loop is prepared only when what it depends on is COMPLETED |
| M | Sessions (`session/`), runtimes (`runtime/`), P: agents (`agent/`) | JSON documents and rows with a status and a history | create, transition, startup recovery | queue, workflow, events | legal moves, terminal states, no runtime that resumes by itself |
| M | Tasks and dependency graph (`task/`) | rows; a JSONL file of edges | create, transition; add edge, has_cycle | events | no cycle of dependencies; a completion is announced once |
| P | Collaboration and event bus | teams, a journal of conflicts, an event log | create and move a team, raise and resolve a conflict, publish | tasks, runtimes | a resolution stands; who is named exists |
| P | HTTP endpoints, permission levels, actions (`main.py`, `*/routes.py`) | the queue beside the audit log | some 280 endpoints, `_register_pending`, `permission_approve`, `_execute_action` | everything | the tables agree; queue and log tell the same; nothing runs that was not approved |
| M | Audit log (`audit/logger.py`) | JSONL and its archive | record, rotation, recovery | all | no entry is lost |
| P | Maintenance, backup, hardening | backup directories, recovery directory | startup, backup, middleware | all | nothing is served without a backup |
| P | Memory service (`memory/`) | Markdown documents, an index | initialise, append, append_decision | queue, rollback | append-only, decisions numbered in order |
| P | File, patch, git and test services | the project's files | effects of approved actions | queue | a diff means what it says or is refused |
| P | LLM gateway (`llm_gateway/`) | conversations | chat, stream, per vendor | assistant, vendors | an answer is whole, a failure is told |
| P | Assistant (`assistant/`) | key file, credentials, preferences | configure, activate, choose, forget, chat | queue, gateway | keys open, one of each, what was forgotten is gone |
| P | Browser extension | cards, per tab, and one stored copy | hydrate, capture, approve, reject, refresh, persist | queue | no card is decided twice |
| P | Intelligence governance | records, findings, violations, proposals, memory | preview, evaluate, review, gate 14 | queue, validation | a claim of high risk comes before a human |
| P | Intelligence validation | evaluations, benchmarks, improvements | record, run, propose, list, gate 13 | queue | the measures add up; only what was approved counts |
| P | Organization strategy | strategies, evaluations, simulations, decisions | create, evaluate, simulate, select, supersede | queue, organization graph | nothing is selected without a decision |
| P | Organization graph | entities, nodes, edges, snapshots | register, sync, snapshot, restore, search | queue, strategy | a tree, whoever is asked and whatever was restored |
| P | Technical debt, benchmarks, validations | one record each | create, transition | queue | legal moves only |
| - | Context engine; intelligence observation and analysis; project governance reports; simulation, planning and quality; engineering graph, code index, demo, replay, export, release; deployment and web stub | reports, indexes, packaging | see [below](#not-modelled) | queue, for what they persist | deterministic |

How they interact: every effect starts as a request in the queue.
`permission_approve` writes APPROVED, then `_execute_action` dispatches on the
action: a plain effect, an operation of the loop or of execution, a move of some
record, or `workflow_stage_approval`, which approves the requests bound to the
stage, advances the document and runs them one by one. A stage's request is
captured before it runs. The outcome is written back as EXECUTED or FAILED and
then to the audit log. Approving an `execution_execute` request calls the executor
and then the loop's `on_executed` hook; a simulation plan or a recorded execution
queues a memory request of its own. At start the maintenance service checks the
log, makes a backup and calls `recover_pending`, the runtimes are paused and the
loop's recovery marks interrupted loops RECOVERED.

## Modules

| module | what it is | checked by |
|-|-|-|
| `ApprovalLifecycle` | the queue as a user sees it: decisions are atomic | as a property of `ApprovalStore` |
| `ApprovalStore` | the queue as it is: threads, copies, crashes, expiry | `MCApprovalStore`, 3 runs |
| `WorkflowManager` | one workflow's document and the rows bound to it | `MCWorkflowManager`, 4 runs |
| `LoopLifecycle` | a loop as the rest of the system sees it | as a property of `ExecutionLoop`; the loops of `ExecutionDag` |
| `ExecutionLoop` | one loop, its plan's tasks, proposals, results, snapshots, files | `MCExecutionLoop`, 2 runs |
| `AcyclicEdges` | edges, and that they have no cycle | used by the next two |
| `ExecutionDag`, `TaskDependencies` | the order of loops, the graph of tasks | `MCServices` |
| `Coordination` | documents with a status, and the event log | `MCStores` |
| `StageRollback`, `Memory`, `AuditTrail`, `Backups`, `Conflicts` | snapshots, decisions, log, copies, conflicts | `MCStores` |
| `Routes`, `Gateway` | the tables of endpoints and actions; a row from the call to the last line | `MCStores` |
| `Records` | debt items, benchmarks, validations, moved by requests | `MCStores` |
| `Patch`, `Chat` | diffs, chats and streams | `MCAnalysis` |
| `Governance`, `Validation`, `Improvements` | claims judged, measured, learned | `MCAnalysis` |
| `Assistant` | keys, credentials, preferences | `MCServices` |
| `Strategy`, `OrgGraph` | the organization's strategies and its graph | `MCServices` |
| `Extension` | the browser extension's cards | `MCServices` |
| `ApprovalStoreProofs`, `WorkflowManagerProofs`, `ExecutionLoopProofs` | theorems of one component each | TLAPS |
| `ServicesProofs` | theorems of `ExecutionDag`, `TaskDependencies`, `Assistant`, `Strategy`, `OrgGraph` | TLAPS |
| `RequestProofs` | theorems of `Gateway`, `Records`, `Coordination` | TLAPS |
| `StoresProofs` | theorems of `StageRollback`, `Conflicts`, `Backups`, `Memory`, `AuditTrail` | TLAPS |
| `AnalysisProofs` | theorems of `Improvements`, `Chat`, `Governance`, `Patch`, `Validation` | TLAPS |
| `ExtensionProofs` | the theorem of `Extension` | TLAPS |

Definitions marked *Slip* in a comment are not part of a model: each is what a
plausible mistake would make of the definition it precedes, and shows that the
properties notice it.

The small modules are independent of each other: what they have in common in the
program (the queue that approves, the process that dies) is the subject of
`ApprovalStore`, `WorkflowManager` and `Gateway`, and enters them as "an approved
request comes at any time". Hence `MCServices`, `MCStores` and `MCAnalysis` do not
interleave them: a variable `focus`, chosen at the start, says which one moves.

### ApprovalStore

`status` is the column of that name, `bound` whether the row carries a workflow,
stage or session id, `due` the rows whose `expires_at` has passed, `boot` the
process, and `call[h]` what thread `h` is doing: the operation, the request, the
point between two critical sections, and the copy (`seen`, `seenBound`).

| code | actions |
|-|-|
| `create`, time passing, `list_pending` | `Create`, `TtlElapses`, `ListPending` |
| `/permission/approve`: `expire_due`, `get`, `mark_approved`, `_execute_action`, `mark_executed` / `mark_failed` | `BeginApprove`, `Get`, `WriteApproved`, `RunSucceeds` / `RunFails` / `RunFailsSilently` / `RunBreaks`, `GetExecuted`, `WriteExecuted`, `GetFailed`, `WriteFailed` |
| `reconfirm`, `reject`, `attach_binding` / `attach_session`, cascades of `mark_failed` | `BeginReconfirm` ... `WriteReconfirmed`, `BeginReject` ... `WriteRejected`, `BeginAttach`, `WriteBinding`, `BeginVoid`, `WriteFailed` |
| a method that raises | `Refuse`, `RefuseOutcome` |
| crash; start: `expire_due`, `recover_pending` row by row | `Crash`, `StartupExpire`, `RecoverRow`, `StartupDone` |

Every `mark_*` method calls `get()` (one lock), then tests and rewrites the row
under another lock. `Write` rewrites the row from the copy, and adds the row to
the history variable `stale` if the copy was out of date. `Begin...` contains the
`expire_due` with which the deciding calls start. Rejecting does not sweep.

`ApprovalLifecycle` has one variable per request and one atomic action per
decision. With a single thread, `ApprovalStore` implements it
(`ImplementsLifecycle`, mapping `state <- status`, `tied <- bound`, `done <- has
been run`); with two it does not, which is what `ApprovalTwice` shows.

### WorkflowManager

`workflow` is the document (status and a sequence of stages), `approval` the
status of the rows, `target` the stage in an action's payload, `call[h]` the
thread's operation with its copy of the *whole document*. The two transition
tables are the code's. Calls on the approval rows are single steps here: their
own races are the subject of `ApprovalStore`.

| code | actions |
|-|-|
| `start_stage`, `submit_report`, `attach_action` | `StartStage`, `SubmitReport`, `AttachAction`: load, check and edit the copy (`Edit`); then `Save` |
| `request_stage_approval` | `RequestStageApproval`: the row is inserted before the workflow's move is checked and before the document is saved |
| `cancel` | `Cancel`, `VoidCancelled`, `Save` |
| queue: create, expiry, `list_pending`, `reconfirm` | `CreateAction`, `TtlElapses`, `Sweep`, `Reconfirm` |
| approve a stage request: `mark_approved`, `resolve_stage_approval`, `_approve_bound_actions`, `_advance_after_approval`, the batch, `mark_executed` | `ApproveStage`, `LocateStage`, `ApproveBound` per row, `Advance`, `Save`, `RunBound` or `LoadBound`, `SaveBound`, `RecordBound` per row, `Settle` |
| a failing stage approval | `Fail`, then `Revert`, `VoidRejected`, `Save` |
| approve a bound request by itself | `ApproveAction`, `RunOwn`, `Save`, `Settle` or `Fail` |
| reject | `Reject`, for a stage request then `Revert`, `VoidRejected`, `Save` |
| crash and start-up | `Crash` |

An action is of a `Kind`: "write" leaves the document alone; "test", "agent" and
"gate" stand for `record_test_result`, `attach_agent` and `attach_quality_gate`,
which edit it (`Applies`, `Applied`).

### ExecutionLoop

`loop` is the loop's row, `task` the tasks' statuses, `proposal[p]` the task that
proposal `p` is for, `results[p]` how many results it has, `snapshots` the
snapshot metadata in the order of capture, `file` the contents of the files.

| code | actions |
|-|-|
| `create` (orchestrator), `create` (execution manager) | `BeginCreate`, `BeginReplan`, `PlanTask` per task, `SavePlanned`, `Replanned` |
| `generate_proposal` | `BeginPropose`, `SaveProposal`, `RequireApproval` |
| `prepare` | `BeginPrepare`, `Draft`, `SaveProposal`, `RequireApproval`, `SaveReady`, `SaveWaiting` |
| `ExecutionManager.execute`, `ControlledExecutor.execute`, `on_executed` | `BeginExecute`, `SaveApproved`, `Capture`, `SaveExecuting`, `SaveResult`, `SaveVerifying`, `SaveCompleted`, `Hook`, `SaveStart`, `SaveStarted` |
| `verify` | `BeginVerify`, `SaveVerdict`, `QueueLearning`, `SaveMemory` |
| `recover`; crash and start-up recovery | `BeginRecover`, `SaveRecovered`; `Crash` |
| `rollback` | `BeginRollback`, `Restore` per snapshot, `RestoreDone`, `MarkRolledBack`, `SaveRolledBack` |
| other approved requests that write the project | `EditFile` |

The ids of a plan's tasks follow from the plan's id, and `save_task` upserts: to
plan the same plan again puts its tasks back to PROPOSED, also those that were
completed. `planned[t]` counts it, and `RunsOncePerPlan` is stated relative to it.

`LoopLifecycle` has one `phase` per loop (absent, planning, underway, completed,
stopped). With one thread `ExecutionLoop` implements it (`ImplementsLoopLifecycle`,
`phase <- PhaseOf(status)`); `ExecutionDag` knows no more of its loops than this.

### ExecutionDag and TaskDependencies

`ExecutionDag`: `dag` is the row, `dagCall` the one request that is being served
with its copies, `phase` the loops, which move at any time.

| code | actions |
|-|-|
| `create`: `_validate_edges`, `_has_cycle`, the row, then the report to `on_loop_completed` | `CreateDag`, `ReadStatus` per loop, `OnLoopCompleted` |
| `advance`: `loop_statuses`, `ready_loops`, `prepare` of the first ready loop, the reports | `BeginAdvance`, `ReadStatus` per loop, `PickReady`, `RefuseAdvance`, `LoadPicked`, `SavePicked`, `SaveWaiting`, `OnLoopCompleted` |
| requests of the loops themselves; crash | `LoopRequest`; `CrashDag` |

`DagHasCycle` is the depth-first search of `_has_cycle` with its two sets (on the
path, cleared): the calls that are open are a path of loops, each step follows one
edge of the last of them or returns from it, and `Visits` is the search after a
number of steps. `StoredDagIsAcyclic` compares it with `Acyclic` over every edge list
the request may name. `Rounds` is the search of `has_cycle` from one task, round by
round, written in the same way.

`TaskDependencies`: `lines` is the JSONL file, `edges[g]` what instance `g` holds,
`adding[g]` the call of `add` with the stack of its search. `Construct` loads,
`BeginAdd` / `SearchNode` / `RefuseAdd` / `AcceptAdd` are `add` with `_has_path`,
`WriteEdge` the append, which `CrashGraphs` may leave half written.

### What is kept on disk

| module | state | code and actions |
|-|-|-|
| `Coordination` | `kind`, `main`, `temp` (the file beside a document until it is renamed), `worker` (a thread's copy), `events`, `ragged` (a log line without its end), `attached` | the five managers' `create` and `transition`: `CreateSession` ... `CreateTask`, `MoveSession` ... `MoveTask` (check the table, edit the copy); `SaveRow` for tasks, `OpenTemp`, `WriteTemp`, `RenameTemp`, `RenameFails` for files; `Publish`; `AttachSession`; startup: `RecoverNext` per runtime, `Serve`; `Stop`, `StopStartup` |
| `StageRollback` | `target`, `snapshot` per request, `heads` (targets that are a Git HEAD), `runner` | `capture` with `_capture_file`: `BeginRun`, `ReadTarget`, `StoreSnapshot`; the action itself: `Act`; `restore` over `_ordered_snapshots`: `BeginRollback`, `RestoreOne` per snapshot, `EndRollback`; somebody else writes: `EditTarget`; crash: `CutOff` |
| `Memory` | `document` (the entries of decisions.md), `index`, `writer` | `initialise`: `BeginEntry`, `WriteHeader`; `append_decision`: `NumberDecision` (`next_adr_id`), `AppendEntry`, `IndexDecision`; a stage rollback: `UndoEntries`; `Kill` |
| `AuditTrail` | `log`, `archives`, `quarantined`, `stage` | `record` with its rotation: `Record`; startup: `CheckAudit` (quarantine), `RewriteAudit`; `Halt`, at any of these, also within a line |
| `Backups` | `row`, `effects`, `backups`, `copying`, `service`, `time` | `create_backup`: `BeginBackup`, `CopyDocs`, `CopyRows` in `CopyOrder`, `FinishBackup`; `Startup`; the middleware: `OnRequest`, `PassRequest`; a request's effect and row: `WorkOn`; `Tick`, `Crash` |
| `Conflicts` | `journal`, `resolver` | `create`: `CreateConflict`; `resolve`: `BeginResolve` (`get_conflict`), `FinishResolve` (append); `Tear` |

### Routes, Gateway and Records

`Routes` is data: every stretch of a routes file with its endpoints under the action
names of their audit lines, sorted by how they are served (answered at once, queued
whatever the body says, queued after a check, and so on), `ACTION_LEVELS` as three
sets, the branches of `_execute_action`, the actions of which no rollback snapshot
is taken, and what an action queues in turn. `ActionsAreServed` relates these
tables, which the code keeps apart by some two thousand lines.

`Gateway`: a row is `asked` (its action) and `status`; `noted` are the audit log's
lines with its request id, `book` those without one; `owing` the pending lines not
written yet; `decider` where the thread that decides a row is.

| code | actions |
|-|-|
| an endpoint that only reads, or refuses | `Read`, `Refuse` |
| `_register_pending`: the INSERT, then the line | `Queue`, `NotePending` |
| `permission_reject`, `permission_approve` | `RejectRow`, `ApproveRow` |
| `_execute_action` with the follow-ups of simulation plans and executions | `Run`, `FollowUp`, `FollowUpLeftToLoop`, `FollowUpQueued` |
| `mark_executed` / `mark_failed`, then the line | `MarkOutcome`, `NoteOutcome` |
| crash at any point | `Cut` |

`Records` follows one record of one of three `family`s: `AskToCreate`, `AskToMove`
(the request shows "current -> target"), `ApproveRecord`, `CreateDebt` /
`CreateTrial` / `SaveCases`, `CheckMove` / `RefuseMove`, `SaveStatus`, `MarkMoved`,
`LoseProcess`. Debt items check the move against the row they read and raise
BridgeError; benchmarks and validations raise ValueError, which the approval does
not catch (`Checks`).

### What is computed and judged

| module | state | code and actions |
|-|-|-|
| `Patch` | `original`, `patch`, `wanted`, `at`, `hunk`, `claims` | an author writes a diff as diff tools do (external): `OpenHunk`, `WriteContext`, `WriteRemoval`, `WriteInsertion`, `CloseHunk`; `apply_unified_diff` is `Applied`, which reads the lines one by one (`ReadLine`, `ReadUpTo`), evaluated against the original and against every other file |
| `Chat` | `ask` (which face, chat or stream, which adapter, whether its provider is known and ready), `sent` by the vendor, `client` received | `/llm/chat`, `/assistant/chat`: `Answer`; their streams: `Begin` (with `Opening`), `PullPart`, `PullEnd`, `PullFails`; per adapter `ChatCalls`, `EventOf` |
| `Governance` | `measured`, `claim`, `record`, `finding`, `violation`, `proposal`, `review`, `memory` | `_derive_metrics`: `Measure`; submission, with the preview it shows: `Submit`, `Preview`; the approved evaluation: `SaveRecord`, `SaveRisk`, `SaveViolations`, `Propose`; the approved review: `BeginReview`, `SaveDecision`, `SaveMemory`; `Fall`. `RiskScore`, `Evaluate` and `Gate` are the analyzer, the rules and gate 14 with their thresholds |
| `Validation` | `evaluations`, `benchmarks` | `RecordEvaluation`, `RunBenchmark`; `AccuracyReport`, `RunOf`, `Gate13` as operators |
| `Improvements` | `queued`, `records`, `reading` | `ProposeImprovement`, `Approve` / `Reject`, `SaveImprovement`, `MarkExecuted`; the dashboard's list: `ReadRecords`, `ReadQueue`; `Outage` |

### Assistant and Chat

`Assistant`: `keyfile`, `row` (provider_credentials by the request that staged
them), `pref`, and `run` (what a request holds).

| code | actions |
|-|-|
| `provider_config`: `SecretBox._load_key`, `stage_credential`, `stage_provider_config` | `Configure`, `FindKeyFile`, `OpenKeyFile`, `WriteKeyFile`, `ReadHint`, `ReadEnvelope`, `Stage`, `AskApproval` |
| the decision; `activate_credential`, `activate_provider_config` | `Accept` / `Decline`; `Promote` (with `Retire`), `ChooseProvider`, `ChooseModel` |
| `user_settings_update`, `provider_forget`; crash | `UpdateSettings`, `Forget`; `Die` |

### Strategy and OrgGraph

`Strategy`: ids are numbers of a clock (`second`), as the code makes them of the
time; `handler[t]` holds the copies of a request.

| code | actions |
|-|-|
| `create_strategy`; the graph's node | `Register`, `SaveNode` |
| `evaluate_strategies`, strategy by strategy | `BeginEvaluate` (`EvaluateBatch`), `SaveEvaluation`, `EvaluateNext` |
| `simulate` | `SaveSimulation`, `LinkSimulation` |
| `create_decision`; `transition_decision` | `BeginDecide`, `SaveChoice`, `Select`; `BeginMove`, `SaveMove`, `LinkSuperseded` |
| time, crash | `Tick`, `StopBridge` |

`OrgGraph`: `entity` and `listed` in one database, `gnode`, `gedge` and `snapshot`
in the other. `RegisterEntity`; `sync_from_entities`: `BeginSync`, `SyncOne`; the
strategy layer: `BeginLink`, `SaveStrategyNode`, `SaveStrategyEdge`; `BeginSnapshot`,
`SaveSnapshot` (two reads apart); `Restore`; `Kill`. The reasoning engine's
searches are the operators `Ancestors`, `Descendants`, `Owner`, `Impacted`, over
`Climbs` (to the parent, until nothing is new) and `Spreads` (breadth first along
edges); neither has more steps than there are keys.

### Extension

`page[h]` are tab `h`'s cards, `kept` the one state in `chrome.storage.local`,
`clicks` the clicks on Approve with their two calls to the bridge.

| code | actions |
|-|-|
| `hydrate`, closing, `handleParseResults`, `refreshApprovals` | `OpenTab`, `CloseTab`, `Capture`, `Refresh` |
| `approve`: card to approving, `POST` the action, `POST /permission/approve`, the answer | `ClickApprove`, `SendStage`, `SendApproval`, `MarkApproved`, `FailAction` |
| `reject` | `Reject` |
| the bridge: register, approve, recovered requests, expiry, restart | `QueueRow`, `ServeApproval`, `ServeRecovered`, `Expire`, `RestartBridge` |

Each step that changes a card persists the whole page; an answer that is too late
(8 seconds) is a `FailAction` while the bridge still serves the call. The queue is
reduced to what `ApprovalLifecycle` says of it.

## Runs

| run | instance | what it shows |
|-|-|-|
| ApprovalRace | 1 request, 2 threads, 2 restarts | `RunsWereAllowed`: under every interleaving and crash a recovered request runs only when reconfirmed, a late approval never runs, the action is run once, these two unless a stale copy rewrote the row. `StatusIsTrue`: EXECUTED was run. `SettledForever`: settled rows stay. `RequestsSettle`: a due row leaves the queue, and an approved one gets an outcome or was cut off |
| ApprovalSerial | 2 requests, 1 thread, 2 restarts | `ImplementsLifecycle`: the atomic lifecycle is implemented; `AtMostOnce`: nothing runs twice |
| ApprovalTwice (violated) | 1 request, 2 threads | two approvals both run the action |
| WorkflowSerial | 2 actions, 2 stage requests, 2 stages, a lapse, 1 restart, 1 thread | `StagesMatchRequests`: rows and stages agree, and no request waits in the queue without a stage that waits for it; `ApprovedStageHasConsent`, `TerminalIsFinal`; `BatchRunsInApprovedStage` |
| WorkflowGates | an agent and a gate, 2 stage requests, a DELIVERY stage, 1 thread | `DeliveryIsEarned`: the gate cannot be bypassed and COMPLETED comes from an approved DELIVERY; `ApprovedStageIsFrozen` |
| WorkflowRace | 1 action, 1 stage request, 2 threads | `NothingIsLeftBehind`: only the failure of a stage strands approved rows, and cancelling leaves nothing pending |
| WorkflowRevived (violated) | 2 threads | a stale save brings a cancelled workflow back |
| LoopSerial | 2 tasks, 3 proposals, 1 file with 2 contents, 2 plannings, 2 restarts, 1 thread | `RunsOncePerPlan`; `RestoreUndoesAllTasks`; `RunsAreRecorded`: what is executed is recorded, and learned once; `ImplementsLoopLifecycle` |
| LoopRace | 1 task, 2 proposals, 2 plannings, 2 threads | `StatusIsEarned`: a loop has the result it claims, and snapshots come first, despite stale rows; `RunsOncePerPlan` |
| Services | 3 loops, 3 tasks in 2 instances, 3 key requests, 2 strategy threads, 2 graph threads, 2 tabs | see below |
| Stores | 2 threads at one document, two requests, or one file each; crashes everywhere | see below |
| Analysis | files of 3 lines, streams of 4 parts, 1 claim with 2 reviews, 2 evaluations, 2 proposals | see below |

| property | run | what it says |
|-|-|-|
| `DagKeepsOrder` | Services | the search lets no cycle through; a loop is prepared only after all it depends on; a COMPLETED DAG is; the order never blocks |
| `DependenciesStayAcyclic` | Services | no cycle gets into memory or file but by instances that do not see each other's edges; `has_cycle` is right of every set of edges |
| `CredentialsAreSound` | Services | stored keys open, one active and one staged each, what is gone stays gone, hint and key belong together, an active credential survives until it is forgotten |
| `StrategyIsAccountedFor` | Services | SELECTED was decided, histories are walks, graph nodes have rows, rows only advance |
| `GraphIsSound` | Services | everyone has an owner, ascent and descent and impact agree from both ends, no one is above themselves, snapshots are closed, only a restore forgets |
| `EachCardIsDecidedOnce` | Services | a block is sent once and never after it was rejected, a page approves it once, "approved" has run |
| `WorkIsAccountedFor` | Stores | legal histories, whole documents, no runtime that resumes by itself, completions announced once, nothing named that does not exist |
| `StageCanBeUndone` | Stores | what a request changed was captured before, and a rollback brings back what was there first |
| `DecisionsAreFound` | Stores | numbers ascend, the index names decisions that are there, memory is append-only |
| `TrailIsKept` | Stores | every recorded entry is somewhere, and can be read unless a torn line took it along |
| `ServedSafely` | Stores | no backup shows the effect of an undecided request; requests are served only with a complete, fresh backup |
| `ConflictsStayResolved` | Stores | a conflict reads as it was resolved first, or is too old to be found |
| `QueueIsTruthful` | Stores | the log never says more of a row than the queue, and all of it in the end; each run was approved once |
| `ActionsAreServed` | Stores | endpoints, levels, branches, snapshots and follow-ups agree |
| `RecordsMoveLegally` | Stores | EXECUTED did what its row says, once; APPROVED is unfinished; steps are legal |
| `PatchIsExact` | Analysis | a diff of the file gives the wanted file, and fits no file without the lines it claims |
| `StreamsAreHonest` | Analysis | what fails before the first event is a status; a stream carries all the vendor sent, once |
| `AssistantEnds` | Analysis | every request to the assistant ends in a way the caller can tell (liveness) |
| `ClaimsAreJudged` | Analysis | high risk gets a review and blocks gate 14; a preview foresees; worse is never milder; reviews are remembered |
| `MeasuresAddUp` | Analysis | every prediction is counted once, unknown outcomes say nothing, full marks need all right |
| `LearnedIsApproved` | Analysis | a proposal is listed once, and what is known was approved |

Most of these are conjunctions of named parts, each with a comment in its module;
the type invariant of a module is one of them.

### Bounds

All bounds are constants of the modules and are given in the configurations.

Every race in this code is between two holders of a copy of the same row or file,
so two threads and one row show it; a third thread only repeats one of the two.
Cascades need two bound requests, of which one lapses. Two stages are the least
that let a workflow advance and be completed; which types they have is varied
between the runs. Two restarts let a request be recovered, reconfirmed and
recovered again. A rollback needs two tasks and a file with two contents to tell
the orders of restoring apart; a third proposal lets a task be tried again while
another is executed.

- *Services*: three loops and three edges (`MaxEdges`) hold every cycle and the
  chain and fan-in of a DAG; the acyclicity search over three tasks and two
  instances meets cycles of length 1 to 3. Three key requests for one vendor are an active,
  a staged and an overtaking one. `MaxSecond = 2` lets ids collide and not collide;
  four strategy requests (`MaxServed`) register, decide, move and race.
  `MaxEntities`, `MaxCopies` = 3 and `MaxRequests = 5` give a chain of three
  entities, synced, restored and synced again. `MaxClicks = 2` clicks on one block in
  two tabs. One crash each.
- *Stores*: `MaxMoves = 4` is a walk through a whole table; `MaxRollbacks = 2` and one
  mishap for two requests on one file; a log of two lines with five entries and
  three crashes (`MaxLines`, `MaxRecords`, `MaxHalts`) rotates, is torn, recovered, and torn
  again; a backup interval of 2 within 3 ticks; a conflict journal of five lines
  seen through a window of three; `MaxRows = 3` rows of the queue, with every action
  tried alone and those of `Sample` (one that captures, one with a follow-up, one
  whose failure nobody catches) together; three requests about one record.
- *Analysis*: files of three lines from two plain texts and one that reads as a
  header, diffs of five lines, so that two hunks fit; `Scores` 30 and 45 lie on both
  sides of the low-score policy, `Confidences` at 0, inside, at the end of a bin, and
  at the 95 the code caps at; three benchmark cases.

Symmetry is declared over names that the modules do not tell apart, and only in runs that
check no liveness. Deadlock is checked except in `LoopRace`, `Services`, `Stores`
and `Analysis`: there a behaviour ends when its bounds are used up, or a loop, a
stream, or a decided request has really nothing left to do.

### Fairness

`ApprovalRace` checks liveness under `FairSpec`:

- weak fairness of each thread's next step: a thread in a handler keeps running;
  no handler waits for another one, locks are held for one statement;
- weak fairness of start-up: a process that is started finishes recovering;
- strong fairness of listing: the extension polls the queue every 10 seconds
  (`content.ts:104-107`) and the pool serves calls in order, so a listing is
  served again and again however often all threads are busy in between.

Nothing is assumed of the user: no approval, rejection or creation is fair, and a
crash may come at any time, `MaxRestarts` times.

`Analysis` checks `AssistantEnds` under weak fairness of the chat's steps: the
server keeps pulling the generators of a response it has begun, and every call to a
vendor has a timeout, which is one of the failures (`PullFails`).

## Proofs

*One call* in the second column means that the theorem assumes `OneAtATime`
(`\A g, h \in Handlers : g = h`, `OneThread` in the other modules): requests are
handled one after the other, while crashes, restarts and expiry still come at any time.

| theorem | assumes | what it proves, and from what |
|-|-|-|
| `ApprovalStoreProofs!RunsNeedADecision` | | `RunsWereAllowed`, from `RecoveredIsNotRun`, `LateApprovalIsNotRun`, `RunAtMostOnce` |
| `RowsTellTheTruth` | | `StatusIsTrue`, from `TypeCorrect`, `ExecutedWasRun` |
| `SettledIsFinal` | | `SettledForever` (an action property) |
| `SerialRunsOnce` | one call | `AtMostOnce`, by `SerialInv` |
| `SerialQueueIsLifecycle` | one call | `ImplementsLifecycle` (a refinement), by `SerialInv` |
| `WorkflowManagerProofs!DeliveryWasEarned` | | `DeliveryIsEarned`, from `DeliveryNeedsGate`, `CompletionNeedsDelivery` |
| `ApprovalNeedsConsent` | | `ApprovedStageHasConsent` |
| `DocumentsAreSound`, `TypeCorrect` | | the inductive invariant `SoundInv`, `TypeOK` |
| `NothingStaysBehind` | | `NothingIsLeftBehind`, by `RunInv` and `VoidInv` |
| `OverStaysOver`, `ApprovedStaysFrozen` | one call | `TerminalIsFinal`, `ApprovedStageIsFrozen` (action properties), by `InStep` |
| `BatchesRunApproved` | one call | `BatchRunsInApprovedStage`, by `InStep` |
| `StagesMatch` | one call | `StagesMatchRequests`, by `Story` |
| `ExecutionLoopProofs!StatusWasEarned` | | `StatusIsEarned`, from `LoopHasResult`, `CapturedFirst` |
| `RestsHold`, `TypeCorrect` | | the inductive invariant `RestInv`, `TypeOK` |
| `LoopGoesForward` | one call | `ImplementsLoopLifecycle` (a refinement), by `AloneInv` |
| `RollbackUndoesAll` | | `RestoreUndoesAllTasks`, by `RollbackInv` |
| `RunsWereRecorded` | | `RunsAreRecorded`, by `RecordInv` |
| `RunsArePaidFor` | | `RunsOncePerPlan`, by `PlanInv` |
| `ServicesProofs!DagOrderHolds` | | `DagKeepsOrder`, from `DagTypeCorrect`, `DagStaysAcyclic`, `AdvanceKeepsOrder`, `CompletionIsTrue`, `OrderNeverBlocks` |
| `GraphStaysSound` | | `DependenciesStayAcyclic`, from `DependenciesTypeCorrect`, `SoundStaysAcyclic`, `FileStaysAcyclic`, `ReportOfCyclesIsRight` |
| `CredentialsStaySound` | | `CredentialsAreSound`, by `CredentialInv` |
| `StrategiesAreAccountedFor` | | `StrategyIsAccountedFor`, by `StrategyInv` (invariants and an action property) |
| `GraphStaysWhole` | | `GraphIsSound`, by `OrgInv` (invariants and an action property) |
| `RequestProofs!LogTellsTheTruth` | | `QueueIsTruthful`, by `GatewayInv` |
| `EverythingIsServed` | | `ActionsAreServed`, by `ServedInv` |
| `RecordsStayLegal` | | `RecordsMoveLegally`, by `RecordsInv` (an invariant and an action property) |
| `WorkStaysAccountedFor` | | `WorkIsAccountedFor`, by `CoordInv` (invariants and an action property) |
| `StoresProofs!StagesCanBeUndone` | | `StageCanBeUndone`, by `StageInv` |
| `ResolutionsStand` | | `ConflictsStayResolved`, by `ConflictInv` |
| `RequestsAreServedSafely` | | `ServedSafely`, by `BackupInv` |
| `DecisionsStayFound` | | `DecisionsAreFound`, by `MemoryInv` |
| `TrailStaysKept` | | `TrailIsKept`, by `AuditInv` |
| `AnalysisProofs!LearnedWasApproved` | | `LearnedIsApproved`, by `ImprovementInv` |
| `CallersAreToldAll` | | `StreamsAreHonest`, by `ChatInv` |
| `ClaimsAreWellJudged` | | `ClaimsAreJudged`, by `GovInv` |
| `PatchesStayExact` | | `PatchIsExact`, by `PatchInv` |
| `MeasuresStayRight` | | `MeasuresAddUp`, by `ValidationInv` (invariants and an action property) |
| `ExtensionProofs!CardsAreDecidedOnce` | | `EachCardIsDecidedOnce`, by `ExtensionInv` |

They hold for any sets of requests, actions, threads, tasks, proposals, loops, files,
texts, tabs, blocks, conflicts, vendors and claims and any bounds. The assumptions are
those of the modules, which TLC evaluates in every run: the bounds are naturals, the
loops of a DAG and the tasks of a graph are finitely many, the id sets are disjoint
where the model mixes them, "none", "absent" and the other marks for nothing are no ids
(`RollbackNames`, `IssueNames`, `AssistantNames`), the first task is one of the tasks,
and `Backups` has at least one request to copy.

*One call* is not a way out of a hard proof: with two threads `ApprovalTwice` and
`WorkflowRevived` show `AtMostOnce` and `TerminalIsFinal` violated,
because a thread may save an old copy over what another one did; the other five rest on
nothing being saved over in that way either. The server has a pool of threads, so these
theorems say what its handlers achieve when they do not overlap, and the runs with two
threads say what is left when they do. Where a property can say itself which rows were overtaken (`stale`,
`overlap`, `contended`, `muddled`, `crowded`, `blurred`, `disturbed`, `raced`, `crossed`,
`mixed`, `torn`), it does, and its theorem needs no such hypothesis.

The arguments:

- *Queue.* None of the properties is inductive: what a thread may do next depends
  on its copy. Each invariant therefore says of a thread's point and copy what the
  row alone does not. `AwaitingInv`: neither the row of a recovered request that
  nobody reconfirmed nor any copy of it is approvable, and no thread is past its
  approval; start-up establishes it, because it begins when no thread is left.
  `LateInv`: the sweep of an approval that comes too late closes the row, and it
  stays closed, so that the call's own copy is refused unless a stale copy was
  written back. `OnceInv`: of a row that was never rewritten from a stale copy, at
  most one thread runs the action and finds it not run; while the row is open the
  action was not run. `RanInv`: where EXECUTED is written or copied to, or a thread
  is about to write it, the action was run. `SettledIsFinal` needs only `TypeOK`. With
  one call at a time `SerialInv` holds: a copy that is about to be written is the row,
  what is about to run is approved and has not run, and a row that can still be
  approved was not run; a crash takes the copy away and the recovery does not approve.
  From it each step of the queue is one of `ApprovalLifecycle`, or changes nothing that
  it sees, and `AtMostOnce` follows.
- *Workflow.* A thread may save an old document over a new one, so what holds of
  the document must hold of every copy, and must not be falsified by time.
  `Sound(doc, asked, consented)` says of one document that submitted DELIVERY
  stages have their gate, that approved stages carry a request that was consented
  to, and that COMPLETED comes with an approved DELIVERY stage; `SoundInv` says it
  of the saved document and of all copies. It is preserved since the sets of asked
  and consented requests only grow, whichever copy is saved.
- *Workflow's requests.* An approved request that nobody finished must be explained:
  `Explained` names the call that holds it, the crash that took it, or the stage approval
  that failed, and `RunInv` keeps calls apart, no two of which hold the same request. It
  needs no hypothesis: the rows are written by one method under one lock each, only the
  document is saved from copies. `VoidInv` says that a call that cancels still has to void
  all that its copy names.
- *Workflow, one call.* `InStep` says that a copy that may be saved follows from the
  document by the rules of the operation (`Follows`), so that saving it is a legal step;
  `Carries`, that the requests a call runs are those of a stage it has approved. `Story`
  relates three tellings, the document, the call's copy and the rows: a stage waits for
  approval exactly while its request is open, but for the one request whose row and stage
  are just being changed, one after the other (`Exempt`).
- *Loop.* The same idea: `Rests(doc, Done)` says that a loop that claims an
  execution has a result in `Done`, the proposals whose result was saved and whose
  task was captured. `Done` only grows, so copies stay good; `RestInv` adds how far
  each executing thread has come. That a rollback finds the latest of the
  snapshots that are left (`LatestExists`) uses that the order of naturals is
  well-founded.
- *Loop's moves, records and files.* `AloneInv` says of the only call what its copy must
  be at every point (`Fresh`), so that each save is a move the code's table allows, seen
  through `PhaseOf` as a step of `LoopLifecycle` or none. It is stated under `~overlap`,
  which one thread never leaves, and so serves `RecordInv` too, which adds what was queued
  and stored before the verdict is. `RollbackInv`: no task has two snapshots; a rollback
  restores the first snapshot last, so that among any number of rollbacks that
  have none left to restore the files read as the first snapshot has them. `PlanInv` is an
  account: the results of a task and one more are paid for by its plannings (`Paid`) as
  long as the task may still be executed; one call at a time holds a copy of it.
- *DAG.* What `advance` read of a loop is old when it prepares. `CallIsSound` says
  what stays true of it: loops never leave COMPLETED, so a loop that was seen
  COMPLETED still is. In an acyclic DAG the loops that are not over have one without
  a source among them, which is ready or under way. That the search of `create`
  lets no cycle through is `SearchStands`: no loop is twice on the path, what is cleared
  is acyclic and leads to nothing that is not, and an edge that was followed leads to a
  cleared loop or to the next one on the path. Each step follows an edge, clears a loop
  or enters one (`YetToDo` counts what is left of these), so within `VisitSteps` the path
  is empty and all is cleared.
- *Task graph.* The search of `add` keeps a set of nodes it has seen and a stack:
  `SearchInv` says that the new edge's source is not among them, that its target is
  seen or on the stack, and that the targets of a seen node are. When the stack is
  empty, the seen nodes are closed under the edges and lack the source, so that the
  new edge is on no cycle (a set of nodes in which everyone has a source has one
  that lies within or without the closed set). The file follows as long as an
  instance had loaded all of it (`blind` is false). `has_cycle` leaves out
  one edge and asks whether there is still a way from its target to its source; the
  rounds of that search end with the least closed set. In a cyclic set of tasks, the one
  that reaches the most of them also reaches its own source, which closes the cycle.
- *Gateway.* Row and log are related by where the two threads are that may write a
  line: `FreshRow` (nothing is said of a row that is not there), `DecidedRow` (each
  point of the decider has its status, and a row is approved once at most),
  `LoggedRow` (a line is true, and is there unless it is owed or its thread was
  killed), `FollowingRow` (a row queued by a run names an approved one that cannot
  fail any more). The invariant is about one row at a
  time and, for follow-ups, the row it came from, so it holds for any number of them.
- *Endpoints.* `ServedInv` is about the tables: what waits in the queue has a branch. The
  rest is a computation over 43 stretches of routes, of which each is looked at once.
- *Stages.* `RunsInv` and `FirstInv` follow the first snapshot of each target: it is taken
  before anything of the stage is applied, and is the one a rollback applies last, being
  the earliest. `RestoreInv`: what a rollback has not yet restored is either the first
  snapshot of the target, or the target is already as it was (`BringsBack`).
- *Conflicts.* Who holds a conflict read it as open. So a resolution that was reported is
  the newest line about its conflict (`IsNewest`), until two hold the same one.
- *Backups.* `Covers` is a backup that is complete and not older than any that a
  crash cut off: the one that `Latest` finds, or equals in age. `CopyInv` follows the one
  that is made: the documents are copied before the rows, so that it shows
  what they came from as decided.
- *Memory.* `OneAtWork`: the number a writer holds is greater than any in the
  document, and the titles in the index are of decisions that are in it, unless two
  writers met (`crowded`).
- *Audit trail.* Each recorded entry is `Clear`, on a readable line of its own, or
  `Behind` another one, on the line of an entry that lacked its end; such a line does not
  parse. The repair keeps the lines that parse and puts the others in quarantine;
  `OpenLinesInv` says that only the last line may lack its end.
- *Records.* `PointFits` relates a request's point to its row, its copy and the
  record; `FirstIsCreated` that nobody asks for moves of a
  record that is not there, and `MoveIsSound` that a checked move is one its table
  allows from what was read, so that a save is illegal only if the record was moved
  since (`outrun`).
- *Documents.* Every copy and every file that can be read is a legal walk (`Walks`),
  which a move continues, so that whatever is saved over what, histories stay legal. The
  rest holds of a document of which two requests never held copies at the same time
  (`raced`): the file beside it is the saver's own (`FileFits`), what anybody is about to
  save, or the startup would save, was found open (`SavedWhileOpen`), and the event of its
  completion is owed or there once (`ToldFits`). Until a startup is over, whatever is said
  to run is on its list or in its hands (`RunsAsStarted`), also after a crash of its own.
- *Improvements.* A reader asks for records and then for the queue, and both may
  move between; `ReadAs` and `ShownAs` say what it holds of proposals that did not
  (`blurred` collects the others).
- *Chat.* `ChatInv` needs little beyond the properties: what has begun to stream has an
  event that is not an error (`HasBegun`). The rest is counting: texts in what was sent
  and in what the client received, by cardinalities of sets of indices.
- *Governance.* `Judged` says that the stored assessment of a claim is the one the rules
  give its facts, `Untouched` that nobody reviews what was not proposed, and `Remembered`
  that the proposal reads as the newest memory decided, or is being decided. That worse
  figures never judge milder is a lemma about the score, a sum of capped terms.
- *Diffs.* `PatchInv` is about the engine after any part of the diff. On the original it
  stands where the author stands, and has written what is wanted so far; on any other
  file it has refused, or stands at the same place and has found every claim there. Each
  move of the author appends a line, and changes at most the header of the open hunk,
  which moves neither.
- *Measures.* Every count of the report is the number of places in the list of records
  that a predicate selects. The parts are disjoint and together are the whole
  (`Halves`), and a record whose outcome is unknown is in none that a rate is
  made of. Totals of scores are compared term by term.
- *Credentials.* `Placed` says for each point of a request whether it has a row yet and
  of which vendor; `Tells`, that a hint names a key that was brought for that vendor and is
  the key of its row, if it has one; `Wears` and `Lost`, that a hint without its key is of a
  key that was in use, and that a key that is gone is in no row and about to be
  in none. `Seals`: one request makes the key file, and nothing is sealed before it is
  there, until two requests find no key file.
- *Strategies.* `ReadsCurrently` says what stays true of a request's copies: a row that is
  in use once and of which nobody else held a copy (neither `reused` nor `crossed`) is
  as it was read. A batch only needs that what it read as PROPOSED is not SELECTED yet.
  `GoesByRows`: what a request is about to show in the graph has its row, which is saved
  first and never taken away, so no crash leaves a node without one. A selected
  strategy has its decision because `Select` still names the decision it made, unless a
  later one got the same id.
- *Graph.* Rows are listed parents first (`EntitiesFit`), and the graph, its snapshots and
  whatever a sync or a snapshot holds agree with the rows (`CopiesFit`) as long as no id
  was given twice. So the place in the list falls on the way up (`PlacesOrder`), nobody
  is above themselves and every walk up ends. It ends at a company: a
  parent is in the graph or comes first in what the sync has yet to save
  (`GraphsClosed`), unless a restore replaced the graph under a writer. `LinksFit` says
  the same of edges. The traversals agree in any graph, also with cycles: `Ancestors`
  is the least set that is closed under parents, `Descendants` the least that is closed
  under children, and impact is the least closed under a symmetric set of edges. A walk
  that meets nothing twice is over when it has met as many keys as there are.
- *Extension.* A click is followed from the page to the Bridge. `Remembered`: until
  its tab is gone, its card is locked (approving, then approved or failed), which is
  why a page offers no block twice. `PageIsKept`: as long as one tab at a time is open
  and the storage works, what is kept is what the page shows, but for clicks that are
  yet to be written, and a rejected card stays rejected. `SavedFirst`: a click that is
  yet to be written is of a block that was never sent; closing the tab drops it, and
  the write that ends that state is what makes the kept card locked. `SentOnce` alone
  is not inductive: it does not say that the page a reload reads is the one that was
  shown. The Bridge moves rows, and tells nothing a page could forget (`Moved`).

Writing these proofs changed the models in places. Arms of a CASE that overlapped
(`Chat`, `Governance`, `Patch`, `OrgGraph`) leave the value to TLC's order of evaluation;
they are written with IF, in the order of the code. The searches, the patch engine and
the benchmark's totals are functions of the number of steps or lines (`Visits`, `Rounds`,
`Climbs`, `Spreads`, `ReadUpTo`, `SumOf`), and the report's counts are numbers of places.
The sets of loops and tasks are finite, which only matters where one searches them
all. `Backups` needs a request for the first backup to be of any use, and several
modules need their marks for "nothing" not to be among the ids: both are assumptions
with names now.

Only model-checked are the liveness properties, `RequestsSettle` and `AssistantEnds`:
fairness and ENABLED are beyond TLAPS here. Every other property of a passing run is
the statement of a theorem.

The induction over data that some proofs need (what a search has found after so many
steps, what the engine has written after so many lines) goes by a least counterexample:
the set of numbers at which a claim fails would have a smallest one
(`SmallestExists`), at which the step before still satisfies it. The same argument shows
that a function which is defined by such steps exists.

## What the code does and its documents do not say

Two runs are expected to be violated; `PROJECT.json` quotes the lines.

1. `ApprovalTwice`: two approvals of one request that both read it before either
   writes run the action twice (`AtMostOnce`). The proven `RunsWereAllowed` says that
   a stale copy is the only way there. A rejection can be overwritten in the same way.
2. `WorkflowRevived`: a cancelled workflow can be brought back by an operation that
   loaded the document before (`TerminalIsFinal` with two threads).

Observed while modelling, without a run of their own. *Queue, workflow and loop:*

- Cancelling a workflow and rejecting a stage void PENDING requests only; those in
  RECOVERED or RECONFIRMED survive and can still be approved.
- When a bound request has lapsed, a stage approval fails after the requests before
  it were approved: these rows stay APPROVED.
- A stage request that expires leaves its stage WAITING_APPROVAL; a request made in
  a status that does not lead to WAITING_APPROVAL stays in the queue without a stage.
- A stage can be started though the one before was never approved: only the
  workflow's status is checked. A quality gate attached before a stage is rejected
  still satisfies the gate of the reworked one (`manager.py:479`).
- A `test_run` bound to its own TESTING stage runs after the approval, and
  `record_test_result` then refuses the stage: the request always fails.
- A loop RECOVERED before it had a proposal cannot be prepared any more. A check
  that fails after APPROVED was saved leaves the task APPROVED for ever.
- A rollback restores the files before it checks the loop's move, and then may
  refuse it.
- Executing another task of the plan takes the loop's move to EXECUTING; its own
  proposal is then executed without being recorded. A refused `prepare` leaves a
  proposal behind.
- A crash between the verdict and the learning memory loses the memory.
- Task ids are `et_{plan_id[4:12]}_{i}`: plans that agree in these letters share
  tasks, and planning a plan again reopens its COMPLETED tasks, although
  docs/phase-15.md:44-48 has no way out of COMPLETED.

*Order of work:*

- `on_loop_completed` is only called after a DAG was created or advanced
  (`main.py:832`): nothing advances by itself when a loop completes. `advance` tries
  `ready[0]` only; `execution_loop_prepare` passes by the DAG; a failed source
  blocks its targets for ever. Loop recovery lists at most 1000 loops.

*What is kept on disk:*

- Concurrent requests may lose a move, and share the temporary file of a document.
- A rollback of the first commit (no HEAD before) silently undoes nothing; a
  snapshot that a crash cut off makes preview and restore of the stage raise for
  ever; `capturedAt` is taken before the file is read.
- Beginning decisions.md twice at once erases an entry; two decisions at once share
  a number; after a rollback the index names decisions that are gone, and numbers
  are used again.
- An audit line that lacks only its newline parses, so the startup leaves it, and
  the next entry is joined to it; a crash between quarantine and rewriting leaves
  the readable lines in quarantine. A backup that a crash cut off counts as the latest.

*Queue and endpoints:*

- The actions of benchmarks, validations and strategies raise KeyError or
  ValueError, which the approval does not catch: a refused move leaves the request
  approved, and it never runs again.
- A request can be decided before its pending line is written. Requests that run
  with their stage have no audit line of their own; benchmarks and validations
  write a second success line without a request id.
- The move a debt or benchmark request shows may differ from the one that is
  executed. `validation_create` with an unknown scenario type leaves a hollow
  project. `demo_scenario_create` persists nothing but the row's result.
- `GET` of governance health and drift, the project's context and the
  organization's health write snapshots, and `GET` of impact, risk and
  recommendations write rows, though called read-only.
- `main.py:1710` (`/intelligence/decisions`) is shadowed by `intelligence/routes.py:184`.
  `main.py:1650` reads metrics from another directory than the six other places.
- The intelligence metadata actions capture no snapshot (`main.py:322-343`): a stage
  rollback leaves what they stored.

*Diffs, chats, assistant:*

- The removal of a line that begins with "-- " is taken for a file header and
  silently skipped, although the docstring says strict (`patch_service.py:18`, `:57`); a
  hunk without context is inserted one line early (`:42`); line endings are normalised.
- A vendor's stream that just ends is reported as "done". Anthropic streams drop the
  arguments of tool calls, DeepSeek drops calls, OpenAI splits them; "@tool"
  directives surface in a chat but not in a stream. `/llm/chat/stream` answers 200
  before it fails (docs/phase-31.md:40 says 422).
- A chat is given the *oldest* 200 messages. Activating a provider without a model
  keeps the model of the one before, and marks it connected without a test.
  `build_registry` opens every active key: one that does not open fails the settings
  and all chats.

*Intelligence and organization:*

- `bool(rate or 0) > 0.2` (`main.py`, about line 443) is true for any rate but 0;
  `similar_history` is in no request; a caller's CRITICAL source is BLOCKED in the
  preview and only reviewed when stored; violations are never resolved, so gate 14
  stays BLOCKED after an approved review; a second review overwrites `created_at`;
  "bearer " is sensitive to the rules and not to the risk. `GovernanceResult`'s
  docstring says that rules never block; `rules.py:298-300` do.
- Gate 13 can never be BLOCKED. Effectiveness and decision outcomes are computed
  from tables no endpoint writes. A benchmark with fewer answers than cases scores the
  missing ones as right.
- Ids made of the second collide: strategies, evaluations, simulations, entities,
  decisions, incidents, patterns (docs/phase-24.md:10); a team registered under a
  team of the same second becomes its own parent; debt ids repeat daily and
  snapshot ids monthly; two policy events of one second and project are one.
- Priority "critical" is unknown to the strategies' criteria (KeyError); a batch
  with a strategy that was evaluated before fails after it stored part of the batch,
  and its request stays approved. The graph's node of a decision never gets its
  later status. docs/phase-24.md:58 names other decision states than the code.
- Edge types other than the strategy layer's are never written, and `detect_cycles`
  is never called. Replacing the failure patterns is not atomic.

*Extension:*

- Rejecting a card never tells the bridge. An approval that takes longer than 8
  seconds shows as failed though the action runs. A page that is closed while a card
  is approving leaves it so: it can be neither approved nor rejected nor captured
  again. A request that was staged and not approved is invisible until a restart
  recovers it.
- Every tab writes its whole state over that of the others, so a card can be
  approved twice from two tabs; storage errors are swallowed, and the service
  worker's `onInstalled` may overwrite a first page's write. What is captured while
  a reply streams is cleared at its end.

## Not modelled

Of modelled components:

- *ApprovalStore*: previews, levels, payloads and audit records are data. `ran`
  counts to 2. SQLite and the file system keep what was committed.
- *WorkflowManager*: one workflow; report texts and the contents of the gate;
  approval calls are single steps; a plain action succeeds or fails. Stages are
  never skipped, because no caller does it.
- *ExecutionLoop*: one loop and one plan, whose tasks are planned in any order (the
  code's order is fixed, the model allows more); a result is identified with its
  proposal; a snapshot is captured and restored in one step, though the code goes
  file by file; every task of a plan touches the same files, as the code plans it.
  The executor's own verifier always passes on the inputs the executor gives it.
  Statuses that no code leads to (CREATED and CANCELLED of loops, FAILED and
  ROLLED_BACK of tasks), `mark_rolled_back`, which has no caller, and the memory
  proposal for a task that no loop holds are left out.
- *ExecutionDag*, *TaskDependencies*: dependency types, which have no effect; one DAG.
- *Coordination*: messages between agents and session contexts; `proposals`, which
  only reads. *Memory*: the documents that have no index. *Maintenance*: the
  quarantine of unreadable JSON documents and the health report.
- *Gateway*: what an endpoint reads and puts together; bound requests
  (`WorkflowManager`), expiry and recovery (`ApprovalStore`). One thread decides a row.
- *Chat*: stored conversations, token budgets, prompts. *Assistant*: the encryption,
  which is external: a key opens with the key file that sealed it.
- *Governance*, *Validation*: texts are what they are compared for; trend and
  evidence reports. *Strategy*: scores are data. *OrgGraph*: health and learning reports.
- *Extension*: actions that only read, which need no queue; dashboards, the
  assistant's views, the parser of action blocks. That the storage is there when the
  first page opens is taken for granted.

Components that are not modelled: the context engine, the observation and analysis of
intelligence, project governance reports, simulation, planning and quality, the
engineering graph, code index, demo, replay, export and release. They compute
deterministic reports and indexes from files and tables in one pass, keep no state
that another request waits for, and what they persist goes through the queue as
single inserts, which `Routes` and `Gateway` cover. Git, the test runner and the sandbox are
process and path I/O; deployment and the web stub are packaging.

## Plan

Done, in this order: queue, workflow, loop with their proofs; the order of loops and
tasks; documents with a status, rollback, memory, log, backups, conflicts; assistant,
chats and diffs; claims, measures and what is learned; strategies and the
organization's graph; endpoints, the queue beside the log, records; the extension.

Proved after they were checked: the refinements, and the safety properties of all
modules in the table of proofs.

What would add most next: the stored conversations of the gateway, with the order
of messages under concurrent requests.
