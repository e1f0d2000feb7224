# Formal verification of the probabilistic AI incident commander

TLA+ models of the parts of `paic` (under `src/src/paic/`) whose correctness
depends on the order of steps of several processes, on crashes, and on state
carried from one call, row or table to the next; TLC configurations that check small
instances; and TLAPS proofs of the properties that matter most for every value
of the constants. `PROJECT.json` maps every definition to the lines it models
and lists the runs, the mutants that show each property can fail, the hazards
and the theorems.

Paths below are relative to `src/src/paic/` unless they start with `docs/` or
`tests/`, which are relative to `src/`.

## 1. Inventory

`paic` is a pipeline of command-line stages. Each stage reads validated artifact
directories of the stages before it and publishes one of its own; two stages,
remediation and recovery, also keep a mutable store on disk. There is no server
and no thread pool: concurrency is several processes (operators, CI jobs, the
terminal interface) on one file system, serialised by `flock` where the code
asks for it, and a process can be killed between any two system calls.

| Component | State it keeps | Operations | Hard behaviour |
| --- | --- | --- | --- |
| `remediation/state_store.py`, `executor.py` | `store.json`, `current.json`, `generations/`, `.state.lock` | `initialize`, `execute`, `current`, `validate` | racing executors, crash between rename and pointer, retry, exactly-once |
| `remediation/approval.py` | hash-chained ledger, `.approval.lock` | append a decision, evaluate, issue and verify a token | quorum and window boundaries, rejection against commit |
| `remediation/policy.py`, `artifact.py`, `manifest.py`, `config.py`, `cli.py` | plan, control-state and execution artifacts | assess a proposal, build, load, execute and export | sources republished between the calls of one command, death between a commit and its exports |
| `recovery/lifecycle.py` | `current.json`, `generations/`, `.recovery.lock` | `initialize`, `apply`, `current`, `validate` | history-dependent status, racing reports, crash and retry |
| `recovery/engine.py`, `statistics.py`, `observations.py`, `artifact.py` | observations and report artifacts | derive observations, evaluate them | observations of another execution or of other signals, priority of contradicting metrics |
| `artifacts/lease.py` | lock inodes of a *domain* and its parent (the *gate*), an identity file, per-context tables of held leases | acquire and release shared or exclusive, nested and over several roots | starvation, deadlock, replaced parents |
| `artifacts/publication.py` | staging directory, `.name.lock`, target | enter, commit, exit | crash at each step, exchange and clean-up |
| `tools/gateway.py`, `binding.py`, `policy.py`, `sql.py` | none | authorise, bind, run, rebind, record | sources that change under a call, time-out |
| `tools/ledger.py` | hash-chained `invocations.jsonl` | append, validate | torn append |
| `investigation/orchestrator.py`, `router.py`, `provider.py` | round, tool-call, token and failure counters, preferred route, observed evidence | run, complete | budgets, fallback, answers out of protocol |
| `investigation/probability.py`, `artifact.py` | report, transcript chain | score, abstain, export, replay | a reader who must reconstruct the run from its transcript |
| `simulator/events.py`, `operations.py`, `validation.py` | tables of one simulation, each written from earlier ones and going back to them | generate, validate | rounding, dates at the end of the window, rows of one order in eight tables |
| `detection/` | per series: history, two CUSUM sums, a sequential likelihood; then alerts, events, benchmark results | score row by row, adjust, decide, group, measure, export, validate | gaps and invalid rows, ties, thresholds attained exactly, undefined values |
| `analytics/`, `evidence/`, `impact/`, the build commands of `cli.py` | artifacts | validate, load and digest the sources, build, export, validate | a build reads each source under three leases, between which it can be replaced |
| `evaluation/` | run artifact | score, compare, replay | none (pure) |
| `contracts/`, `web_readiness.py`, `container_*.py`, `dependency_lock.py` | none | validate | none |
| `tui/workspace.py` | none | inspect the artifacts of a workspace, derive the state of each stage and of the whole | must notice directories that each validate and do not belong together |
| `tui/` (screens), `web/` | none | read and render | none (read only) |

How they interact:

- The pipeline stages communicate only through published directories. Every
  writer publishes with `AtomicDirectoryPublisher` and holds an exclusive artifact
  lease; every loader is wrapped in a shared lease.
- The investigation calls the gateway in process; the gateway binds five
  artifacts by their manifest hashes, runs a query, binds them again, and appends
  a receipt to the audit ledger.
- A plan names the investigation report and the control state it was built
  on by hash. `execute` takes the store lock, then the approval lock, evaluates
  the approval ledger, verifies the token and commits a generation.
- A recovery report names the execution receipt; the lifecycle store binds
  itself to that execution at its first report and folds every later report into
  a status that may only end in `reopened`.

What makes each part correct:

- *Control-state store*: no plan and no nonce is consumed twice; the pointer
  always names the end of an unbroken lineage that is on disk; what was
  committed had been authorised; a leftover of an interrupted attempt is
  harmless; every invocation ends.
- *Approvals*: an execution implies a quorum of distinct, registered, independent
  approvals inside the window, with no rejection.
- *Lifecycle*: the status is a function of the whole history of reports; a report
  is applied once, in evaluation order, to its own execution; crashes lose no
  generation the pointer named.
- *Leases*: no reader overlaps a writer of the same artifact, no waiting cycle, and no
  writer is starved.
- *Publication*: a reader sees the old or the new tree, never a mixture or an
  incomplete one; nobody replaces a tree that was not to be replaced; the caller is
  told what happened; what was confirmed survives a loss of power.
- *Gateway*: a recorded success refers to one version of each source, and no answer
  goes out without its receipt.
- *Investigation*: it ends; what it accepts can be reconstructed from its transcript and
  replayed over the sources it is bound to.
- *Signal stages*: what validates was published whole, and what a workspace called
  healthy shows was computed from what stands beside it; an undisturbed workspace
  is healthy, unless its detection has a benchmark that detected nothing.
- *Response stages*: plan, control states, receipt, observations and verdict of a
  healthy response belong to one execution of one plan on one investigation.
- *Detection*: what is kept incrementally is what a definition over the whole series
  says; every alert, event and benchmark point is accounted for once; what is
  published validates.
- *Simulation*: whatever is drawn, the tables reconcile, and those of one order tell
  one story.

## 2. Modules

| Module | Role |
| --- | --- |
| `ApprovalRules` | `evaluate_approval`, `issue_token`, `verify_token` as operators over sets of decisions; `Authorised`, the independent statement of what a quorum is |
| `ControlStore` | the control-state store, the approval workflow around it and the `execute` command; EXTENDS `ApprovalRules` |
| `ControlLineage` | abstract specification: a register that is bound once and consumes a fresh plan with a fresh nonce per step |
| `RecoveryTransition` | `transition_state` and the validator of `RecoveryLifecycleState`, as operators |
| `RecoveryHistory` | reference definitions on the whole history of reports, without counters or flags |
| `RecoveryStore` | the lifecycle store and the `state apply` command; EXTENDS `RecoveryHistory` |
| `IncidentLifecycle` | abstract specification: a growing history of reports and the status it calls for |
| `ArtifactLease` | the gate, domain, identity and data locks of readers of several artifacts and of publishers, some of which read while they publish |
| `ArtifactSnapshots` | abstract specification: readers see one cut through the published trees, publications wait for them |
| `Publication` | `AtomicDirectoryPublisher` from entry to exit, nested and competing, with failing calls, kills and losses of power |
| `PublishedTree` | abstract specification: a register of complete trees |
| `ToolGateway` | `invoke`, `bind_sources`, the audit ledger, and the artifacts that are rebuilt meanwhile |
| `Investigation` | one run of the orchestrator and its router over `ToolGateway`, which it EXTENDS |
| `InvestigationArtifact` | what a reader of the exported run checks: transcript, report, authoritative replay; the properties of both |
| `SignalStages` | the artifacts of the five signal stages and their validators, as operators on directories |
| `ControlRoom` | the state of a stage and of a workspace, as the terminal interface derives it |
| `Workspace` | the inspection of the signal stages of a workspace |
| `SignalPipeline` | the build commands of the signal stages, several at a time; EXTENDS `Workspace` |
| `ResponseStages` | the artifacts of investigation, plan, state, execution, observations and recovery, their validators and their inspection |
| `ResponsePipeline` | the commands of a response over these directories and the transaction store; EXTENDS `ResponseStages` |
| `Detector` | one detection build: injection, incremental detectors, alert decision, events, benchmark, validation |
| `Commerce` | the generator of the commerce tables and their validator |
| `Sums` | the sum of a sequence, as a recursive function, and of counts, as a cardinality |
| `MC...` | constants and symmetry of the module named, for TLC |
| `ControlStore_proof`, `RecoveryStore_proof`, `ArtifactLease_proof`, `Publication_proof`, `Investigation_proof`, `SignalPipeline_proof`, `ResponsePipeline_proof`, `SimulationDetection_proof` (of `Detector` and `Commerce`) | theorems and proofs |

### ControlStore

State and code correspond as follows.

| Variable | Code |
| --- | --- |
| `meta`, `pointer`, `generations` | `store.json`, `current.json`, the entries of `generations/` |
| `stale` | leftover `.store.json.tmp` and `.current.json.tmp` |
| `stateLock`, `approvalLock` | holders of the two `flock`s |
| `binding`, `decisions`, `tokens` | the control state a plan was built on, the approval ledgers, the tokens in circulation |
| `pc`, `args`, `before`, `draft`, `outcome` | one `paic remediate execute` process: where it is, its arguments, the state it loaded, the receipt it computed, its exit |
| `faults`, `commits` | bookkeeping: the number of faults so far, the receipts the pointer has named |

The grain is the durable effect. One action is one step between two points at
which a kill or a failing system call leaves different files behind:
`PublishOrigin`, `OpenMeta`, `WriteMeta`, `OpenOrigin`, `PointToOrigin` for
`initialize`, which refuses a store that is bound to another initial state (`InitializeForeign`); `Load`, `LockApprovals`, `Decide`, `Stage`, `Rename`,
`OpenPointer`, `Replace`, `Return`, `Export` for an execution. `Fail` is an
exception out of any of them; `Crash` is a kill, after which the kernel has
released the locks. Both leave every file as it is. `TemporaryExists` is the
`open("x")` that finds a leftover. Preparing the private `.prepare-` directory is
a local step and is not an action: no code ever reads one it did not create.

### RecoveryStore

`pointer`, `generations` and `lock` are `current.json`, `generations/` and
`.recovery.lock`. A generation is named by its number and a prefix of the hash of
its event, and the event binds the state before, the report and the state after,
so an entry *is* the lifecycle state it holds. `InitializeBound`,
`InitializeRefused`, `InitializeFresh`, `PublishOrigin`, `PointToOrigin` are
`initialize`; `Load`, `LoadRefused`, `Rename`, `Replace`, `Return` are `apply`.
`Validates` is `_validate_lineage_locked`, which the code runs inside every
operation, so a store on which it fails is unusable. `Interrupt` is a crash or an
exception.

### ArtifactLease

| Variable | Code |
| --- | --- |
| `tree` | the inode of the directory published under each root |
| `leaseFile`, `recorded` | the inode of `.<name>.lease`, and the one the identity file in the domain names |
| `gates`, `shared`, `exclusive` | the `flock`s on gates and domains, with their mode |
| `pc`, `op`, `todo` | one execution owner: where it is, what it reads and writes, the leases it has yet to enter |
| `held`, `opened`, `changed` | the leases it holds, the lease file each has open (none for a re-entrant one), whether that file differs from the recorded one |
| `anchor` | `root_fd` of each lease |

A process is one execution owner: the code keys its tables of active domains by
process, thread and task. An operation is a read of some roots
(`artifact_reader_leases`), or the publication of one, possibly with a read inside
(`build_observations` loads what it has staged together with its sources). `BeginRead`
and `Prepare` open the anchors; `Reenter` and `TakeGate` are `acquire_intent`; `Drain`,
`OpenLease`, `Enter`, `Confirm`, `Downgrade` and `LockData` are `acquire_body`, one action per system
call at which another process can be ahead: a reader that has recorded a new identity gives up its
exclusive lock in `Confirm` and takes the shared one in `Downgrade`, since a `flock` is not converted in one step; `LeaseReplaced` is a failed revalidation;
`EndRead`, `ReleaseRead`, `DoneReading` and `ReleaseWrite` unwind in reverse order;
`BeginPublish`, `StartReads` and `Commit` are the publisher; `Fail` is any other
exception, `Crash` a kill, `ReplaceLease` the deletion of a lease file.

The domain of a root and the gate of a domain are constants: they depend on the
permissions of the ancestor directories only. A parent directory that is replaced
makes the next revalidation raise, which is `Fail`. A tree is the inode of
a directory; an inode is used again only when no name and no open descriptor refers to it
(`Unused`). Absent roots, to which no descriptor is opened, are left out, and so are time-outs,
which no caller in the package asks for.

### Publication

A tree is named by the attempt that writes it. `dir` is the parent directory: the target,
the tree under the staging name of each attempt, the writer's lock file. `journal` holds the
directories a loss of power may leave: every one since the last `fsync` of the parent.
`full` and `synced` say which payloads are written and which are on disk. `lease` and `stack`
are the artifact lease, which its owner may enter again, and the attempts nested in each owner;
`pc` and `outcome` are where an attempt is and what its caller was told; `past` and
`barred` are history: what the target has been, and what a confirmed publication replaced.

`Begin` to `MakeStaging` are `__enter__`, `WritePayload` the body, `SyncPayload` to
`RemoveOld` are `commit`, `CleanStaging`, `ReleaseLock` and `ReleaseLease` are `__exit__`, one
action per system call that leaves other files behind. `AbortBody` is an exception of the
body, `Fail` and `FailLeaving` a failing call, `Crash` a kill, `LosePower` the reversion
to any directory of `journal`, with any payload not synced lost, and `RemoveStaleLock`
the operator who deletes the lock file of a dead attempt.

### ToolGateway and Investigation

| Variable | Code |
| --- | --- |
| `published`, `building` | per artifact: its publications, each with the versions of its sources; a rebuild under way |
| `stage`, `call`, `seen`, `checked`, `loaded`, `again` | `invoke`: the call, the hashes of the first binding, the frames, the hashes of the second |
| `response`, `ledger`, `torn` | the answer, the receipts of `invocations.jsonl`, a partial last line |
| `pc`, `round`, `tokens`, `toolCalls`, `bound`, `observed`, `trace`, `transcript`, `report` | the locals of `Investigator.run` |
| `preferred`, `tried`, `failures`, `attempts` | `ModelRouter` |

`Invoke` authorises; `CheckSource` and `HashSource` are one source of `bind_sources`, `LoadSource`
one of `_frames`, `RunTool` the handler, which has a result or raises (a refusal of its policy, its timer, a
result above the byte limit), `RecordReceipt` the append. `ReadUpstream`
and `Republish` are a rebuild beside the gateway, `OtherInvocation` another process at the same ledger; a receipt
carries whose call it is (`InvestigationId`), as the investigation's id in it does.
`BindRun`, `RunBound`, `Nudge`, `Submit`, `CallTool`, `TakeResult`, `Overspend` are the branches of
the loop of `run`; `RouteFails` and `RouteAnswers` are the router. `InvestigationArtifact` reads the
final state as a reader reads the export: it rebuilds the report from the transcript and
replays every call, and knows nothing of the run besides.

### SignalPipeline

`root` is what stands at the path of each stage: a record of the files whose digests the code compares
(`manifest`, `tables`, `config`, and the file that carries or seals them, `marker`), each with what it was
computed from. `builds` is history: every artifact built, with what its command read; `proc` is what each process has yet to do and has
loaded; `commands` and `edits` count. A build is a list of steps - `check`, `load`, `hash` for every
source in the order of `cli.py` - each a call under leases of its own, then `ExportArtifact`.
`Abort` is an exception or a kill, `RestoreFile` an operator who copies back a file of an earlier
generation. The validators of `SignalStages` compare what those of the code compare, and that of detection
refuses tables whose benchmark detected nothing (`Summarised`; `Undetected` says which tables these are);
`Workspace` gives each stage the state that `tui/workspace.py` gives it.

### ResponsePipeline

`root`, `builds`, `proc`, `commands`, `edits` are as above; `store` is the lineage of control states
in the transaction store, `committed` the receipts. A command is a list of calls (`Calls`), of which `at` says which is
next and `got` what each has returned; an execution is given the state that stands at its path or a copy of
the origin kept elsewhere, and `Initialize` compares its manifest with the one the store is bound to. The calls are `BindSources`,
`ReplayInvestigation`, `LoadControlState`, `HashInvestigation`, `HashState` for a plan; `LoadPlan`,
`Initialize`, `Commit`, `ExportState` for an execution; `DerivePayload`, `CheckStaged`,
`LoadObservations`, `LoadExecution`, `HashObservations` for observations and verdict; `Export` publishes.
`Republish` replaces the signals. The interior of `Commit` is `ControlStore`, that of a publication
`Publication`.

### Detector

`stage` is where `build_detection` is. `rows` and `carried` are, per series, the observations so far and the
state `_score_series` carries from row to row: history, CUSUM sums with their starts, the sequential
likelihood. A history is a set of points; its window is the latest of them, its median two order statistics.
`ScoreRow` and `SkipPeriod` score one row, `ApplyFdr`, `FinalizeAlerts`, `BuildEvents`,
`EvaluateBenchmark` and `Export` are the functions of those names, `Inject` the benchmark
perturbations before them; `InjectRefused` refuses scenarios that overlap or match fewer rows than their duration. `GroupAlert` is one pass of the loop in `_build_events`, and `groups` what the loop has
made of each series' alerts: a list of lists, the last of which is `current`. `events`, `results`,
`summary` and `artifact` are the tables and the manifest that `Validates` reads.

### Commerce

One variable per table, rows known by the session they stem from; `phase` and `todo` are the table being
written and the rows it lacks. One action per row in the order of the generator: session, payment, order
(which settles the payment), session outcome, inventory day, shipment, scans, return, refund.
`SimulationRefused` is the exception for a window in which nobody reached payment. `ValidTables` is the
conjunction of the validator's checks, one operator per function. A price, a rate or a delay may be anything
the configuration admits: a tax rate of zero is one (`simulator/config.py`), and since each amount is rounded on
its own, and a tie by the float that lies on it, a refund may then exceed the payment by a cent (`OddCent`); taxed, it
never does. Every scan draws a lag of its own.

### What is abstracted

- A digest is what it digests: a plan hash is the plan, a snapshot hash is the set
  of decisions, a generation name is its receipt or its state. The code cuts
  hashes in directory names to 16 characters; collisions are ignored.
- A state holds at most 10,000 executions; the exception the next one raises is one of `Fail`'s.
- HMACs are ideal: only attested decisions and issued tokens occur.
- The resources of a control state are a function of the executed plans, and
  nothing the properties speak of reads them.
- The statistics that lead to a recovery decision are an input of the lifecycle.
- Appending one decision to the approval ledger is atomic; the torn append of a ledger of
  the same form is modelled in `ToolGateway`.
- A publication's manifest hash never recurs: a source that is replaced and then put back
  within one call would pass the comparison before and after it.
- What a tool computes is the versions it read, and any tool may refuse any call. A call whose handler raised is an
  error in the trace; when it does not raise for a reader, as when a query no longer times out, the authoritative replay of a valid report differs there
  (`AcceptedReplays` names this exception). The tokens of an answer depend on its route.
- The signal artifacts are one root in `ResponsePipeline`, whose content is its lineage, and the
  risk rules of `policy.py` are a function of proposal, report and control flag. Receipt hash and
  manifest hash of an execution are one. Baseline rows and time windows are left out.
- A builder does not compare digests again when it loads what it has validated, so a file put back
  between the two would be read; `RestoreFile` happens only while no build runs. The metrics and incident sections of a
  workspace name the same directories. The workspace that already stands at the start is one
  fixed choice; the printed summary after an export and the fallback of an inspection that
  gets no lease are left out.
- Detection works on integers: every baseline has the configured minimum scale, p-values are data, and
  series selection, baselines of other metrics than counts and the evidence rows are left out. A benchmark scenario
  belongs to one series (`ScenarioOf`); the code's mask (`detection/engine.py:199`) matches rows of several when a
  scenario omits dimension values and each series has a part of the rows it asks for.
- Commerce leaves out rates, dimensions and the seller, pipeline and deployment tables; amounts are cents, times
  half hours, and one product's inventory is kept. The minute between a shipment and its next scan
  (`simulator/operations.py:207`) is less than the unit of time, so `ScanTimes` lets them coincide.
- A flock that a process waits for is granted when it is free; `flock` gives no
  order, and none is modelled.

## 3. Runs

A run sets `CHECK_DEADLOCK FALSE` where a behaviour really may stop: a store whose tokens,
faults and reports are used up, a set of attempts that have all ended, an investigation that has
ended, pipelines whose commands are used up, a published detection, a finished simulation.
That a *running* process is never stuck is the subject of the liveness properties. The two
runs of the leases check deadlock: their processes start over for ever.

| Run | Question | Instance |
| --- | --- | --- |
| `store_race` | Can two processes consume a plan or a nonce twice, break the lineage, or leave the abstract register? | 2 executors, 2 plans, 2 nonces, 2 ledgers, 2 faults |
| `approval_quorum` | Is everything that is executed authorised, at every instant around the window, and does every invocation end? | 2 executors, 4 approvers in 2 groups, the requester among them, window [1,3), token life 1, 2 requests, fairness |
| `retry_with_new_request` | (violated) Does a retry remove what a crash left? | 2 requests, 1 fault |
| `lifecycle_retry` | With the interrupted report always repeated first, does the store stay usable, does the retry succeed, and is the status what the whole history calls for? | 2 processes, up to 4 reports, threshold 2, 2 faults |
| `lease_race` | Can a reader overlap a publisher, see two cuts, or join the readers a writer waits for? | 2 processes, 3 roots in 2 domains of 2 gates, 3 trees per root, 1 replaced lease file, 1 failure or kill |
| `lease_progress` | Does every read and every publication end? | 3 processes with a role each, separate gates, no faults, fairness |
| `publication` | Is the target always complete, is nothing replaced or left that should not be, are callers told the truth, and does every attempt end? | 3 attempts of 2 owners, two of them possibly nested, two that may replace, 2 faults, fairness |
| `investigation` | Is a success computed from one cut, is every call on record, does an accepted report validate and replay, and does the run end? | 2 sources, one built from the other, 2 builds each, 2 routes, 3 rounds, 2 tool calls, 5 proposals, 1 kill or torn line, handlers that raise, fairness |
| `signal_pipeline` | Is what validates whole, and what the control room calls healthy derived from what stands? | 2 processes, 3 simulations over 2 windows, one of them with an undetected benchmark, 3 commands, 1 file put back |
| `response_pipeline` | Is a healthy response one story? | 2 processes, 2 lineages with 2 conclusions each, 4 commands, 1 file put back |
| `detector` | Do the incremental detectors agree with definitions over whole series, and the tables with each other and the validator? | 2 series of 6 periods with up to 5 kinds of rows each, 4 lists of benchmark scenarios |
| `commerce` | Do the tables pass their validator, and fit together where it does not look? | 2 sessions, 3 prices, 5 days |

Why the bounds are enough to show something:

- Two processes are every pairwise interleaving of one lock; the proofs cover any
  number. One fault reaches every crash point; two let
  a retry crash before one succeeds.
- Two plans and two nonces are the least with which a token of one plan can be
  tried on the other and a plan with a second token.
- Four approvers in two groups, quorum 2: the least in which the requester, a
  duplicate approver and two approvers of one group can each stand in for a
  missing one. The window [1,3) leaves an instant before, two inside and one on
  the excluded bound; a token life of 1 lets a token expire inside the window.
- Four reports with a threshold of two let a recovery, a regression, a gap and a
  second regression follow one another, the least in which the counter, its reset and
  the gap matter; `TransitionFollowsHistory` covers all lengths and thresholds.
- For the leases, three roots of which two share a domain: a reader of two domains, a
  publisher that reads one root in its own domain (re-entrance) and one elsewhere, and
  a publisher of the other domain form every wait-for edge of the protocol. Three trees: one
  published, one a reader may still have open, one to publish next. The proofs cover any number
  of processes, roots and directories.
- Three attempts: one inside the other, or after it, and a competitor; two faults let a failure
  meet a loss of power. The proofs cover any number of each.
- Two sources of which one is built from the other are the least with a lineage to mix; two builds make
  one a replacement. Three rounds leave one after both tool calls, two routes one to fall back to.
- Three signal commands beside a standing workspace are a build and two others that replace its
  sources, at any two of its steps; four response commands reach from the plan to the verdict, and beside
  a standing response let two of them be rebuilt while a third reads.
- Six periods: three fill the shortest history allowed, three more let an alert start, be
  interrupted by a gap or an invalid row, and end; a second series is needed for a family of p-values.
- Five days reach an order whose shipment, return or refund falls beyond the window; a
  basket of four items at 1.10 and 1.30 with a discount of 5 or 25 per cent attains the two cents
  the validator allows. The instance is taxed; `OddCent`, the case without tax, is covered by the proof alone.

`MaxFaults`, `MaxTokens`, `MaxReplacements`, `MaxBuilds`, `MaxReceipts`, `MaxCommands`, `MaxEdits`,
`AnswerTokens`, `Horizon` bound the instance and exist only in the model (the lifecycle's `Horizon` and the
control store's are its clock); `Capacity` is the list limit of the lifecycle's data model,
`MaxRounds`, `MaxToolCalls`, `MaxProviderFailures` and `MaxTotalTokens` the budgets of the configuration.

### Fairness

The control store's `FairSpec` asks weak fairness of the steps of each process, which a scheduler gives a
process that is not killed, and strong fairness of the steps that take a lock: the
kernel wakes a waiter of a `flock` whenever the lock is released, and a waiter is not
passed over for ever. `flock` documents no order, so this is an assumption on the
kernel, used for liveness only. For the leases strong fairness is asked of the gate alone
(`PassGate`); that the waits behind the gate end follows from the protocol, and it is what
`lease_progress` shows. `Publication` takes the lease as one lock, of which that run shows that it is
fair (`SF_vars(AcquireLease(a))`), and weak fairness of every attempt's steps. `Investigation` asks weak
fairness of the run alone: neither the pipeline nor the other process of the ledger need ever take a
step. Faults and new invocations are never fair: they need not happen.

### Disagreements

- `retry_with_new_request` (a run): a generation left between its rename and the pointer update is
  discarded only when the retry computes the same directory name. Another request, token or
  time commits beside it, and the store reports *duplicate generations* for good. The
  documentation calls such a generation inert and removed by a retry
  (`docs/CONTROLLED_REMEDIATION.md:98`). The lifecycle store has the same
  flaw (`recovery/lifecycle.py:321`, against `docs/ARCHITECTURE.md:215`): `AlwaysReadable`
  fails on `Spec` and holds on `RetrySpec`, the discipline `lifecycle_retry` is checked under.

Known from the models, without a run. Where a definition is named it states what the code does not keep;
checking it on the instance given shows how.

- The control store never removes a leftover `.current.json.tmp` (`remediation/state_store.py:71`), so each
  later execution fails and leaves its generation behind, against the same line of the documentation:
  `RetryRemovesOrphan`, `Spec`, one fault. The lifecycle store unlinks it first, and is modelled so. The same holds
  of generation 0: one that a crash leaves during `initialize` is refused by the next, in both stores
  (`InitializeRefused`); the sources promise nothing about it.
- A reader of several roots opens them all before it locks the first. The lease of a later root in a
  domain it has locked is re-entrant, and `_enter_reentrant_if_safe` keeps the descriptor opened before
  (`artifacts/lease.py:652`), though the tree may have been replaced before the domain was locked.
  Artifacts kept under one directory, the usual layout, share a domain: `ReadsOneCut` on `OneDomain` and
  `Pair`. It is therefore checked for operations with roots in separate domains (`SeparateDomains`), and for
  roots in a domain the process publishes in, whose anchors are taken under its lock.
- A publisher keeps its gate to the end, and a read inside it takes the gates of its sources through
  descriptors of their own. When a source's domain has the publisher's gate, the process waits for
  itself (`recovery/observations.py:196`): `EveryOperationEnds` on `OneGate` and `Nested`.
- The refusal of unfit arguments is the text of the validation error (`tools/gateway.py:307`); with enough
  unfit fields it is longer than the 1,000 characters of a `ToolError` (`tools/models.py:32`), and `invoke`
  raises instead of answering, against `docs/GOVERNED_TOOL_GATEWAY.md:45`: `RefusalsAreAnswered`.
- A detection is built from analytics loaded before the digest its manifest records
  (`detection/engine.py:1043`); a republication in between passes every validator, against
  `docs/ANOMALY_DETECTION.md:134`: `DetectionFromStanding`. The same window is harmless for analytics, whose
  configuration digest is compared, and for impact and evidence, which are rebuilt when validated.
- A benchmark none of whose scenarios is detected has no mean delay; it is exported as null and
  `validate_detection_directory` requires a number (`detection/validation.py:275`), although
  `detection/io.py:1` calls the artifacts self-validating: `PublishedValidates`. What holds of one build is
  `PublishedValidatesIfDetected`; of a workspace, that the control room shows an error for an undisturbed one with
  such a detection and finds every other undisturbed one healthy (`UndisturbedIsHealthy`).
- An alert on the absolute effect, in a group none of whose rows has a relative change, makes
  `_build_events` raise (`detection/engine.py:662`): `BuildEventsRaises`.
- The approval lock is released before the commit, so a rejection can be on record when the pointer moves
  (`remediation/state_store.py:262`). What `remediation/approval.py:138` promises holds for the decision, not for
  the commit.
- A process killed between a commit and its exports cannot export by trying again: the plan is consumed, and the
  after state and receipt exist in the transaction store only.
- A plan whose proposal names another investigation report is denied, and once exported does not
  validate beside the report it was built on; `UndisturbedIsHealthy` leaves such plans out.

## 4. Proofs

All proofs are by TLAPS, for any number of processes, plans, reports, trees, sources, builds, faults and any
policy constants, from the `ASSUME`s on the constants alone. These type the constants, keep the sentinels apart from
the data, make the set of approvers finite (for quorums), and say that a usable simulation (the impact horizon fits its window, the benchmark detects something) and an
investigated lineage exist, since the pipelines start from a standing workspace, that a proposal cites evidence, which its data model
demands, and that p-values are whole in the unit `Detector` counts them in. `ConfigAssumption`,
`BenchmarkAssumption` and `SimulationAssumption` are what the validators of the configurations refuse, and
what the random streams can draw.

| Theorem | Argument |
| --- | --- |
| `ControlStore_proof!ApprovedMeansQuorum` | counting: distinct approvers inject into the approvals |
| `ControlStore_proof!TypeCorrect` | `TypeOK` is inductive: it records what `before`, `draft` and `args` hold at each control point |
| `ControlStore_proof!ExecutedAtMostOnce`, `LineageIsDurable` | `StoreInvariant` is inductive (below) |
| `ControlStore_proof!OnlyAuthorisedExecutions` | the decision of a process persists: ledgers only grow, bindings are written once |
| `ControlStore_proof!StoreImplementsLineage` | every action is `Bind`, `Consume` or a stutter of `ControlLineage`, read off the pointer |
| `RecoveryStore_proof!TransitionFollowsHistory` | `Faithful` is preserved by `transition_state`: one lemma per field, on the set of regressions after an append |
| `RecoveryStore_proof!TypeCorrect`, `LineageIsDurable` | `StoreInvariant` is inductive |
| `RecoveryStore_proof!StoreStaysReadable`, `RetriesCommit` | under `RetrySpec`, `RetryInvariant` is inductive (below); a refusal without a fault then can only be the report's own |
| `RecoveryStore_proof!StoreImplementsLifecycle` | the pointer's reports grow by the drafted one, and its status is the one of its history |
| `ArtifactLease_proof!TypeCorrect` | `TypeOK` is inductive |
| `ArtifactLease_proof!LocksDisciplined`, `WritersAreAlone`, `WritersAreNotOvertaken` | `LockInvariant` is inductive (below) |
| `ArtifactLease_proof!ReadersSeeOneCut` | `AnchorInvariant` is inductive if no operation reads two roots of one domain |
| `ArtifactLease_proof!LeasesImplementSnapshots` | under the same condition, the step into a read is `Read`, out of it `Leave`, a commit `Publish`, any other a stutter |
| `Publication_proof!TypeCorrect`, `TargetIsComplete`, `ConfirmedIsDurable`, `ReportsAreTrue` | `IInv` is inductive (below) |
| `Publication_proof!PublisherImplementsRegister` | the exchange is `Install`, the sync of the parent `Confirm`, a loss of power `Revert`, any other step a stutter |
| `Publication_proof!NothingIsReplacedUnasked`, `StaleLockKeepsOut` | `LockInv` is inductive (below) |
| `Publication_proof!NothingIsLeftBehind` | `Tidy` is inductive: without a fault, a staging directory or a lock is there only while its attempt will still remove it |
| `Investigation_proof!SuccessfulAnswersAreOneCut` | `Inv` is inductive (below) |
| `Investigation_proof!CallsAreRecorded`, `AcceptedReportsValidate`, `AcceptedReportsReplay` | `RunInv` is inductive on top of it (below) |
| `SignalPipeline_proof!TypeCorrect` | `TypeOK` is inductive |
| `SignalPipeline_proof!ValidArtifactsAreWhole`, `HealthyWorkspacesAreDerived`, `UndisturbedWorkspacesAreHealthy` | `Inv` is inductive (below) |
| `ResponsePipeline_proof!TypeCorrect` | `TypeOK` is inductive |
| `ResponsePipeline_proof!LoadedArtifactsAreWhole`, `HealthyResponsesAreOneStory`, `UndisturbedResponsesAreHealthy` | `Inv` is inductive (below) |
| `ResponsePipeline_proof!HealthyWorkspacesAreOneStory` | the same, without the bound on missing roots that the run's property has |
| `SimulationDetection_proof!AdjustmentIsStepUp` | a row's adjusted value is within the level exactly if a row of no lower rank is within its share; every family has one row per series (`Keyed`), and adjusting it keeps its ranks |
| `SimulationDetection_proof!PublishedIsValid` | what is decided of a row depends on fields that scoring fixed; the counts and the quality gate are those of the tables published |
| `SimulationDetection_proof!EventsAreRuns` | `GroupInv` is inductive (below) |
| `SimulationDetection_proof!ChangesAreCrossings` | `CusumInv` is inductive (below): a maximum with zero, kept row by row, is the largest sum of a run that ends here |
| `SimulationDetection_proof!BenchmarkAddsUp` | `TagInv` and `BenchmarkKept` are inductive (below); the counts are cardinalities of disjoint sets |
| `SimulationDetection_proof!TablesAlwaysAgree` | `SimulationInv` is inductive (below) |
| `SimulationDetection_proof!SimulationIsValid`, `OrdersTellOneStory` | consequences of it in the last state; the cents follow from the bounds of four roundings |

*Why `StoreInvariant` is needed.* Neither `AtMostOnce` nor `LineageOnDisk` is
inductive. A commit is fresh because the process that makes it checked the state it
had loaded, and that check still holds because nobody else moved the pointer. The
control store's invariant says so: `Exclusive` (whoever is between `Load` and
`Return` holds the state lock), `Loaded` (what it loaded is what the pointer names, its
receipt is fresh for it and its directory is in place), `Recorded` (that state lists
exactly the commits so far) and `Bound` (initialisation works on an unbound store
only). The lifecycle's is the same idea: `Exclusive`, `Bound`, `Drafted` (the draft is
the successor of the current generation) and `Sound` (the current generation says what
its own history says).

*Why `RetryInvariant` is needed.* A generation beyond the pointer is harmless as long as the next attempt computes the same
directory name. `RetryInvariant` says what the discipline of retries buys: all commands under way, and every entry beyond
the pointer, are about one report (`OneReport`); such an entry succeeds the current one, so the next `Load` computes its
name and removes it (`OneAttempt`); an unbound store holds the origin at most (`Unbound`); numbers are unique (`Distinct`), and
the whole lineage validates.

*Why `LockInvariant` and `AnchorInvariant` are needed.* That two leases exclude
each other says nothing of the locks behind them. `LockInvariant` ties the two: `Flocks`
(what the kernel guarantees), `InOrder` (a process enters the root it publishes first, then
those it reads in order, which is why it never enters one twice), `Holds` (every lease held
lies in a domain that one of them has locked, the publisher's exclusively and with its gate)
and `Enters` (what has been locked at each control point of `acquire_body`). A writer that
drains holds the gate (`Enters`), and whoever would join the readers holds it as well, which
`Flocks` forbids. `AnchorInvariant` adds that the anchor of a held lease is the published
tree, which a commit cannot change: its domain is locked exclusive by the publisher and by
nobody else; and that a publisher's anchors in its own domain are current, which is what a
re-entrant lease relies on.

*Why `Publication_proof!IInv` is needed.* `TargetComplete` speaks of the one directory there is, but a loss of power
may bring back any of those in `journal`. `Sound` says of each of them that its target was once
visible and is not barred, and of everything ever visible that its payload is on disk; and of each attempt
that it is written or synced when its control point says so. `Reported` ties what the caller is told
to whether the tree was installed. A confirmation makes the present directory the only one in `journal`,
which is why what it bars cannot come back.

*Why `LockInv` is needed.* `NoUnwantedReplacement` relates a check to an exchange that comes a lock, a body and an
fsync later. `Unreplaced` says that in between the target is absent, which another exchange could undo. That there is
none takes both locks. `Leased`: every other attempt under way past the lease is the same owner's. `Nesting`: it is then
lower on that owner's stack, and in the body of its publication. `Locking`: it would have the lock file in that body,
and there is one lock file. A kill releases the lease with the lock file still there; `Locking` then says
that nobody else can be at a point where the lock is held, which is `StaleLockHolds`.

*Why `Investigation_proof!Inv` is needed.* No lock is held over a tool call, so each source may be republished between
its validation and its hash, in either binding. That the hashes agree squeezes what was read between them (`Passes`), hence
`result = sources`. It does not yet make them one lineage: a source hashed first may be replaced before the last one is
validated. `Validated` has the two halves: the version of each source in the second binding was built
from upstream no older than the first hashes, because its validation compared it with what was current; and the version in the
first was built from upstream no newer than the second hashes, because a publication records only versions that
exist (`Lineages`). When the two agree, so do the halves.

*Why `Investigation_proof!RunInv` is needed.* The three properties compare a finished run with what a reader can
reconstruct, so the invariant carries both along. `Calling`: the answer under way fits what the policy decides. `Traced`: each
entry of the trace rests on the binding of the run, `observed` is what the successes cite, and a success makes the binding
one lineage, from the theorem on single answers. `Transcribed`: how many provider answers and tool results precede each event of the
transcript, which fixes the round and the call it belongs to; this is why the reader's definitions count events.
`Recorded`: the ledger is ahead of the trace by at most the answer about to be taken up, and receipts of other processes do
not count. A proposal cites evidence, evidence is observed by a success, so an accepted report rests on one lineage.

*Why `SignalPipeline_proof!Inv` is needed.* A validator sees one directory, the properties speak of several and of the commands
that wrote them. The invariant follows every build: what stands under a manifest was published with it, even if a file was put
back since; each build is whole, and derived from what its command read; a builder of analytics holds tables of the very
configuration it validated, because no file is put back while it runs. What stood still since it was read makes the build
that read it fresh, hence healthy.

*Why `ResponsePipeline_proof!Inv` is needed.* `Standing` and the facts on builds are as above, but a response runs through the
transaction store as well, where nothing is replaced. `Committed` says that each receipt was executable in the state before it,
so that a receipt fixes plan and states; `Sane` and `Noted` say of each call a command has made that what it returned was
read of a directory or of the store. A command's result then belongs to one investigation, plan and execution
because each of its calls compares digests with an earlier one. Only the standing generations of an *undisturbed* response
are known to be those that were read; this is the difference between *one story* and *healthy*.

*Why `SimulationDetection_proof!GroupInv` is needed.* The property speaks of the events of the finished build, the loop sees one alert and
the group before it. `AreRuns` says of the groups so far that each is a run of periods, every one an alert, and that a period
is left out between one group and any later one, not just the next; `Covered`, that an alert not yet in a group is later than
all of them, so that the loop, which takes the earliest, passes none over. That an alert belongs to one event needs in addition that a series has
one row to a period, which is `Keyed`.

*Why `CusumInv` is needed.* `ChangePointsAreCrossings` speaks of the finished series, with sums over all runs of rows that
end at a row; the engine keeps two numbers and two starts. `Sums` says of the series so far that these numbers are
the largest of those sums (or zero) and that the starts belong to the latest run that attains them, and of every row
scored what it recorded. A new row extends each run by one term: the reference sums are `Total`, and what is
needed of them is one equation (`RunningSumIs`).

*Why `TagInv` is needed.* The benchmark counts hits by the scenario a row was tagged with and injected points by what the
configuration says. `TagInv` says that the tag of a row is the one scenario whose window it is in, that no row of a window is
skipped, and that at the end every series has been scored to its last period; `BenchmarkKept`, that a build that went past
`inject` has scenarios that overlap nowhere and have their rows.

*Why `SimulationInv` is needed.* The validator sees the last tables; while they are written, each is incomplete and goes back to
an earlier one. `SimulationInv` says which rows there are in each phase (`TablesFill`), and one agreement per table that holds from
the moment a row is written: a payment takes the total of its order (`PaymentsAgree`), items and amounts add up to the cents the roundings
leave (`ItemsAdd`), the state of an order is that of its shipment (`OrdersAgree`), and so on. A session is complete
exactly when it has an order (`SessionsComplete`), and its stage is that of its level only after the last pass
over the sessions (`SessionsFinal`), which is where the order of the phases matters.

Model-checked only:

- liveness (`EveryInvocationEnds`, `EveryOperationEnds` on instances with separate gates, `EveryAttemptEnds`,
  `EveryRunEnds`; the lifecycle store has one lock, which it holds over no wait), which is out of this prover's reach.

Every invariant and every action property of a passing run is a theorem. The reference definitions use sets, quantifiers and
counting where they can, and the grouping of alerts is a loop whose passes are steps. Where a sum is compared (`Total`, in
`Detector` and `Commerce`), the induction the library's theorems cannot give is carried out over a set of natural numbers
instead of an operator: the least number at which a claim fails does not exist (`SetInduction`). With it `RunningSumIs` shows that
the recursive function exists and satisfies its equation, which is all the proofs use.

## 5. Plan

Done, in this order: `ControlStore` with `ApprovalRules` and `ControlLineage`; `RecoveryStore` with
`RecoveryTransition` and `IncidentLifecycle`; `ArtifactLease` with `ArtifactSnapshots`; `Publication` with
`PublishedTree`; `ToolGateway`, with the ledger and its torn appends, and `Investigation` over it; the two
pipelines, with the control room as their judge; `Detector`; `Commerce`.

What would come next, in order of importance:

1. `ControlStore` with `RecoveryStore`: a rollback is a new plan, a new execution starts a new lifecycle.
2. The decision priority of `recovery/engine.py`, the risk rules of `remediation/policy.py` and the inverse actions
   of `remediation/executor.py` against reference definitions.
3. `ArtifactLease` under the leases of `SignalPipeline`, instead of one cut per call.

## 6. Not modelled

- The numerical layers are functions of tables over real numbers, which TLC does not enumerate: the metrics and
  quality tests of `analytics`, the survival, propensity and bootstrap estimates of `impact`, the distributions and
  scales of `detection/statistics.py`, the intervals of `recovery/statistics.py`, posterior and information gain of
  `investigation/probability.py`. What is done with their results is modelled where the table of components says so.
- The SQL policy is a filter on syntax trees in front of an embedded database; it has no state.
- `contracts/`, `web_readiness.py`, the container and dependency checks and `evaluation/` are stateless
  validation and scoring.
- The screens of `tui/` and the bundle of `web/` only read and render. `scripts/` is tooling around the package.
- The dimension tables and the seller, pipeline and deployment records of the simulator, which depend on no
  other row.

Each is listed in `PROJECT.json` with its status.
