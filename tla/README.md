# A verification of Amiral's orchestration runtime

Amiral turns a plan into a graph of tasks, lets coding agents work on them in
isolated git worktrees, integrates their branches and passes the result through
Visual QA, a review gate and a QA gate. All of its state is in files of the project:
`tasks/<workflow>/state.json`, `history.json`, `review-loop.json`, the gate results
in the integration worktree, and `.amiral/amiral.lock`. Every command is a
short-lived process that loads, changes and rewrites these files (and
`tasks/.active-workflow`, the selection that commands without an id act on). What makes the
system correct is therefore what holds of the files between any two steps of any
sequence of commands, crashes and retries; this directory states that in TLA+,
model-checks it with TLC and proves its core with TLAPS.

Paths below are relative to the repository (`scripts/lib/` unless said otherwise).

## 1. Inventory

| Component | State it keeps | Operations | What must hold |
|---|---|---|---|
| Workflow state (`workflow-store.ts`, `types.ts`) | `state.json`, `history.json`, the active pointer | load, save (overwrite in place), derive the status, record events, resolve the active workflow | the status agrees with the tasks; state and history tell the same story; the selection is what was selected |
| Task graph queries (`task-graph.ts`, `task-graph-analysis.ts`) | none | ready tasks, transitive dependencies, independence, validation | readiness means that all dependencies are completed |
| Scheduler (`scheduling-service.ts`, `scheduler-retry.ts`, `scheduler-routing.ts`) | leases, attempts, retry times in `state.json` | recover expired leases, promote due retries, choose, hold conflicts, claim | capacity, conflict domains and budgets are respected across crashes |
| Dispatcher (`dispatcher-service.ts`, `provider-retry.ts`) | a pool of runners in memory | run an agent in a worktree, commit, persist one of four kinds of outcome | an outcome is persisted once, to the attempt it is of; no failure takes others along |
| Project lock (`runtime-lock.ts`) | `.amiral/amiral.lock`, `.amiral/amiral.lock.guard` | acquire, take over a stale lock, release | at most one holder; a dead holder never locks the project for ever |
| Orchestration loop (`orchestrator.ts`, `src/cli/commands/run.ts`) | none of its own | iterate: schedule and dispatch, integrate, gates; stop for one of nine reasons | "completed" means integrated, reviewed and tested; the loop ends |
| Quality gates (`gates-service.ts`) | `review-result.json`, `qa-result.json` | run a reviewer or QA agent, read and normalise its verdict, complete the workflow | a verdict is used for the content it was given on |
| Review fixes (`review-fix-service.ts`, `review-fix-planner.ts`, `review-loop-state.ts`, `workflow-mutator.ts`) | `review-loop.json`, fix tasks in `state.json` | turn findings into fix tasks, count the round | rounds are bounded, and a round is counted once |
| Operator commands (`workflow-admin-service.ts`) | `state.json`, the active pointer | cancel, retry a task, retry by status, use; views | nothing is taken away that is being worked on; a cancellation leaves the selection of others |
| Worktrees and integration (`git-worktree.ts`, `worktree-lifecycle.ts`, `integration.ts`, `task-finalizer.ts`) | branches, worktrees | create, reuse, commit, merge, clean | completed work is on its branch, merged work is not lost |
| Providers (`providers/`) | a child process | run a prompt, classify an error, extract the output | an error is classified as retryable only if it is |
| Visual QA (`visual-qa.ts`) | the development server's process | start, wait until ready, check routes, stop | only a server it started is stopped, and always |
| Workflow creation (`workflow-create.ts`) | a new workflow's files | write graph, state, history, pointer | a half-created workflow can be told from a whole one |
| Planning (`planning-service.ts`, `task-graph-planner.ts`, `task-graph.ts`) | a plan and its diagnostics | call designer and planner, retry, parse, validate | the first valid plan is taken, no cycle passes, a failure is documented |
| Capability routing (`capability-scheduler.ts`) | none | choose an agent for a task | the choice keeps the task's work within what the loop waits for |
| Configuration, contracts, CLI, set-up | `team.yaml` | parse, validate, print | no protocol of their own |

**Interactions.** A command takes the project lock, then calls the services in its
own process. The orchestrator calls the scheduler, re-reads the state, calls the
dispatcher and awaits its pool; each runner of the pool loads and saves `state.json`
by itself. The gates and the review fixes read and write files that the next
*command* reads again, so a crash hands a half-done step to a process that knows
nothing of it. The operator changes the same files between two runs.

**What is hard here.** Runners of one pool interleave between the load and the save
of one file. A write truncates before it writes. A crash separates any two saves,
and a lease or a retry time then decides what the next run does. Lock files of dead
processes are taken over while others race for them, and process ids are used again.
Results and counters that are kept in separate files (the QA verdict, the review
round, the Visual QA iteration) are read long after the state they were about has
changed. Two commands (`amiral status`, `workflow history`) take no lock and may still
write the selection. `PROJECT.json` lists each of these hazards at its line with the properties
that watch it.

## 2. Modules

```
WorkflowState            state, queries, updates of one task (pure definitions)
├── TaskLifecycle        abstract: what may happen to a task
└── WorkflowRuntime      scheduler + dispatcher + operator + crashes + time
    ├── MCWorkflowRuntime
    └── WorkflowRuntimeProofs    invariants, refinement of TaskLifecycle
DispatchPool             the pool, load and save taken apart
└── DispatchPoolProofs
ProjectLock              abstract: what a command may take the lock for
└── RuntimeLock          the lock, one step per file system call
    ├── MCRuntimeLock
    └── RuntimeLockProofs        invariants, refinement of ProjectLock
WorkflowStore            the files under tasks/, one step per read and write
DevelopmentServer        the process Visual QA launches
└── ProjectCommands      commands = ProjectLock + WorkflowStore + DevelopmentServer
    ├── MCProjectCommands
    └── ProjectCommandsProofs
QualityGates             the loop above the scheduler
└── QualityGatesProofs
GraphValidation          the cycle search, one step per call and return of `visit`
├── GraphValidationProofs
└── GraphAnalysis        transitive dependencies, depths, warnings
RetryPolicy              classification of provider errors, delays
Planning                 planWorkflow (EXTENDS GraphAnalysis and RetryPolicy)
├── MCPlanning
└── PlanningProofs       rests on GraphValidationProofs
CapabilityRouting        the choice of an agent
└── Delivery             worktree, artifacts, result, commit, merge, clean-up
    ├── MCDelivery
    └── DeliveryProofs
```

Five modules look at the same run at five grains. **WorkflowRuntime** makes each
save of `state.json` one step together with the load before it, which is exact while
the lock is held and one runner at a time is between its load and its save
(`SequentialSavesAreAtomic` proves it of DispatchPool with one runner).
**DispatchPool** drops that assumption: it keeps little of a task (status, attempts,
lease) and takes load, truncation and write apart. **QualityGates** makes a whole
dispatch round one step and follows what the other two leave out: gates, rounds,
what the verdicts were given on. **Delivery** takes one runner's executeRequest and
the integration phase apart into their git operations and leaves dependencies,
budgets and rounds to the others. **WorkflowStore** looks at the files of several
workflows and leaves out what is in a state, except that each save has an event.
**ProjectLock** is the assumption the others rest on, that at most one command works
at a time; **RuntimeLock** implements it, and **ProjectCommands** composes it with
the store, the server and the commands that do without the lock.

### WorkflowState and WorkflowRuntime

`wf` is `state.json`: the workflow's status and its tasks in array order, each with
status, attempts and the two timestamps the code compares with the clock, kept as
the time that is left (`lease`, `wait`). `phase`, `claims` and `running` are what a
`run` command has in memory. `started` is a history variable.

| Action | Code |
|---|---|
| `RecoverExpiredLeases`, `PromoteDueRetries`, `RoundBlocked`, `ClaimReadyTasks` | the saves and the early return of `scheduleOnce`, in their order |
| `RoutingFails` | `routeReadyTasks` throws |
| `DispatchRequests`, `DispatchDone` | `listDispatchableRequests`, `dispatchRequests` and the loop around them |
| `ApplyResult`, `ApplyProviderRetry`, `ApplyPermanentProviderFailure`, `FailLeasedTask` | the four ways a runner persists its outcome |
| `Crash` | the process dies: the files stay, the memory is gone |
| `Tick` | the clock |
| `CancelWorkflow`, `ManualRetryTask`, `RetryByScope` | `workflow-admin-service.ts` |

`FindReadyTasks` walks the array, so a claim takes a *slice*: `IsSlice` says which.
The claims of a round are a fixed point: a candidate is held by a conflicting task
that was claimed before it, and `ClaimReadyTasks` states the set by that equation.
`TransitiveDeps` is defined by closure rather than by recursion, so that the module
can be proved about.

**TaskLifecycle** is the abstract promise: a task starts on completed dependencies
with attempts left, an attempt has one outcome, only an operator undoes an outcome.
`ImplementsLifecycle` is the refinement, with `st <- status` and `tries <-
attempts`.

### DispatchPool

`file` is the content of `state.json` (valid, truncated, or a shorter text over the
rest of a longer one) and the last full text; a runner carries the copy it loaded.
`EndExecution` chooses among the outcomes an agent run can have; `LoadState`,
`Truncate` and `Write` are the persister; `LoadFails` is the error path (the file
cannot be read, the lease is not the runner's, the delay of a retry cannot be
computed), which for `applyResult` falls back to `failLeasedTask` and for any other
persister rejects the pool, whereupon the command ends while the other runners go on.
`delaysFit` is the configuration: whether `base_delay_ms` is at most `max_delay_ms`.

### RuntimeLock

One step per file system call of `acquireLock` and `releaseLock`. The guard of
`proper-lockfile` is external and modelled as a mutex that goes stale with its
holder's death. Pids may be used again: `IsProcessAlive` only knows the pid. A lock
file that is empty or invalid, as a crash may leave it, has no holder. `crashed`
has the commands that died. The refinement
mapping is `holder <- Holder`, the commands that are between their acquisition and
their release and alive: a crash releases the abstract lock, however long its file
stays.

### WorkflowStore, DevelopmentServer and ProjectCommands

Each command has a step it is `at`, the job it was given and the workflow it works
`on`; the stores are shared. A workflow is a directory (`present`) with a state that
can be read (`loadable`) or cannot, a set of events and the number of states that
were saved; event n is the one of the n-th state, so that the two can be compared.
`chosen`, `adopted`, `overtaken` and `early` are history variables.

| Action | Code |
|---|---|
| `CreateWorkflow`, then `SaveTruncates`, `SaveWrites`, `AppendTruncates`, `AppendWrites`, `PointTruncates`, `PointWrites` | `createWorkflowFromGraph`, write by write |
| `NameWorkflow`, `OmitWorkflow` | a command with an id, and without one |
| `ReadPointer`, `CheckActive`, `ListWorkflows`, `AdoptTruncates`, `AdoptWrites`, `Load` | `resolveWorkflowId` and `loadState`, read by read |
| `Change`, `RecordFirst`, `Finish` | a run saves and then records (`applyResult`), records and then saves (`scheduleOnce`, `appendFixTasks`), or ends |
| `Unpoint`, `Unlink` | `cancelWorkflow` reads the selection and removes it |
| `ProbeFirst`, `GiveUp`, `Poll`, `ProbeAgain`, `Evaluate`, `Terminate`, `Shutdown` | `DevelopmentServerManager.start`, `VisualQAService.evaluate`, `stopOwnedProcess` |
| `Exit` (`ServerExits`) | the server's process exits, by itself or because of a signal |
| `Status`, `AcquireLock`, `RefuseHeld`, `ReleaseLock`, `Crash` | a command without the lock; `withLock`; the process dies |

Who answers at `ready_url` is open at every probe: the process launched here,
another one, or nobody.

### QualityGates

One step per write of `runWorkflowUntilPause` and what it calls: integration, Visual
QA with the two files of its result and its fix tasks, the review gate, the two writes of a fix round (tasks, then
`review-loop.json`), the block, the QA gate and its two writes. `tip` counts the
work on each task's branch and `merged` says how much of it is integrated;
`reviewed` and `tested` record for which content the gates last said PASS. A gate's
agent may exit with 0 and write nothing (`AgentIsSilent`): the file of an earlier
gate is then read as its result, and one that fails may have written its file, or not.
One fix
task stands for all of its round; a round that is repeated because a crash kept it
from being counted may create tasks for findings the first one did not have, or none.
A crash in the write of `review-loop.json` leaves a file that `loadReviewLoopState`
takes for no rounds at all (`NoReviewLoopState`). A run that can claim nothing stops,
for want of work, for a block or with no_progress (`NothingClaimed`). A task that waits for the reviewer or QA agent in
the plan itself is never scheduled (`isGateAgent`), which the initial states offer
as an alternative: with one, the derived status never becomes completed and the
gates are reached by the other path.

### GraphValidation, GraphAnalysis, RetryPolicy and Planning

`GraphValidation` is the depth-first search of `assertNoDependencyCycles` with the
call stack as state: `visited` lists the tasks whose call has returned, the stack's
ids are the ones `visiting`. `GraphAnalysis` and `RetryPolicy` are operators.
`Planning` is `planWorkflow`: an answer is a sequence of JSON objects, each either
no plan at all or a task list, which the search then validates; `prompt` calls are
retried as `RetryPolicy` says, rejected answers are asked for again. Where
`base_delay_ms` is above `max_delay_ms`, `calculateRetryDelay` throws and planning ends
(`DelaysFit`). A failure is
the set of the text rules that match its message, since one message may match
several and the order of the rules decides.

### CapabilityRouting and Delivery

An edit is `<<t, n>>`, what the agent changed in the n-th lease of task t; a branch
is the set of the edits in its history, a merge a union, ancestry inclusion. A
worktree has edits that are not committed, artifacts the orchestration copied in,
and the result file that is lying there, whoever wrote it.

| Action | Code |
|---|---|
| `Claim`, `RecoverLease` | readiness, then routing, in `scheduleOnce` |
| `CreateWorktree`, `ReuseWorktree`, `WorktreeFails` | `createTaskWorktree` with the `baseRef` of `executeRequest` |
| `MaterializeArtifacts` | `materializeTaskArtifacts` (`COPYFILE_EXCL`) |
| `AgentEdits`, `AgentEnds`, `ProviderFails` | `OpenCodeProvider.execute`, `readAgentResult`, `assertResultContract` |
| `FinalizeTask`, `FinalizeFails`, `ApplyResult` | removal of the copies, commit, outcome |
| `StartIntegration`, `MergeNext`, `StartGates` | `runIntegrationPhase`, `mergeTaskBranch` with its abort |
| `GatesAskForFixes`, `GatesPass` | the gates, as far as branches are concerned |
| `Crash`, `Retry`, `Clean` | a crash at any of these points; the operator between runs |

## 3. What is checked

| Run | Instance | Result |
|---|---|---|
| `runtime` | 4 tasks: 1 and 2 share a domain, 3 depends on 1 and runs beside 2, 4 is on its own; budgets 2, 2, 1, 1; 2 slots; lease and delay of 2 ticks; 4 interventions | holds (409,475 states) |
| `dispatch` | 2 tasks, 2 attempts, pools of 1 and of 2, delays that fit or do not, 1 crash | holds (543,997 states) |
| `dispatch_lost_outcome`, `dispatch_batch_rejects` | a pool of 2, no crash | violated |
| `dispatch_torn_state` | a pool of 1, 1 crash | violated |
| `runtime_lock` | 4 commands, two of them with the same pid, 2 crashes, a valid or an invalid file at first | holds (11,410 states) |
| `gates` | 1 task, 1 review round, 2 Visual QA iterations, 1 command, 1 fault (a crash or a silent agent), with or without a gate task | holds (858,000 states) |
| `gates_redone_work` | 1 task, no UI, 1 command | violated |
| `planning` | answers of up to 2 objects, 9 task lists of up to 4 tasks and objects that are no plan, 5 kinds of failure, 2 transport attempts, jitter on, a base delay below the cap and one above it | holds (86,488 states) |
| `delivery` | a task with artifacts and a fix task, 2 leases each, 2 mishaps (crashes or failures of git), 3 clean-up policies, ids that are their own segment and ids that are not | holds (734,322 states) |
| `commands` | 2 commands with the lock (one may run Visual QA) and 1 without, 2 workflows of which one may exist and be selected before, 2 saves for each, 1 poll, 1 crash | holds (521,740 states) |
| `delivery_unguided` | 2 tasks, one routed by a capability the reviewer has, 1 lease each, no mishap, no clean-up | violated |

### The properties

*Runtime.* `ExecutionSound`: what is claimed or running is in_progress in the file
and its dependencies are completed there. `BudgetHonoured`: a task is run no more
often than its attempts were counted, and no more are counted than its budget.
`CapacityRespected` and `ConflictExclusion` count the leases that crashed runs left
behind. `StatusAgrees`: the status that the scheduler, the runners and the operator
save is the derived one; the only lag is that of the promotion of due retries. (The
block after the last review round and the completion by QA are not derived; they are
in QualityGates, and there a retry that derives the status afresh is what lifts a
block.) `EventuallySettled`: once interventions stop, the workflow is cancelled
or nothing is under way and nothing can be scheduled.

*Dispatch.* `SequentialPoolSound`: with one runner every outcome is persisted and,
where the configured delays fit, the batch never rejects. `LockReleased`: no run waits for ever.

*Lock.* `ImplementsLock` (what the file operations do is ProjectLock, which has one
holder at most), `HolderIsRecorded`, `SomeoneAcquired` (contenders do not
all refuse each other) and `StaleIsTakenOver`: a contender that finds no live holder,
whether the file names a process that died or nobody at all, gets the lock, unless it
dies itself or the dead holder's pid belongs to another process by then.

*Gates.* `CompletionApproved`: a run that reports completed has done everything,
integrated it, and what is integrated passed review and QA, unless the gate's agent
wrote nothing, and no severe finding of Visual QA is left, unless a crash kept a
result from becoming the one that stands; across crashes, failed gates, retries and
cancellations. `FixRoundsBounded`: beyond `max_review_rounds` a
fix task is executed only by way of a crash or of a command that lifts the block.
`ExhaustionIsReal`: without a crash and without `amiral qa` by hand, "max_review_rounds" means that the rounds were
used or the reviewer repeated itself after the last fixes. `RunPauses`: every
command ends, without the help of the 25-iteration bound.

*Planning.* `VerdictIsRight`: the search accepts what can be worked off in some order
and speaks of a cycle only if there is one. `FirstValidWins`: the plan is the first
valid one of the last answer. What is acyclic is said without a search: of any tasks
that are left, one depends on none of them. `ReportIsSchedule`: depths and independent pairs of the report are those of
the plan. `Validation`: what planning does with the validator is a behaviour of the
specification that the proofs are about. `FailureIsDiagnosed`,
`RetriesOnlyTransient`, `WaitsWithinBudget` and `PlanningEnds` are about the two
nested loops of attempts and transport retries: a call is repeated exactly if its
failure is transient, the budget is not used up and a delay can be computed, which
needs a `base_delay_ms` that is not above `max_delay_ms`.

*Delivery.* `CompletedIsKept`: edits of a completed attempt stay in a branch until
the operator deletes it. `IntegratedWhenCompleted`: a QA PASS comes when all
recorded work of completed tasks is in the integration branch, and not on half a
merge. `FixBuildsOnReviewed`: a fix's worktree contains what its review saw, also in
a later attempt. `OwnResultOnly`: a stale result file never completes a task.
`CopiesStayOut`: copied artifacts are never committed.

*Commands.* `SelectionStands`: the selection is what was last selected, by creation,
by `workflow use` or for want of another; cancelling one workflow does not take it
from another, and a half-created workflow is selected only where nothing else is
there. `HistoryAgrees`: no event of a state that was never saved, but for the one a
run recorded and died over, and when nobody works and nobody died no event is
missing; this is for a pool of one runner. `OwnServerStops`: whatever becomes of
start-up and evaluation, the process that was launched has exited in the end, unless
the command died. `SelectionStands` excludes the race of a command without the lock,
see below. What makes `HistoryAgrees` hard is the order of an event and its save over
crashes, not an overlap of two writers, which the lock rules out.

### The disagreements found

* **An outcome can be lost** (`OutcomePersisted`). Each runner loads and rewrites
  all of `state.json`; with a concurrency above one, a save can take back what
  another runner persisted. `.opencode/orchestration/execution.md:229` promises
  "completed → task = completed". The defaults (`max_parallel_agents: 1`,
  `max_concurrency: 1`) are not affected.
* **A batch can reject** (`BatchNeverRejects`). The comment at
  `dispatcher-service.ts:680-682` says it never does; persisting a provider failure
  has no handler.
* **`state.json` can be left unreadable** (`StateReadable`). `writeJson` truncates
  and then writes, against `README.md:176` and `:673`.
* **"completed" can be stale** (`RedoneWorkIsApproved`). The QA result that makes a
  completed workflow final is not bound to what it was given on (`README.md:665`).
  Running `amiral qa` by hand before all is done has the same effect, which is why
  `CompletionApproved` excludes both.
* **"completed" without a task's work** (`AllWorkIntegrated`). Capability routing
  may choose the reviewer or qa; `findReadyTasks`, the loop's count of open work
  (`orchestrator.ts:650`) and the integration phase (`:189`) each leave the tasks of
  these agents out. In `team.yaml` only qa has `testing/unit`. If such a task is
  interrupted by a transient failure it is never resumed, if it completes it is
  never merged, and in both cases a QA PASS completes the workflow
  (`README.md:665`).

What was met on the way and is no property of a run:

* `resolveProviderConfig` checks `base_delay_ms` and `max_delay_ms` only one by one
  (`team-config.ts:305-314`); with `base_delay_ms: 60000` and the default cap of 30000
  `calculateRetryDelay` throws (`retry-policy.ts:61-63`) while `applyProviderRetry`
  persists the first transient failure. The batch rejects, also with one runner, and
  the task is left in_progress until its lease expires; in planning the same throw ends
  `planWorkflow`. `SequentialPoolSound` promises that no batch rejects only where the
  delays fit (`delaysFit`), and `RetriesOnlyTransient` names the case.
* `README.md:682` says that commands that mutate shared runtime state use a project
  lock. `amiral status` and `workflow history` without an id do not, and
  `resolveWorkflowId` writes the selection for them: one that listed a sole workflow
  before another command created or selected a second one overwrites that selection.
  `overtaken` in `ProjectCommands` marks exactly this, and `SelectionStands` says
  nothing once it happened.
* `README.md:693` says that diagnostics are persisted for planning failures; when
  the planner's process cannot be started at all, the error leaves `planWorkflow`
  before anything is written. `FailureIsDiagnosed` excludes that case
  (`SpawnFails`).
* The text that `classifyProviderFailure` matches contains the task's id
  (`opencode-provider.ts:468`), so an id like `API-429` or `FIX-500` makes any
  failure look transient.
* The base of a fix task is `amiral/<workflow id>/integration` with the id as it is
  (`dispatcher-service.ts:299`), while the branch was made from the sanitized id:
  with capitals or spaces in the id no fix worktree can be created. `plainName` is
  that alternative in `Delivery`.
* Artifact copies that a crash leaves behind make every later attempt fail
  (`dispatcher-service.ts:439`) until the worktree is cleaned. A stale result file
  likewise turns an attempt whose agent answered only in text into a failure.
* `clean --completed --delete-branches` before integration deletes work that is not
  merged yet; integration then skips the task. `CompletedIsKept` calls such edits
  `discarded`.
* Leftovers of failed attempts are committed by the next completed one, which
  `workflow-admin-service.ts:441` intends.

### Bounds, and why they suffice

Three tasks are what it takes to have a dependency, a conflict and a pair that runs
side by side, and the fourth competes with each pair for the two slots, so that
nothing but the slots stops a third claim beside the leases that a crash left. Budgets of one and two separate "counted" from
"exhausted". Four interventions allow a crash in each of two rounds, a cancellation
and a retry. Two runners are enough for every read-write race on one file. Four
commands with three pids are a holder, two contenders and a process that got the
holder's pid. One review round makes the next one the surplus round; one crash and
one command each let one more through, which `FixRoundsBounded` counts. Two delays in
the wrong order are one case, whatever their values: no delay is ever computed. The one
fault is a crash or a silent agent; with it a result file that is missing although
the iterations are used up is out of reach. Two Visual
QA iterations are the fewest that create fixes. Four tasks suffice for the shapes
that a cycle search can confuse (a dependency that two share, a shortcut, a circle
through the root or beside it, a task that depends on itself), and the theorems hold
for all lists; for planning two transport attempts and the code's own three attempts
make both loops run out. In `delivery` a second lease is what it takes to meet the
leftovers of a first one; two mishaps allow a crash and a failure after it, such as
a crash in a merge and a conflict, or two crashes; more tasks would only add more of
the same branches, since one fix and one planned task already merge in order. In `commands` one of the
workflows exists at first or does not, so that a sole workflow, two of them and a
second one in the making all occur beside the command without the lock; only one
command runs Visual QA, since two never do at the same time (`ServersHaveTheirCommand`),
and it evaluates once.
Two saves make a history that can lose an event and keep one, one poll is a start
that waits. Every
bound is a constant (`MaxInterventions`, `MaxCrashes`, `MaxFaults`,
`MaxCommands`, `MaxTransport`, `MaxLeases`, `MaxMishaps`, `MaxSaves`, `MaxPolls`) and appears in guards only.

### Fairness

No step that harms is fair: nobody has to crash, to cancel, to send a signal or to
make routing fail. `WorkflowRuntime` assumes that scheduling rounds keep being run
(each `amiral run` ends; its user, or a timer, resumes it when the retry is due),
that an agent that runs ends, and that time passes. `DispatchPool` assumes that
agents end and that the event loop serves every runner. `RuntimeLock` assumes that a
process goes on and that the body of `withLock` returns. `QualityGates` assumes that
a command goes on, and `Planning` that a called agent ends. `ProjectCommands` assumes
that a command goes on once it has the lock, that an evaluation comes back and that
a process that was killed exits; a server need not exit on SIGTERM. `Delivery` states safety
only and assumes nothing. "An agent ends" is a real assumption: the provider starts
its process without a timeout.

`CHECK_DEADLOCK FALSE` is said of the runtime (a settled or cancelled workflow with
nothing left to intervene), of the pool (all attempts used), of the lock and of
the commands (all commands ended); each may really stop. The gates never do: a run can always be
started.

## 4. What is proved

For every value of the constants, with TLAPS:

* `RuntimeLockProofs`: type correctness, `LockExcludes`, `HolderStaysRecorded`,
  `LockRefines` (RuntimeLock implements ProjectLock) and `SomeContenderAcquires`.
  The invariant `LockInv` adds to `HolderIsRecorded` that a live command between the
  mutex's acquisition and its release owns the mutex (`MutexOwned`), and that from
  the moment a contender took the recorded holder for dead nobody holds the lock
  until that contender does (`NoHolderReplaced`). The second makes the quarantine
  harmless; it is inductive because a live holder's record makes the check fail,
  which is `HolderIsRecorded`. Mutual exclusion follows, since a record names one
  holder, and the refinement is an acquisition at the write of the record by a
  command that finds no holder. `SomeContenderAcquires` has an invariant of its own
  (`Contention`): until somebody has had the lock, who takes the mutex goes through
  with it, so that a contender that was turned away leaves one behind that was not.
* `WorkflowRuntimeProofs`: `RuntimeTypes`, `RetriesAreBounded`, `ExecutionIsSound`,
  `ConflictsExcluded`, `StatusStaysAgreed`, `CapacityIsRespected`,
  `CompletedIsStable`, and `RuntimeImplementsLifecycle`, the refinement, in which
  each action is mapped to the abstract step it makes or to a stutter. Its first part
  are lemmas on what each update of a task keeps and which part of a state an action
  can change. The inductive invariant `RuntimeInv` is the type invariant,
  `PhaseInv` (in which phase something can be claimed or running, and never both),
  `BudgetInv` (`BudgetHonoured`, an attempt not yet used for a task that is claimed,
  and an attempt left for a task that is pending or waits for a retry),
  `ExecutionSound`, `ConflictExclusion` and `StatusAgrees`. Execution soundness
  needs the phases: the operator's commands and lease recovery happen at "idle"
  only, when nothing is claimed or running, and this is what keeps them from taking
  a running task away. Capacity is proved apart, by the cardinality of a slice.

  Six more say what a round of `scheduleOnce` does, and what it leaves.
  `RoundsAreDetermined`: the model chooses the claims by their properties, and in
  every reachable state there is one such choice and no other, as in the code, where
  a loop makes it; existence and uniqueness are by the least task on which two
  choices differ. `NothingIsLeftOver`: a ready task is passed over only for a live
  lease it conflicts with or for want of a slot. `IdleRoundsHaveReasons`: a round
  without claims is explained by one of the outcomes the loop tells apart; the proof
  takes, of the tasks that are not completed, one that depends on none of them, and
  this is where acyclicity is needed. `RestIsAnEnd` follows: where `EventuallySettled`
  takes a workflow is an end that its status tells. `TasksRunDown` counts: without an
  intervention a task gets an attempt more of its budget, or its attempt comes closer
  to its end, or nothing but its timers move. `NoRoundSpins`: when that has come to a
  halt, a round that changes nothing has found a settled workflow.
* `DispatchPoolProofs`: `PoolTypes`, `SequentialPoolIsSound` and
  `SequentialSavesAreAtomic`. `PoolInv` says for a
  pool of one: at most one runner is between its start and its end and it is of the
  run that holds the lock (`SoleRunner`), a runner that threw is alone in its pool and
  the requests behind it never begin, the file has the runner's attempt and lease
  (`LeaseHeld`), the file is unreadable only between that runner's two writes
  (`FileWhole`), the copy it carries is the file with its outcome applied
  (`CopyFresh`) and what was persisted is not taken back (`StatusStays`). With two
  runners the first is false, and `dispatch_lost_outcome` shows how the others go
  with it. `SequentialPoolIsSound` takes both values of `delaysFit`: outcomes are
  persisted whatever the delays are, and no batch rejects where they fit.
  `SequentialSavesAreAtomic` links the two grains: whenever the tasks in the
  file change, a run claims, or one runner settles its own task under its lease.
* `QualityGatesProofs`: `GatesTypes`, `RoundsAreBounded`, `ExhaustionHolds`,
  `CompletionIsApproved`, `CommandsComeCloser`. `GatesInv` has what a command at each step has behind it
  (`PhaseInv`), the correspondence of counted rounds and fix tasks, of which crashes
  may leave one or, with a torn `review-loop.json`, all uncounted (`RoundInv`), the same for Visual QA's
  iterations and its two files (`VisualInv`), that what is at the gates is done
  (`DoneInv`), what the block rests on (`ExhaustionInv`), and what the gates have
  established so far (`ApprovalInv`). Its `PassStands` covers a PASS that a crash
  left without its completion: it is of the content that is still there, so that the
  next run may act on it. `CommandsComeCloser` counts how far a command is from its
  end: the review rounds and Visual QA iterations it has left (`PassesLeft`), where it
  is in the loop (`StepsLeft`) and which tasks still wait for the scheduler. Every
  step within a command makes the triple smaller, lexicographically, without
  the loop's own limit on iterations.
* `DeliveryProofs`: `DeliveryTypes`, `CompletedWorkIsKept`,
  `CompletedWorkIsIntegrated`, `FixesBuildOnReviewed`, `CopiesStayOutside`,
  `ResultsAreOwn`, `RoutingChoosesOne`, `ExecutorsAreCapable`, `AgentsAreKept`,
  `HistoriesAreKept`. `DeliveryInv` says where a run is and what it has in hand
  (`RunInv`), that edits are in the worktree or, once committed, on the branch
  (`EditInv`, `NoCopiesInv`), that a fix's branch began with what was reviewed
  (`FixInv`), that completed work is merged or waits for its merge (`MergeInv`), and
  that a merge a crash left half way is of a branch that integration will come to
  again (`HalfInv`). The last needs `RoutingInv`, that a task is routed once: if a
  retry could route a task with a half merged branch to a gate's agent, integration
  would pass it over. `RoutingChoosesOne` is about `selectAgentForTask` alone: the
  order of candidates has exactly one best, whatever agent the task had before, so
  that the agent is kept though each round overwrites it. `HistoriesAreKept` is about
  every commit, not only recorded work: what was on a branch stays on it or is
  integrated, unless a clean-up discards it.
* `ProjectCommandsProofs`: `CommandsTypes`, `HistoriesAgree`, `SelectionHolds`,
  `ServersHaveTheirCommand`, `StatesLoad`.
  `CommandsInv`: who is busy has the lock or does without (`HoldingInv`), so that
  between a save and its event nobody else saves or records (`SaveInv`, `BoundInv`,
  `CompleteInv`); a claim's event is written before its state, which is why a death
  can leave one event too many (`early`) and never two; and who is about to remove
  the selection read it as its own workflow's, and it still is (`UnlinkInv`).
  `ServerInv` adds that an evaluation under way is its command's and that one that is
  over leaves no process but a killed one; with `HoldingInv` there is one server at a
  time. `StatesLoad` is the other use of the lock: who takes it finds every
  `state.json` whole.
* `GraphValidationProofs`: `AcceptedGraphsAreOrdered`, `RefusedGraphsAreCyclic`,
  their conjunction `VerdictsAreRight`, and `SearchesEnd`, for task lists of any
  length. The invariant `SearchInv` says that the visited
  tasks are in an order in which dependencies come first (`OrderInv`), that the
  outer loop left nothing behind (`RootInv`), that each frame on the stack has
  visited all dependencies before the one it is at, which is the frame above it
  (`StackInv`), and what a verdict means (`VerdictInv`). `OrderInv` needs `StackInv`
  when a call returns: only then are all dependencies known to be visited. The stack
  from the repeated task upwards is the circle that a refusal names. `SearchesEnd`
  compares each step with the one before: the outer loop is a place further, or the
  search came to a task more, or a call returned, or the loop of the topmost call is a
  place further (`SearchCloser`).
* `PlanningProofs`: `PlanningTypes`, `PlanningValidates`, `FirstValidPlanWins`,
  `FailuresAreDiagnosed`, `RetriesAreTransient`, `WaitsAreBounded`,
  `ReportsAreSchedules`, `PlanningIsFinite`.
  `PlanningValidates` is a refinement: it makes the invariants of the search
  invariants of planning, and `AcceptedIsAcyclic` and `CycleIsNotAcyclic` turn a
  verdict into what validity means. Around it are that the objects still to be tried
  are the last of the answer (`RestInv`), that the validated list is the first of
  them (`TryInv`), that those before it are no valid plans (`RefusedInv`), which
  calls are not yet in the diagnostics (`DiagnosisInv`), and what the attempts before
  this one may have spent (`CallsInv`). That the exponential delay never falls below
  its base is counted: 2^n is the number of subsets of a set of n elements.
  `ReportsAreSchedules` is about `analyzeTaskGraph`. The depth of a task is a
  recursion over the graph; that it is defined, and greater than that of every
  dependency, is shown by a counterexample that comes first in the order that
  the search found. `PlanningIsFinite` puts `SearchesEnd` into the loops around it:
  parts of the work, attempts, transport retries, objects of an answer
  (`PlanningCloser`).

Not every theorem is about a property of a run. `ImplementsLock` implies
`LockExcludes`; `CompletedIsStable` says in the runtime's terms what
`ImplementsLifecycle` says in the abstract ones; `AcceptedGraphsAreOrdered` and
`RefusedGraphsAreCyclic` are the conjuncts of `VerdictIsRight`. The others go beyond
the runs: what a round decides, that a save is one step, that routing is a choice of one,
what git keeps, and that things come to an end.

**Ends.** That something ends takes fairness, and stays with TLC. What can be
proved is the part that does not: that no infinite path is there to be taken.
`CommandsComeCloser` is this for `RunPauses`, `PlanningIsFinite` for `PlanningEnds`
and `ServersHaveTheirCommand` for `OwnServerStops`; for `EventuallySettled` it is
`TasksRunDown` with `NoRoundSpins`, and `RestIsAnEnd` says what it leads to. They hold for every value of the constants, where TLC
sees a few tasks and rounds.

The proofs assume of the constants what the code checks or its configuration
guarantees: lists of tasks with lists of dependencies (the schema of a graph) for
the validation; a non-empty graph whose dependencies are its own tasks
(`workflow-create.ts`, `task-graph.ts`), positive budgets, slots and lease lengths
(`team-config.ts`) for the runtime, likewise positive limits for the pool and the
gates (`PoolAssumption`, `GatesAssumption`); for planning positive limits and delays,
whose order nothing checks and nothing assumes (`RetryAssumption`), and answers of task lists and
objects that are none (`AnswersAssumption`); for the delivery fix tasks that come
after the planned ones and keep their agent (`DeliveryAssumption`,
`AgentAssumption`); for the commands a finite set of workflows
(`CommandsAssumption`). `NothingAssumption` says that the value for "no branch" is
not a branch. `AcyclicAssumption`, that of any tasks one depends on none of them, is
what `validateTaskGraphSemantics` establishes before `createWorkflowFromGraph` saves
anything, and `AcceptedGraphsAreOrdered` proves of it; fix tasks depend on none
(`review-fix-planner.ts:36`). Only `IdleRoundsHaveReasons` and `RestIsAnEnd` use it: the
safety of the runtime does not rest on it.

**Only model-checked:** the liveness properties (`EventuallySettled`, `LockReleased`,
`StaleIsTakenOver`, `RunPauses`, `PlanningEnds`, `OwnServerStops`): fairness is out of
the prover's reach. Every invariant and every action property of a passing run is
proved.

## 5. Not modelled, and why

Prompts, output formats, views and logs have no state. What a language model plans
is an input; the runtime starts from any graph. Configuration is the constants. Path
and branch names are not modelled: two task ids with the same sanitized segment, or
one called `integration`, would share a branch. The legacy scripts take no lock, and
running one beside `amiral run` is outside of every assumption here. Time inside a
step does not exist: that an agent works longer than its lease is covered (`Tick`
runs while agents do), that the guard's holder stalls until the guard is taken for
stale is not. In `WorkflowStore` the directory and the graph file of a new workflow are
one step (no resolution looks at the graph), a file that is torn and one that is not
there are the same, as they are to the code, two writes of the selection that
overlap leave the later one, and events without a save (those of Visual QA) are left
out. Runners of a rejected pool that write after the release of the lock are
DispatchPool's. The browser's part of Visual QA (routes, viewports, accessibility,
navigation policy) is I/O.

## 6. Plan

Done: (1) workflow state and runtime, (2) the dispatcher's pool, (3) the lock, (4)
gates and review rounds, (5) the pure algorithms and planning, (6) worktrees,
artifacts, integration and routing, (7) the files of several workflows, their
creation and resolution, (8) Visual QA's development server, (9) the proofs of each
module's type invariant and safety properties, and the refinements of TaskLifecycle,
of ProjectLock and of the validator, (10) the schedule that an analysis reports, what
a scheduling round decides, that searches, planning, commands and tasks run down.

Left, in this order:

11. *Refinement*: `tip` and `merged` of QualityGates from the branches of Delivery,
    so that the approval of the gates is about git's content by proof and not by the
    correspondence described in section 2.
12. *Several runners in the store*: ProjectCommands takes a pool of one runner;
    with DispatchPool's runners as its job, `HistoryAgrees` could say what a larger
    pool loses.
13. *A guard that is taken over alive*: the guard's holder stalls for longer than the
    guard's staleness limit. It needs a clock in RuntimeLock.
