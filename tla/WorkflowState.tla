--------------------------- MODULE WorkflowState ---------------------------
(***************************************************************************)
(* The contents of tasks/<workflow>/state.json and the pure functions the  *)
(* orchestrator computes over it: readiness, leases, retry windows,        *)
(* conflict domains and the derived workflow status.                       *)
(*                                                                         *)
(* A task is its position in the state's task array, so that the order in  *)
(* which the scheduler walks the array is the order of the numbers.        *)
(* Timestamps are kept as the time that is left until they are reached:    *)
(* the code compares them with the current time and nothing else.          *)
(***************************************************************************)
EXTENDS Integers, FiniteSets

CONSTANTS
    NumTasks,       \* how many tasks the workflow has
    Deps,           \* Deps[t]: the ids in t.dependencies
    GateTask,       \* the tasks whose agent is "reviewer" or "qa"
    Domains,        \* Domains[t]: t.planning.conflict_domains, normalized
    MaxAttempts     \* MaxAttempts[t]: t.max_attempts || execution.max_attempts

Task == 1 .. NumTasks

\* createWorkflowFromGraph refuses a graph without tasks, with dependencies on
\* unknown ids or with a cycle of them: of any tasks, one depends on none of them.
ASSUME NumTasksAssumption == NumTasks \in Nat \ {0}
ASSUME DepsAssumption == Deps \in [Task -> SUBSET Task]
ASSUME AcyclicAssumption ==
    \A S \in SUBSET Task : S # {} => \E t \in S : Deps[t] \cap S = {}
ASSUME GateTaskAssumption == GateTask \subseteq Task
ASSUME MaxAttemptsAssumption == MaxAttempts \in [Task -> Nat \ {0}]
ASSUME DomainsAssumption == DOMAIN Domains = Task

\* "cancelled" is in the source's union type as well; no code assigns it to a task.
TaskStatus ==
    {"pending", "in_progress", "retry_wait", "completed", "failed", "blocked"}

WorkflowStatus ==
    {"planned", "running", "blocked", "failed", "completed", "cancelled"}

\* status, attempts, lease_expires_at and retry_not_before of a RuntimeTask. A
\* null timestamp is 0: both comparisons treat it like one that has passed.
RuntimeTask ==
    [status : TaskStatus, attempts : Nat, lease : Nat, wait : Nat]

Tasks == [Task -> RuntimeTask]

NewTask == [status |-> "pending", attempts |-> 0, lease |-> 0, wait |-> 0]

-----------------------------------------------------------------------------
\* Queries on the task array ts.

WithStatus(ts, S) == {t \in Task : ts[t].status \in S}

DeriveWorkflowStatus(ts) ==
    IF \A t \in Task : ts[t].status = "completed" THEN "completed"
    ELSE IF \E t \in Task : ts[t].status = "failed" THEN "failed"
    ELSE IF /\ \E t \in Task : ts[t].status = "blocked"
            /\ \A t \in Task : ts[t].status \notin {"in_progress", "retry_wait"}
         THEN "blocked"
    ELSE IF \E t \in Task :
              ts[t].status \in {"in_progress", "completed", "retry_wait"}
         THEN "running"
    ELSE "planned"

IsTaskReady(ts, t) ==
    /\ ts[t].status = "pending"
    /\ \A d \in Deps[t] : ts[d].status = "completed"

FindReadyTasks(ts) == {t \in Task \ GateTask : IsTaskReady(ts, t)}

IsLeaseExpired(ts, t) == ts[t].status = "in_progress" /\ ts[t].lease = 0

HasActiveLease(ts, t) == ts[t].status = "in_progress" /\ ts[t].lease > 0

ActiveLeases(ts) == {t \in Task : HasActiveLease(ts, t)}

\* Mutant: the comparison with the clock is the wrong way round.
IsRetryEarly(ts, t) == ts[t].status = "retry_wait" /\ ts[t].wait > 0

IsRetryDue(ts, t) == ts[t].status = "retry_wait" /\ ts[t].wait = 0

\* The transitive dependencies of t: what every dependency-closed set that
\* contains its direct dependencies contains.
TransitiveDeps(t) ==
    {u \in Task : \A S \in SUBSET Task :
        (Deps[t] \subseteq S /\ \A v \in S : Deps[v] \subseteq S) => u \in S}

AreDependencyIndependent(t, u) ==
    t \notin TransitiveDeps(u) /\ u \notin TransitiveDeps(t)

\* Two tasks the scheduler must not lease at the same time.
Conflict(t, u) ==
    /\ t # u
    /\ AreDependencyIndependent(t, u)
    /\ Domains[t] \cap Domains[u] # {}

\* C is S.slice(0, n), S being walked in array order.
IsSlice(C, S, n) ==
    /\ C \subseteq S
    /\ Cardinality(C) <= n
    /\ C # S => Cardinality(C) = n
    /\ \A t \in C, u \in S \ C : t < u

-----------------------------------------------------------------------------
\* Updates of one task, each from the function that makes it.

ReleaseLease(task, s) == [task EXCEPT !.status = s, !.lease = 0]

\* Mutant: an attempt whose lease expired is given back.
RecoverLeaseUncounted(task, max) ==
    [ReleaseLease(task, "pending") EXCEPT !.attempts = @ - 1]

RecoverLease(task, max) ==
    ReleaseLease(task, IF task.attempts >= max THEN "blocked" ELSE "pending")

PromoteRetry(task) == [task EXCEPT !.status = "pending", !.wait = 0]

ClaimTask(task, lease) ==
    [task EXCEPT !.status = "in_progress", !.attempts = @ + 1, !.lease = lease]

\* Mutant: one retry too many.
RetryProviderOnceMore(task, max, delay) ==
    IF task.attempts > max
    THEN [ReleaseLease(task, "blocked") EXCEPT !.wait = 0]
    ELSE [ReleaseLease(task, "retry_wait") EXCEPT !.wait = delay]

\* A retryable provider failure: back to waiting, or blocked when the budget
\* of attempts is spent.
RetryProvider(task, max, delay) ==
    IF task.attempts >= max
    THEN [ReleaseLease(task, "blocked") EXCEPT !.wait = 0]
    ELSE [ReleaseLease(task, "retry_wait") EXCEPT !.wait = delay]

FailProvider(task) == [ReleaseLease(task, "failed") EXCEPT !.wait = 0]

ResetTaskForRetry(task) == NewTask
=============================================================================
