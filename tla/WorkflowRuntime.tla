-------------------------- MODULE WorkflowRuntime --------------------------
(***************************************************************************)
(* One workflow between `amiral run`, the provider and the operator, every *)
(* command holding the project lock while it works: scheduling rounds      *)
(* (recover leases, promote due retries, claim), the dispatch of what was  *)
(* claimed, provider results and failures, crashes, the passing of time,   *)
(* and the operator's cancel and retry commands.                           *)
(*                                                                         *)
(* Each save of state.json is one step, together with the load it was      *)
(* computed from. That is exact while one runner at a time touches the     *)
(* file; module DispatchPool takes the load and the save apart.            *)
(***************************************************************************)
EXTENDS WorkflowState

CONSTANTS
    MaxParallel,      \* min(max_parallel_agents, provider capacity)
    LeaseLength,      \* lease_minutes, in ticks
    MaxDelay,         \* the longest retry delay, in ticks
    MaxInterventions  \* bound: crashes, operator commands, routing errors

ASSUME MaxParallelAssumption == MaxParallel \in Nat \ {0}
ASSUME LeaseLengthAssumption == LeaseLength \in Nat \ {0}
ASSUME MaxDelayAssumption == MaxDelay \in Nat \ {0}
ASSUME MaxInterventionsAssumption == MaxInterventions \in Nat

VARIABLES
    wf,             \* state.json: the workflow's status and its tasks
    phase,          \* how far the command that holds the lock has come
    claims,         \* the tasks claimed by this round's scheduleOnce
    running,        \* the tasks whose agent the dispatcher is running
    interventions,  \* how many of MaxInterventions were used
    started         \* history: agent runs of a task since its last reset

vars == <<wf, phase, claims, running, interventions, started>>

\* "idle": no command holds the lock.
Phase == {"idle", "recovered", "promoted", "claimed", "dispatching"}

Workflow == [status : WorkflowStatus, tasks : Tasks]

Init ==
    /\ wf = [status |-> "planned", tasks |-> [t \in Task |-> NewTask]]
    /\ phase = "idle"
    /\ claims = {}
    /\ running = {}
    /\ interventions = 0
    /\ started = [t \in Task |-> 0]

\* Mutant: the tasks are saved and the workflow status is forgotten.
SaveTasksOnly(ts) == wf' = [wf EXCEPT !.tasks = ts]

\* Save the tasks ts with the status derived from them.
Save(ts) == wf' = [status |-> DeriveWorkflowStatus(ts), tasks |-> ts]

Update(S, f(_)) == [t \in Task |-> IF t \in S THEN f(t) ELSE wf.tasks[t]]

Intervene ==
    /\ interventions < MaxInterventions
    /\ interventions' = interventions + 1

-----------------------------------------------------------------------------
\* The scheduler. The orchestrator takes the gates' path instead when the
\* workflow is completed and stops when it is cancelled.

RecoverExpiredLeases ==
    LET expired == {t \in Task : IsLeaseExpired(wf.tasks, t)}
    IN  /\ phase = "idle"
        /\ wf.status \notin {"completed", "cancelled"}
        /\ IF expired = {}
           THEN wf' = wf
           ELSE Save(Update(expired,
                        LAMBDA t : RecoverLease(wf.tasks[t], MaxAttempts[t])))
        /\ phase' = "recovered"
        /\ UNCHANGED <<claims, running, interventions, started>>

\* The promotion keeps the workflow status that was saved before it.
PromoteDueRetries ==
    LET due == {t \in Task : IsRetryDue(wf.tasks, t)}
    IN  /\ phase = "recovered"
        /\ wf' = [wf EXCEPT !.tasks =
                      Update(due, LAMBDA t : PromoteRetry(wf.tasks[t]))]
        /\ phase' = "promoted"
        /\ UNCHANGED <<claims, running, interventions, started>>

RoundBlocked ==
    /\ phase = "promoted"
    /\ wf.status = "blocked"
    /\ phase' = "idle"
    /\ UNCHANGED <<wf, claims, running, interventions, started>>

\* Mutant: the leases of earlier rounds are not counted.
FreeSlotsOfRound == MaxParallel

FreeSlots ==
    LET used == Cardinality(ActiveLeases(wf.tasks))
    IN  IF used >= MaxParallel THEN 0 ELSE MaxParallel - used

\* Mutant: the claims of this round are not looked at.
HeldByLease(t, claimed) == \E u \in ActiveLeases(wf.tasks) : Conflict(t, u)

\* A candidate is held by a conflicting task that is leased, or that comes
\* before it in this round and was claimed.
Held(t, claimed) ==
    \E u \in ActiveLeases(wf.tasks) \cup {c \in claimed : c < t} : Conflict(t, u)

Exhausted(t) == wf.tasks[t].attempts >= MaxAttempts[t]

\* Of the chosen tasks, the ones that are neither held nor out of attempts are
\* claimed, and the ones out of attempts are blocked.
ClaimReadyTasks ==
    /\ phase = "promoted"
    /\ wf.status # "blocked"
    /\ \E chosen \in SUBSET FindReadyTasks(wf.tasks) :
        /\ IsSlice(chosen, FindReadyTasks(wf.tasks), FreeSlots)
        /\ \E claimed \in SUBSET chosen :
            LET blocked == {t \in chosen : Exhausted(t) /\ ~ Held(t, claimed)}
            IN  /\ claimed = {t \in chosen : ~ Exhausted(t) /\ ~ Held(t, claimed)}
                /\ Save([t \in Task |->
                        IF t \in claimed THEN ClaimTask(wf.tasks[t], LeaseLength)
                        ELSE IF t \in blocked THEN ReleaseLease(wf.tasks[t], "blocked")
                        ELSE wf.tasks[t]])
                /\ claims' = claimed
                /\ phase' = IF claimed = {} THEN "idle" ELSE "claimed"
    /\ UNCHANGED <<running, interventions, started>>

\* No agent of team.yaml has the capabilities a chosen task requires:
\* routeReadyTasks throws and the round ends without a claim.
RoutingFails ==
    /\ phase = "promoted"
    /\ wf.status # "blocked"
    /\ FindReadyTasks(wf.tasks) # {}
    /\ FreeSlots > 0
    /\ Intervene
    /\ phase' = "idle"
    /\ UNCHANGED <<wf, claims, running, started>>

-----------------------------------------------------------------------------
\* The dispatcher. There are at most MaxParallel claims, so that the pool
\* starts all of them at once.

DispatchRequests ==
    /\ phase = "claimed"
    /\ phase' = "dispatching"
    /\ running' = {t \in claims : wf.tasks[t].status = "in_progress"}
    /\ claims' = {}
    /\ started' = [t \in Task |->
                      IF t \in running' THEN started[t] + 1 ELSE started[t]]
    /\ UNCHANGED <<wf, interventions>>

\* The run of t's agent ends and its task becomes new, if it still is in_progress.
Settle(t, new) ==
    /\ t \in running
    /\ wf.tasks[t].status = "in_progress"
    /\ Save(Update({t}, LAMBDA u : new))
    /\ running' = running \ {t}
    /\ UNCHANGED <<phase, claims, interventions, started>>

ApplyResult(t, result) == Settle(t, ReleaseLease(wf.tasks[t], result))

ApplyProviderRetry(t, delay) ==
    Settle(t, RetryProvider(wf.tasks[t], MaxAttempts[t], delay))

ApplyPermanentProviderFailure(t) == Settle(t, FailProvider(wf.tasks[t]))

\* The orchestration of the run failed: its worktree, artifacts or commit.
FailLeasedTask(t) == Settle(t, ReleaseLease(wf.tasks[t], "failed"))

DispatchDone ==
    /\ phase = "dispatching"
    /\ running = {}
    /\ phase' = "idle"
    /\ UNCHANGED <<wf, claims, running, interventions, started>>

-----------------------------------------------------------------------------
\* The environment.

\* The process that runs the command dies, or its pool rejects (DispatchPool) and
\* the command ends; what it did not save is lost.
Crash ==
    /\ phase # "idle"
    /\ Intervene
    /\ phase' = "idle"
    /\ claims' = {}
    /\ running' = {}
    /\ UNCHANGED <<wf, started>>

\* Mutant: the time that is left falls below zero.
ElapseOn(n) == n - 1

Elapse(n) == IF n > 0 THEN n - 1 ELSE 0

Tick ==
    /\ \E t \in Task : wf.tasks[t].lease > 0 \/ wf.tasks[t].wait > 0
    /\ wf' = [wf EXCEPT !.tasks = [t \in Task |->
                 [wf.tasks[t] EXCEPT !.lease = Elapse(@), !.wait = Elapse(@)]]]
    /\ UNCHANGED <<phase, claims, running, interventions, started>>

-----------------------------------------------------------------------------
\* The operator: `amiral workflow cancel` and `amiral retry`.

CancelWorkflow(force) ==
    /\ phase = "idle"
    /\ wf.status # "cancelled"
    /\ wf.status = "completed" => force
    /\ Intervene
    /\ wf' = [status |-> "cancelled",
              tasks |-> [t \in Task |-> [wf.tasks[t] EXCEPT !.lease = 0]]]
    /\ UNCHANGED <<phase, claims, running, started>>

\* Mutant: the command does not wait for the project lock.
ResetTasksUnlocked(S) ==
    /\ Intervene
    /\ Save(Update(S, LAMBDA t : ResetTaskForRetry(wf.tasks[t])))
    /\ started' = [t \in Task |-> IF t \in S THEN 0 ELSE started[t]]
    /\ UNCHANGED <<phase, claims, running>>

ResetTasks(S) ==
    /\ phase = "idle"
    /\ Intervene
    /\ Save(Update(S, LAMBDA t : ResetTaskForRetry(wf.tasks[t])))
    /\ started' = [t \in Task |-> IF t \in S THEN 0 ELSE started[t]]
    /\ UNCHANGED <<phase, claims, running>>

ManualRetryTask(t, force) ==
    /\ wf.tasks[t].status \in {"failed", "blocked", "retry_wait"} \/ force
    /\ ResetTasks({t})

RetryByScope(scope) == ResetTasks(WithStatus(wf.tasks, {scope}))

-----------------------------------------------------------------------------
Schedule ==
    \/ RecoverExpiredLeases
    \/ PromoteDueRetries
    \/ RoundBlocked
    \/ ClaimReadyTasks

AgentRun(t) ==
    \/ \E result \in {"completed", "failed", "blocked"} : ApplyResult(t, result)
    \/ \E delay \in 1 .. MaxDelay : ApplyProviderRetry(t, delay)
    \/ ApplyPermanentProviderFailure(t)
    \/ FailLeasedTask(t)

Operator ==
    \/ \E force \in BOOLEAN : CancelWorkflow(force)
    \/ \E t \in Task, force \in BOOLEAN : ManualRetryTask(t, force)
    \/ \E scope \in {"failed", "blocked"} : RetryByScope(scope)

Next ==
    \/ Schedule
    \/ RoutingFails
    \/ DispatchRequests
    \/ \E t \in Task : AgentRun(t)
    \/ DispatchDone
    \/ Crash
    \/ Tick
    \/ Operator

Spec == Init /\ [][Next]_vars

\* The operator, or a timer of theirs, keeps resuming the workflow; a running
\* agent ends; time passes. Nothing obliges anyone to crash or to intervene.
Fairness ==
    /\ WF_vars(Schedule)
    /\ WF_vars(DispatchRequests)
    /\ \A t \in Task : WF_vars(AgentRun(t))
    /\ WF_vars(DispatchDone)
    /\ WF_vars(Tick)

FairSpec == Spec /\ Fairness

-----------------------------------------------------------------------------
TypeOK ==
    /\ wf \in Workflow
    /\ phase \in Phase
    /\ claims \in SUBSET Task
    /\ running \in SUBSET Task
    /\ interventions \in 0 .. MaxInterventions
    /\ started \in [Task -> Nat]

\* A task that is claimed or whose agent runs is in_progress in state.json and
\* every one of its dependencies is completed there: between the claim and the
\* end of the agent nothing takes the task or the work it builds on away.
ExecutionSound ==
    \A t \in claims \cup running :
        /\ phase \in {"claimed", "dispatching"}
        /\ wf.tasks[t].status = "in_progress"
        /\ \A d \in Deps[t] : wf.tasks[d].status = "completed"

\* Retries are bounded: between two resets by the operator a task is run no
\* more often than attempts were counted for it, whatever crashes, lease
\* expirations and provider failures come between, and no attempt is counted
\* beyond its budget.
BudgetHonoured ==
    \A t \in Task :
        /\ started[t] <= wf.tasks[t].attempts
        /\ wf.tasks[t].attempts <= MaxAttempts[t]

\* The leases that are alive, those a crashed run left behind included, never
\* exceed the effective parallelism.
CapacityRespected == Cardinality(ActiveLeases(wf.tasks)) <= MaxParallel

\* Two dependency-independent tasks that share a conflict domain never hold
\* live leases at the same time.
ConflictExclusion ==
    \A t, u \in ActiveLeases(wf.tasks) : ~ Conflict(t, u)

\* Whatever the scheduler, a runner and the operator's commands save, the workflow
\* status is the one its tasks have. Only the promotion of due retries leaves an
\* older status behind, and then only "running". The two saves of the loop that set a
\* status of their own, blockWorkflow and runQaGate, are in QualityGates.
StatusAgrees ==
    \/ wf.status \in {"cancelled", DeriveWorkflowStatus(wf.tasks)}
    \/ wf.status = "running" /\ DeriveWorkflowStatus(wf.tasks) \in {"blocked", "planned"}

\* Work that was completed stays completed: no step of the scheduler, of an
\* agent run, of a crash or of the clock takes a task out of "completed"; only
\* the operator's forced retry does.
CompletedStays ==
    [][\A t \in Task :
          wf.tasks[t].status = "completed" /\ wf'.tasks[t].status # "completed"
          => phase = "idle" /\ ManualRetryTask(t, TRUE)]_vars

\* No task is left under way for ever: once crashes and interventions stop,
\* the workflow is cancelled, or nothing is in_progress or waiting for a
\* retry and what is left cannot be scheduled.
Settled ==
    \/ wf.status = "cancelled"
    \/ /\ WithStatus(wf.tasks, {"in_progress", "retry_wait"}) = {}
       /\ FindReadyTasks(wf.tasks) = {} \/ wf.status = "blocked"

EventuallySettled == <>[]Settled

\* The runtime, its leases, timers, crashes and commands left out, is the task
\* life cycle of TaskLifecycle.
Lifecycle ==
    INSTANCE TaskLifecycle WITH
        st <- [t \in Task |-> wf.tasks[t].status],
        tries <- [t \in Task |-> wf.tasks[t].attempts]

ImplementsLifecycle == Lifecycle!LifecycleSpec
=============================================================================
