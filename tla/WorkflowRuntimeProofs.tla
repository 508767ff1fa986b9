----------------------- MODULE WorkflowRuntimeProofs -----------------------
(***************************************************************************)
(* What the runs of WorkflowRuntime show on a small workflow holds for any *)
(* tasks, dependencies, budgets, parallelism, lease and retry delays.      *)
(***************************************************************************)
EXTENDS WorkflowRuntime, FiniteSetTheorems, WellFoundedInduction, TLAPS

-----------------------------------------------------------------------------
(* What each update does to a task.                                        *)

\* Releasing a lease sets the status, clears the lease and keeps the rest.
LEMMA ReleaseLeaseEffect ==
    ASSUME NEW task \in RuntimeTask, NEW s \in TaskStatus
    PROVE  /\ ReleaseLease(task, s) \in RuntimeTask
           /\ ReleaseLease(task, s).status = s
           /\ ReleaseLease(task, s).attempts = task.attempts
           /\ ReleaseLease(task, s).lease = 0
BY DEF ReleaseLease, RuntimeTask

\* A recovered task goes back to pending while it has attempts left.
LEMMA RecoverLeaseEffect ==
    ASSUME NEW task \in RuntimeTask, NEW max \in Nat
    PROVE  /\ RecoverLease(task, max) \in RuntimeTask
           /\ RecoverLease(task, max).status =
                  IF task.attempts >= max THEN "blocked" ELSE "pending"
           /\ RecoverLease(task, max).attempts = task.attempts
           /\ RecoverLease(task, max).lease = 0
<1>1. "blocked" \in TaskStatus /\ "pending" \in TaskStatus
    BY DEF TaskStatus
<1>2. QED
    BY <1>1, ReleaseLeaseEffect DEF RecoverLease

\* A promoted task is pending again; its attempts stay counted.
LEMMA PromoteRetryEffect ==
    ASSUME NEW task \in RuntimeTask
    PROVE  /\ PromoteRetry(task) \in RuntimeTask
           /\ PromoteRetry(task).status = "pending"
           /\ PromoteRetry(task).attempts = task.attempts
           /\ PromoteRetry(task).lease = task.lease
BY DEF PromoteRetry, RuntimeTask, TaskStatus

\* A claim counts an attempt and starts a lease.
LEMMA ClaimTaskEffect ==
    ASSUME NEW task \in RuntimeTask, NEW lease \in Nat
    PROVE  /\ ClaimTask(task, lease) \in RuntimeTask
           /\ ClaimTask(task, lease).status = "in_progress"
           /\ ClaimTask(task, lease).attempts = task.attempts + 1
           /\ ClaimTask(task, lease).lease = lease
<1>1. PICK n \in Nat : n = task.attempts + 1
    BY DEF RuntimeTask
<1>2. ClaimTask(task, lease) =
          [task EXCEPT !.status = "in_progress", !.attempts = n, !.lease = lease]
    BY <1>1 DEF ClaimTask
<1>3. /\ ClaimTask(task, lease) \in RuntimeTask
      /\ ClaimTask(task, lease).status = "in_progress"
      /\ ClaimTask(task, lease).attempts = n
      /\ ClaimTask(task, lease).lease = lease
    BY <1>2 DEF RuntimeTask, TaskStatus
<1>4. QED
    BY <1>1, <1>3

\* A retryable failure schedules a retry while there are attempts left.
LEMMA RetryProviderEffect ==
    ASSUME NEW task \in RuntimeTask, NEW max \in Nat, NEW delay \in Nat
    PROVE  /\ RetryProvider(task, max, delay) \in RuntimeTask
           /\ RetryProvider(task, max, delay).status =
                  IF task.attempts >= max THEN "blocked" ELSE "retry_wait"
           /\ RetryProvider(task, max, delay).attempts = task.attempts
           /\ RetryProvider(task, max, delay).lease = 0
BY DEF RetryProvider, ReleaseLease, RuntimeTask, TaskStatus

\* A permanent failure fails the task.
LEMMA FailProviderEffect ==
    ASSUME NEW task \in RuntimeTask
    PROVE  /\ FailProvider(task) \in RuntimeTask
           /\ FailProvider(task).status = "failed"
           /\ FailProvider(task).attempts = task.attempts
           /\ FailProvider(task).lease = 0
BY DEF FailProvider, ReleaseLease, RuntimeTask, TaskStatus

\* A task that is reset starts over.
LEMMA ResetEffect ==
    ASSUME NEW task
    PROVE  /\ ResetTaskForRetry(task) \in RuntimeTask
           /\ ResetTaskForRetry(task).status = "pending"
           /\ ResetTaskForRetry(task).attempts = 0
           /\ ResetTaskForRetry(task).lease = 0
BY DEF ResetTaskForRetry, NewTask, RuntimeTask, TaskStatus

\* The clock takes from the times that are left and nothing else.
LEMMA ElapseEffect ==
    ASSUME NEW task \in RuntimeTask
    PROVE  LET new == [task EXCEPT !.lease = Elapse(@), !.wait = Elapse(@)]
           IN  /\ new \in RuntimeTask
               /\ new.status = task.status
               /\ new.attempts = task.attempts
               /\ new.lease <= task.lease /\ new.wait <= task.wait
<1>1. task.lease \in Nat /\ task.wait \in Nat
    BY DEF RuntimeTask
<1>2. PICK l \in Nat : l = Elapse(task.lease) /\ l <= task.lease
    BY <1>1 DEF Elapse
<1>3. PICK w \in Nat : w = Elapse(task.wait) /\ w <= task.wait
    BY <1>1 DEF Elapse
<1>4. QED
    BY <1>2, <1>3 DEF RuntimeTask

\* deriveWorkflowStatus returns one of the workflow statuses.
LEMMA DeriveTyped == \A ts : DeriveWorkflowStatus(ts) \in WorkflowStatus
BY DEF DeriveWorkflowStatus, WorkflowStatus

-----------------------------------------------------------------------------
(* What each action does to the tasks.                                     *)

\* The tasks of the runtime are well formed, and so are their budgets.
LEMMA TaskTypes ==
    ASSUME TypeOK, NEW t \in Task
    PROVE  wf.tasks[t] \in RuntimeTask /\ MaxAttempts[t] \in Nat \ {0}
BY MaxAttemptsAssumption DEF TypeOK, Workflow, Tasks

\* A save replaces the tasks and derives the status.
LEMMA SaveEffect ==
    ASSUME NEW ts \in Tasks, Save(ts)
    PROVE  /\ wf' \in Workflow
           /\ wf'.tasks = ts
           /\ wf'.status = DeriveWorkflowStatus(wf'.tasks)
BY DeriveTyped DEF Save, Workflow

\* RecoverExpiredLeases recovers the tasks whose lease has expired.
LEMMA RecoverEffect ==
    ASSUME TypeOK, RecoverExpiredLeases
    PROVE  /\ wf' \in Workflow
           /\ \A t \in Task : wf'.tasks[t] =
                  IF IsLeaseExpired(wf.tasks, t)
                  THEN RecoverLease(wf.tasks[t], MaxAttempts[t]) ELSE wf.tasks[t]
           /\ wf' = wf \/ wf'.status = DeriveWorkflowStatus(wf'.tasks)
<1> DEFINE expired == {t \in Task : IsLeaseExpired(wf.tasks, t)}
           ts == [t \in Task |-> IF t \in expired
                     THEN RecoverLease(wf.tasks[t], MaxAttempts[t]) ELSE wf.tasks[t]]
<1>1. CASE expired = {}
    BY <1>1 DEF RecoverExpiredLeases, TypeOK
<1>2. CASE expired # {}
    <2>1. Save(ts)
        BY <1>2 DEF RecoverExpiredLeases, Update
    <2>2. ts \in Tasks
        BY TaskTypes, RecoverLeaseEffect DEF Tasks
    <2>3. QED
        BY <2>1, <2>2, SaveEffect
<1>3. QED
    BY <1>1, <1>2

\* PromoteDueRetries promotes the due tasks and keeps the status.
LEMMA PromoteEffect ==
    ASSUME TypeOK, PromoteDueRetries
    PROVE  /\ wf' \in Workflow
           /\ wf'.status = wf.status
           /\ \A t \in Task : wf'.tasks[t] =
                  IF IsRetryDue(wf.tasks, t)
                  THEN PromoteRetry(wf.tasks[t]) ELSE wf.tasks[t]
<1> DEFINE ts == [t \in Task |-> IF t \in {u \in Task : IsRetryDue(wf.tasks, u)}
                     THEN PromoteRetry(wf.tasks[t]) ELSE wf.tasks[t]]
<1>1. wf' = [wf EXCEPT !.tasks = ts]
    BY DEF PromoteDueRetries, Update
<1>2. ts \in Tasks
    BY TaskTypes, PromoteRetryEffect DEF Tasks
<1> HIDE DEF ts
<1>3. wf' \in Workflow /\ wf'.status = wf.status /\ wf'.tasks = ts
    BY <1>1, <1>2 DEF TypeOK, Workflow
<1>4. QED
    BY <1>3 DEF ts

\* ClaimReadyTasks claims a slice of the ready tasks, none of them held, and
\* blocks those that have no attempts left.
LEMMA ClaimEffect ==
    ASSUME TypeOK, ClaimReadyTasks
    PROVE  /\ wf' \in Workflow
           /\ wf'.status = DeriveWorkflowStatus(wf'.tasks)
           /\ \E chosen \in SUBSET FindReadyTasks(wf.tasks) :
                /\ IsSlice(chosen, FindReadyTasks(wf.tasks), FreeSlots)
                /\ claims' = {t \in chosen : ~ Exhausted(t) /\ ~ Held(t, claims')}
                /\ \A t \in Task : wf'.tasks[t] =
                      IF t \in claims' THEN ClaimTask(wf.tasks[t], LeaseLength)
                      ELSE IF t \in chosen /\ Exhausted(t) /\ ~ Held(t, claims')
                           THEN ReleaseLease(wf.tasks[t], "blocked")
                           ELSE wf.tasks[t]
<1>0. PICK chosen \in SUBSET FindReadyTasks(wf.tasks) : \E claimed :
        /\ claimed \subseteq chosen
        /\ IsSlice(chosen, FindReadyTasks(wf.tasks), FreeSlots)
        /\ claimed = {t \in chosen : ~ Exhausted(t) /\ ~ Held(t, claimed)}
        /\ Save([t \in Task |->
                IF t \in claimed THEN ClaimTask(wf.tasks[t], LeaseLength)
                ELSE IF t \in {u \in chosen : Exhausted(u) /\ ~ Held(u, claimed)}
                     THEN ReleaseLease(wf.tasks[t], "blocked")
                     ELSE wf.tasks[t]])
        /\ claims' = claimed
    BY Zenon DEF ClaimReadyTasks
<1>1. PICK claimed :
        /\ claimed \subseteq chosen
        /\ IsSlice(chosen, FindReadyTasks(wf.tasks), FreeSlots)
        /\ claimed = {t \in chosen : ~ Exhausted(t) /\ ~ Held(t, claimed)}
        /\ Save([t \in Task |->
                IF t \in claimed THEN ClaimTask(wf.tasks[t], LeaseLength)
                ELSE IF t \in {u \in chosen : Exhausted(u) /\ ~ Held(u, claimed)}
                     THEN ReleaseLease(wf.tasks[t], "blocked")
                     ELSE wf.tasks[t]])
        /\ claims' = claimed
    BY <1>0
<1> DEFINE ts == [t \in Task |->
                IF t \in claimed THEN ClaimTask(wf.tasks[t], LeaseLength)
                ELSE IF t \in {u \in chosen : Exhausted(u) /\ ~ Held(u, claimed)}
                     THEN ReleaseLease(wf.tasks[t], "blocked")
                     ELSE wf.tasks[t]]
<1>2. \A t \in Task : /\ ClaimTask(wf.tasks[t], LeaseLength) \in RuntimeTask
                      /\ ReleaseLease(wf.tasks[t], "blocked") \in RuntimeTask
                      /\ wf.tasks[t] \in RuntimeTask
    BY TaskTypes, ClaimTaskEffect, ReleaseLeaseEffect, LeaseLengthAssumption DEF TaskStatus
<1>3. ts \in Tasks
    BY <1>2 DEF Tasks
<1>4. wf' \in Workflow /\ wf'.tasks = ts /\ wf'.status = DeriveWorkflowStatus(wf'.tasks)
    BY <1>1, <1>3, SaveEffect
<1>5. QED
    BY <1>1, <1>4

\* The end of an agent run settles its own task, which was in_progress, and no
\* other; a retry is scheduled only while there are attempts left.
LEMMA AgentRunEffect ==
    ASSUME TypeOK, NEW t \in Task, AgentRun(t)
    PROVE  /\ wf' \in Workflow
           /\ wf'.status = DeriveWorkflowStatus(wf'.tasks)
           /\ \A u \in Task \ {t} : wf'.tasks[u] = wf.tasks[u]
           /\ t \in running /\ wf.tasks[t].status = "in_progress"
           /\ wf'.tasks[t].status \in {"completed", "failed", "blocked", "retry_wait"}
           /\ wf'.tasks[t].status = "retry_wait" => wf.tasks[t].attempts < MaxAttempts[t]
           /\ wf'.tasks[t].attempts = wf.tasks[t].attempts
           /\ wf'.tasks[t].lease = 0
           /\ running' = running \ {t}
           /\ UNCHANGED <<phase, claims, interventions, started>>
<1>1. /\ wf.tasks[t] \in RuntimeTask /\ MaxAttempts[t] \in Nat
      /\ wf.tasks[t].attempts \in Nat
    BY TaskTypes DEF RuntimeTask
<1>2. PICK new \in RuntimeTask :
        /\ Settle(t, new)
        /\ new.status \in {"completed", "failed", "blocked", "retry_wait"}
        /\ new.status = "retry_wait" => wf.tasks[t].attempts < MaxAttempts[t]
        /\ new.attempts = wf.tasks[t].attempts
        /\ new.lease = 0
    <2>1. CASE \E result \in {"completed", "failed", "blocked"} : ApplyResult(t, result)
        <3>1. PICK result \in {"completed", "failed", "blocked"} :
                Settle(t, ReleaseLease(wf.tasks[t], result))
            BY <2>1 DEF ApplyResult
        <3>2. result \in TaskStatus
            BY DEF TaskStatus
        <3>3. QED
            BY <1>1, <3>1, <3>2, ReleaseLeaseEffect
    <2>2. CASE \E delay \in 1 .. MaxDelay : ApplyProviderRetry(t, delay)
        <3>1. PICK delay \in Nat :
                Settle(t, RetryProvider(wf.tasks[t], MaxAttempts[t], delay))
            BY <2>2, MaxDelayAssumption DEF ApplyProviderRetry
        <3>2. PICK new : new = RetryProvider(wf.tasks[t], MaxAttempts[t], delay)
            OBVIOUS
        <3>3. /\ new \in RuntimeTask
              /\ new.status =
                    IF wf.tasks[t].attempts >= MaxAttempts[t] THEN "blocked" ELSE "retry_wait"
              /\ new.attempts = wf.tasks[t].attempts
              /\ new.lease = 0
            BY <1>1, <3>2, RetryProviderEffect
        <3>4. new.status = "retry_wait" => wf.tasks[t].attempts < MaxAttempts[t]
            BY <1>1, <3>3
        <3>5. new.status \in {"blocked", "retry_wait"}
            BY <3>3
        <3>6. QED
            BY <3>1, <3>2, <3>3, <3>4, <3>5
    <2>3. CASE ApplyPermanentProviderFailure(t)
        BY <1>1, <2>3, FailProviderEffect DEF ApplyPermanentProviderFailure
    <2>4. CASE FailLeasedTask(t)
        BY <1>1, <2>4, ReleaseLeaseEffect DEF FailLeasedTask, TaskStatus
    <2>5. QED
        BY <2>1, <2>2, <2>3, <2>4 DEF AgentRun
<1> DEFINE ts == [u \in Task |-> IF u \in {t} THEN new ELSE wf.tasks[u]]
<1>3. ts \in Tasks
    BY TaskTypes DEF Tasks
<1>4. Save(ts)
    BY <1>2 DEF Settle, Update
<1>5. wf' \in Workflow /\ wf'.tasks = ts /\ wf'.status = DeriveWorkflowStatus(wf'.tasks)
    BY <1>3, <1>4, SaveEffect
<1>6. wf'.tasks[t] = new /\ \A u \in Task \ {t} : wf'.tasks[u] = wf.tasks[u]
    BY <1>5
<1>7. QED
    BY <1>2, <1>5, <1>6 DEF Settle

\* The passing of time changes leases and waits and no status.
LEMMA TickEffect ==
    ASSUME TypeOK, Tick
    PROVE  /\ wf' \in Workflow
           /\ wf'.status = wf.status
           /\ \A t \in Task : /\ wf'.tasks[t].status = wf.tasks[t].status
                              /\ wf'.tasks[t].attempts = wf.tasks[t].attempts
                              /\ wf'.tasks[t].lease <= wf.tasks[t].lease
                              /\ wf'.tasks[t].wait <= wf.tasks[t].wait
<1> DEFINE new(t) == [wf.tasks[t] EXCEPT !.lease = Elapse(@), !.wait = Elapse(@)]
           ts == [t \in Task |-> new(t)]
<1>1. wf' = [wf EXCEPT !.tasks = ts]
    BY DEF Tick
<1>2. \A t \in Task : /\ new(t) \in RuntimeTask
                      /\ new(t).status = wf.tasks[t].status
                      /\ new(t).attempts = wf.tasks[t].attempts
                      /\ new(t).lease <= wf.tasks[t].lease
                      /\ new(t).wait <= wf.tasks[t].wait
    BY TaskTypes, ElapseEffect
<1> HIDE DEF new
<1>3. ts \in Tasks /\ \A t \in Task : ts[t] = new(t)
    BY <1>2 DEF Tasks
<1> HIDE DEF ts
<1>4. wf' \in Workflow /\ wf'.status = wf.status /\ wf'.tasks = ts
    BY <1>1, <1>3 DEF TypeOK, Workflow
<1>5. QED
    BY <1>2, <1>3, <1>4

\* A cancellation releases the leases and leaves the tasks where they are.
LEMMA CancelEffect ==
    ASSUME TypeOK, NEW force \in BOOLEAN, CancelWorkflow(force)
    PROVE  /\ wf' \in Workflow
           /\ wf'.status = "cancelled"
           /\ \A t \in Task : /\ wf'.tasks[t].status = wf.tasks[t].status
                              /\ wf'.tasks[t].attempts = wf.tasks[t].attempts
                              /\ wf'.tasks[t].lease = 0
<1> DEFINE new(t) == [wf.tasks[t] EXCEPT !.lease = 0]
           ts == [t \in Task |-> new(t)]
<1>1. wf' = [status |-> "cancelled", tasks |-> ts]
    BY DEF CancelWorkflow
<1>2. \A t \in Task : /\ new(t) \in RuntimeTask
                      /\ new(t).status = wf.tasks[t].status
                      /\ new(t).attempts = wf.tasks[t].attempts
                      /\ new(t).lease = 0
    BY TaskTypes DEF RuntimeTask
<1> HIDE DEF new
<1>3. ts \in Tasks /\ \A t \in Task : ts[t] = new(t)
    BY <1>2 DEF Tasks
<1> HIDE DEF ts
<1>4. QED
    BY <1>1, <1>2, <1>3 DEF Workflow, WorkflowStatus

\* A reset starts the tasks of S over, when no command is under way.
LEMMA ResetTasksEffect ==
    ASSUME TypeOK, NEW S, ResetTasks(S)
    PROVE  /\ wf' \in Workflow
           /\ wf'.status = DeriveWorkflowStatus(wf'.tasks)
           /\ \A t \in Task : wf'.tasks[t] =
                  IF t \in S THEN ResetTaskForRetry(wf.tasks[t]) ELSE wf.tasks[t]
<1> DEFINE ts == [t \in Task |->
                     IF t \in S THEN ResetTaskForRetry(wf.tasks[t]) ELSE wf.tasks[t]]
<1>1. Save(ts)
    BY DEF ResetTasks, Update
<1>2. ts \in Tasks
    BY TaskTypes, ResetEffect DEF Tasks
<1>3. QED
    BY <1>1, <1>2, SaveEffect

\* Every operator command other than a cancellation resets a set of tasks.
LEMMA OperatorResets ==
    ASSUME Operator
    PROVE  \/ \E force \in BOOLEAN : CancelWorkflow(force)
           \/ \E S \in SUBSET Task : ResetTasks(S)
BY DEF Operator, ManualRetryTask, RetryByScope, WithStatus

-----------------------------------------------------------------------------
(* The invariant.                                                          *)

\* Tasks are claimed or run in their own phases of the command only.
PhaseInv ==
    /\ claims # {} => phase = "claimed"
    /\ running # {} => phase = "dispatching"

\* The budget of attempts with what makes it inductive: a claimed task has an
\* attempt that no run has used yet, and a task that may be claimed again has
\* one left.
BudgetInv ==
    \A t \in Task :
        /\ started[t] <= wf.tasks[t].attempts
        /\ t \in claims => started[t] < wf.tasks[t].attempts
        /\ wf.tasks[t].attempts <= MaxAttempts[t]
        /\ wf.tasks[t].status \in {"pending", "retry_wait"}
               => wf.tasks[t].attempts < MaxAttempts[t]

RuntimeInv ==
    TypeOK /\ PhaseInv /\ BudgetInv /\ ExecutionSound /\ ConflictExclusion /\ StatusAgrees

-----------------------------------------------------------------------------
(* The steps, in the groups that the proofs below distinguish.             *)

\* Every step is one of these, or a stutter.
LEMMA NextCases ==
    ASSUME [Next]_vars
    PROVE  \/ RecoverExpiredLeases
           \/ PromoteDueRetries
           \/ ClaimReadyTasks
           \/ RoundBlocked \/ RoutingFails \/ DispatchDone \/ Crash
           \/ DispatchRequests
           \/ \E t \in Task : AgentRun(t)
           \/ Tick
           \/ \E force \in BOOLEAN : CancelWorkflow(force)
           \/ \E S \in SUBSET Task : ResetTasks(S)
           \/ UNCHANGED vars
BY OperatorResets DEF Next, Schedule

\* The steps that only move the command on, or end it, keep the workflow.
LEMMA QuietEffect ==
    ASSUME RoundBlocked \/ RoutingFails \/ DispatchDone \/ Crash \/ UNCHANGED vars
    PROVE  /\ UNCHANGED <<wf, started>>
           /\ claims' \subseteq claims
           /\ running' \subseteq running
           /\ phase' \in {phase, "idle"}
BY DEF RoundBlocked, RoutingFails, DispatchDone, Crash, vars

-----------------------------------------------------------------------------
(* Types.                                                                  *)

\* The workflow starts with well-formed tasks.
LEMMA TypeInit == Init => TypeOK
<1>1. NewTask \in RuntimeTask
    BY DEF NewTask, RuntimeTask, TaskStatus
<1>2. QED
    BY <1>1, MaxInterventionsAssumption
    DEF Init, TypeOK, Workflow, WorkflowStatus, Tasks, Phase

\* Every step keeps the types.
LEMMA TypeStep == TypeOK /\ [Next]_vars => TypeOK'
<1> SUFFICES ASSUME TypeOK, [Next]_vars PROVE TypeOK'
    OBVIOUS
<1>1. CASE RecoverExpiredLeases
    BY <1>1, RecoverEffect DEF RecoverExpiredLeases, TypeOK, Phase
<1>2. CASE PromoteDueRetries
    BY <1>2, PromoteEffect DEF PromoteDueRetries, TypeOK, Phase
<1>3. CASE ClaimReadyTasks
    <2>1. wf' \in Workflow /\ claims' \subseteq Task
        BY <1>3, ClaimEffect DEF FindReadyTasks
    <2>2. phase' \in Phase /\ UNCHANGED <<running, interventions, started>>
        BY <1>3 DEF ClaimReadyTasks, Phase
    <2>3. QED
        BY <2>1, <2>2 DEF TypeOK
<1>4. CASE RoundBlocked \/ RoutingFails \/ DispatchDone \/ Crash
    BY <1>4, MaxInterventionsAssumption
    DEF RoundBlocked, RoutingFails, DispatchDone, Crash, Intervene, TypeOK, Phase
<1>5. CASE DispatchRequests
    <2>1. /\ running' \subseteq claims
          /\ UNCHANGED <<wf, interventions>>
          /\ claims' = {}
          /\ phase' = "dispatching"
          /\ started' = [t \in Task |-> IF t \in running' THEN started[t] + 1 ELSE started[t]]
        BY <1>5 DEF DispatchRequests
    <2>2. started' \in [Task -> Nat]
        BY <2>1 DEF TypeOK
    <2>3. QED
        BY <2>1, <2>2 DEF TypeOK, Phase
<1>6. ASSUME NEW t \in Task, AgentRun(t) PROVE TypeOK'
    BY <1>6, AgentRunEffect DEF TypeOK
<1>7. CASE Tick
    BY <1>7, TickEffect DEF Tick, TypeOK
<1>8. ASSUME NEW force \in BOOLEAN, CancelWorkflow(force) PROVE TypeOK'
    BY <1>8, CancelEffect, MaxInterventionsAssumption DEF CancelWorkflow, Intervene, TypeOK
<1>9. ASSUME NEW S \in SUBSET Task, ResetTasks(S) PROVE TypeOK'
    <2>1. started' \in [Task -> Nat]
        BY <1>9 DEF ResetTasks, TypeOK
    <2>2. interventions' \in 0 .. MaxInterventions
        BY <1>9, MaxInterventionsAssumption DEF ResetTasks, Intervene, TypeOK
    <2>3. wf' \in Workflow
        BY <1>9, ResetTasksEffect
    <2>4. QED
        BY <1>9, <2>1, <2>2, <2>3 DEF ResetTasks, TypeOK
<1>10. CASE UNCHANGED vars
    BY <1>10 DEF vars, TypeOK
<1>11. QED
    BY <1>1, <1>2, <1>3, <1>4, <1>5, <1>6, <1>7, <1>8, <1>9, <1>10, NextCases

\* Every variable of the runtime keeps its type.
THEOREM RuntimeTypes == Spec => []TypeOK
BY TypeInit, TypeStep, PTL DEF Spec

-----------------------------------------------------------------------------
(* Phases.                                                                 *)

\* Tasks stay claimed until they are dispatched and run until they settle.
LEMMA PhaseStep == TypeOK /\ PhaseInv /\ [Next]_vars => PhaseInv'
<1> SUFFICES ASSUME TypeOK, PhaseInv, [Next]_vars PROVE PhaseInv'
    OBVIOUS
<1>1. CASE RecoverExpiredLeases \/ PromoteDueRetries
    BY <1>1 DEF RecoverExpiredLeases, PromoteDueRetries, PhaseInv
<1>2. CASE ClaimReadyTasks
    BY <1>2 DEF ClaimReadyTasks, PhaseInv
<1>3. CASE RoundBlocked \/ RoutingFails \/ DispatchDone \/ Crash
    BY <1>3 DEF RoundBlocked, RoutingFails, DispatchDone, Crash, PhaseInv
<1>4. CASE DispatchRequests
    BY <1>4 DEF DispatchRequests, PhaseInv
<1>5. ASSUME NEW t \in Task, AgentRun(t) PROVE PhaseInv'
    BY <1>5, AgentRunEffect DEF PhaseInv
<1>6. CASE Tick
    BY <1>6 DEF Tick, PhaseInv
<1>7. ASSUME NEW force \in BOOLEAN, CancelWorkflow(force) PROVE PhaseInv'
    BY <1>7 DEF CancelWorkflow, PhaseInv
<1>8. ASSUME NEW S \in SUBSET Task, ResetTasks(S) PROVE PhaseInv'
    BY <1>8 DEF ResetTasks, PhaseInv
<1>9. CASE UNCHANGED vars
    BY <1>9 DEF vars, PhaseInv
<1>10. QED
    BY <1>1, <1>2, <1>3, <1>4, <1>5, <1>6, <1>7, <1>8, <1>9, NextCases

-----------------------------------------------------------------------------
(* The budget of attempts.                                                 *)

\* A new task has its whole budget.
LEMMA BudgetInit == Init => BudgetInv
<1> SUFFICES ASSUME Init, NEW t \in Task
    PROVE  /\ started[t] <= wf.tasks[t].attempts
           /\ t \in claims => started[t] < wf.tasks[t].attempts
           /\ wf.tasks[t].attempts <= MaxAttempts[t]
           /\ wf.tasks[t].status \in {"pending", "retry_wait"}
                  => wf.tasks[t].attempts < MaxAttempts[t]
    BY DEF BudgetInv
<1>1. started[t] = 0 /\ claims = {} /\ wf.tasks[t].attempts = 0
    BY DEF Init, NewTask
<1>2. MaxAttempts[t] \in Nat \ {0}
    BY MaxAttemptsAssumption
<1>3. QED
    BY <1>1, <1>2

\* Every step keeps the budget.
LEMMA BudgetStep == TypeOK /\ PhaseInv /\ BudgetInv /\ [Next]_vars => BudgetInv'
<1> SUFFICES ASSUME TypeOK, PhaseInv, BudgetInv, [Next]_vars, NEW t \in Task
    PROVE  /\ started'[t] <= wf'.tasks[t].attempts
           /\ t \in claims' => started'[t] < wf'.tasks[t].attempts
           /\ wf'.tasks[t].attempts <= MaxAttempts[t]
           /\ wf'.tasks[t].status \in {"pending", "retry_wait"}
                  => wf'.tasks[t].attempts < MaxAttempts[t]
    BY DEF BudgetInv
<1> DEFINE Kept ==
           /\ started'[t] <= wf'.tasks[t].attempts
           /\ t \in claims' => started'[t] < wf'.tasks[t].attempts
           /\ wf'.tasks[t].attempts <= MaxAttempts[t]
           /\ wf'.tasks[t].status \in {"pending", "retry_wait"}
                  => wf'.tasks[t].attempts < MaxAttempts[t]
<1>0. /\ wf.tasks[t] \in RuntimeTask
      /\ wf.tasks[t].attempts \in Nat
      /\ MaxAttempts[t] \in Nat \ {0}
      /\ started[t] \in Nat
      /\ started[t] <= wf.tasks[t].attempts
      /\ t \in claims => started[t] < wf.tasks[t].attempts
      /\ wf.tasks[t].attempts <= MaxAttempts[t]
      /\ wf.tasks[t].status \in {"pending", "retry_wait"}
             => wf.tasks[t].attempts < MaxAttempts[t]
    BY TaskTypes DEF BudgetInv, TypeOK, RuntimeTask
<1>1. CASE RecoverExpiredLeases
    <2>1. /\ wf'.tasks[t].attempts = wf.tasks[t].attempts
          /\ wf'.tasks[t].status \in {wf.tasks[t].status, "blocked"}
             \/ wf.tasks[t].attempts < MaxAttempts[t]
        <3>1. CASE IsLeaseExpired(wf.tasks, t)
            <4>1. wf'.tasks[t] = RecoverLease(wf.tasks[t], MaxAttempts[t])
                BY <1>1, <3>1, RecoverEffect
            <4>2. wf.tasks[t] \in RuntimeTask /\ MaxAttempts[t] \in Nat
                BY <1>0
            <4>3. /\ wf'.tasks[t].attempts = wf.tasks[t].attempts
                  /\ wf'.tasks[t].status =
                        IF wf.tasks[t].attempts >= MaxAttempts[t] THEN "blocked" ELSE "pending"
                BY <4>1, <4>2, RecoverLeaseEffect
            <4>4. QED
                BY <1>0, <4>3
        <3>2. CASE ~ IsLeaseExpired(wf.tasks, t)
            BY <1>1, <3>2, RecoverEffect
        <3>3. QED
            BY <3>1, <3>2
    <2>2. UNCHANGED <<claims, started>>
        BY <1>1 DEF RecoverExpiredLeases
    <2>3. QED
        BY <1>0, <2>1, <2>2
<1>2. CASE PromoteDueRetries
    <2>1. /\ wf'.tasks[t].attempts = wf.tasks[t].attempts
          /\ \/ wf'.tasks[t].status = wf.tasks[t].status
             \/ wf.tasks[t].status = "retry_wait"
        BY <1>0, <1>2, PromoteEffect, PromoteRetryEffect DEF IsRetryDue
    <2>2. UNCHANGED <<claims, started>>
        BY <1>2 DEF PromoteDueRetries
    <2>3. QED
        BY <1>0, <2>1, <2>2
<1>3. CASE ClaimReadyTasks
    <2>1. started' = started
        BY <1>3 DEF ClaimReadyTasks
    <2>2. CASE t \in claims'
        <3>1. wf.tasks[t].status = "pending"
            BY <1>3, <2>2, ClaimEffect DEF FindReadyTasks, IsTaskReady
        <3>2. wf'.tasks[t] = ClaimTask(wf.tasks[t], LeaseLength)
            BY <1>3, <2>2, ClaimEffect
        <3>3. /\ wf'.tasks[t].attempts = wf.tasks[t].attempts + 1
              /\ wf'.tasks[t].status = "in_progress"
            <4>1. wf.tasks[t] \in RuntimeTask /\ LeaseLength \in Nat
                BY <1>0, LeaseLengthAssumption
            <4>2. QED
                BY <3>2, <4>1, ClaimTaskEffect
        <3>4. QED
            BY <1>0, <2>1, <3>1, <3>3
    <2>3. CASE t \notin claims'
        <3>1. \/ wf'.tasks[t] = ReleaseLease(wf.tasks[t], "blocked")
              \/ wf'.tasks[t] = wf.tasks[t]
            BY <1>3, <2>3, ClaimEffect
        <3>2. /\ wf'.tasks[t].attempts = wf.tasks[t].attempts
              /\ wf'.tasks[t].status \in {wf.tasks[t].status, "blocked"}
            BY <1>0, <3>1, ReleaseLeaseEffect DEF TaskStatus
        <3>3. QED
            BY <1>0, <2>1, <2>3, <3>2
    <2>4. QED
        BY <2>2, <2>3
<1>4. CASE RoundBlocked \/ RoutingFails \/ DispatchDone \/ Crash \/ UNCHANGED vars
    BY <1>0, <1>4, QuietEffect
<1>5. CASE DispatchRequests
    <2>1. /\ UNCHANGED wf
          /\ claims' = {}
          /\ started'[t] = IF t \in running' THEN started[t] + 1 ELSE started[t]
          /\ t \in running' => t \in claims
        BY <1>5 DEF DispatchRequests
    <2>2. QED
        BY <1>0, <2>1
<1>6. ASSUME NEW u \in Task, AgentRun(u) PROVE Kept
    <2>1. /\ wf'.tasks[t].attempts = wf.tasks[t].attempts
          /\ wf'.tasks[t].status \in {"pending", "retry_wait"}
             => \/ wf'.tasks[t].status = wf.tasks[t].status
                \/ wf.tasks[t].attempts < MaxAttempts[t]
        BY <1>6, AgentRunEffect
    <2>2. UNCHANGED <<claims, started>>
        BY <1>6, AgentRunEffect
    <2>3. QED
        BY <1>0, <2>1, <2>2
<1>7. CASE Tick
    <2>1. /\ wf'.tasks[t].status = wf.tasks[t].status
          /\ wf'.tasks[t].attempts = wf.tasks[t].attempts
          /\ UNCHANGED <<claims, started>>
        BY <1>7, TickEffect DEF Tick
    <2>2. QED
        BY <1>0, <2>1
<1>8. ASSUME NEW force \in BOOLEAN, CancelWorkflow(force) PROVE Kept
    <2>1. /\ wf'.tasks[t].status = wf.tasks[t].status
          /\ wf'.tasks[t].attempts = wf.tasks[t].attempts
          /\ UNCHANGED <<claims, started>>
        BY <1>8, CancelEffect DEF CancelWorkflow
    <2>2. QED
        BY <1>0, <2>1
<1>9. ASSUME NEW S \in SUBSET Task, ResetTasks(S) PROVE Kept
    <2>1. UNCHANGED claims /\ t \notin claims
        BY <1>9 DEF ResetTasks, PhaseInv
    <2>2. started'[t] = IF t \in S THEN 0 ELSE started[t]
        BY <1>9 DEF ResetTasks
    <2>3. wf'.tasks[t] = IF t \in S THEN ResetTaskForRetry(wf.tasks[t]) ELSE wf.tasks[t]
        BY <1>9, ResetTasksEffect
    <2>4. t \in S => wf'.tasks[t].attempts = 0
        BY <2>3, ResetEffect
    <2>5. QED
        BY <1>0, <2>1, <2>2, <2>3, <2>4
<1>10. QED
    BY <1>1, <1>2, <1>3, <1>4, <1>5, <1>6, <1>7, <1>8, <1>9, NextCases

-----------------------------------------------------------------------------
(* Claimed and running tasks.                                              *)

\* What is claimed or running stays in_progress, and what it depends on stays
\* completed.
LEMMA ExecutionStep == TypeOK /\ PhaseInv /\ ExecutionSound /\ [Next]_vars => ExecutionSound'
<1> SUFFICES ASSUME TypeOK, PhaseInv, ExecutionSound, [Next]_vars,
                    NEW t \in claims' \cup running'
    PROVE  /\ phase' \in {"claimed", "dispatching"}
           /\ wf'.tasks[t].status = "in_progress"
           /\ \A d \in Deps[t] : wf'.tasks[d].status = "completed"
    BY DEF ExecutionSound
<1> DEFINE Sound ==
           /\ phase' \in {"claimed", "dispatching"}
           /\ wf'.tasks[t].status = "in_progress"
           /\ \A d \in Deps[t] : wf'.tasks[d].status = "completed"
<1>0. ASSUME t \in claims \cup running
      PROVE  /\ t \in Task /\ Deps[t] \subseteq Task
             /\ phase \in {"claimed", "dispatching"}
             /\ wf.tasks[t].status = "in_progress"
             /\ \A d \in Deps[t] : wf.tasks[d].status = "completed"
    BY <1>0, DepsAssumption DEF ExecutionSound, TypeOK
<1>1. CASE RecoverExpiredLeases \/ PromoteDueRetries
    BY <1>1 DEF RecoverExpiredLeases, PromoteDueRetries, PhaseInv
<1>2. CASE ClaimReadyTasks
    <2>1. running' = {} /\ t \in claims'
        BY <1>2 DEF ClaimReadyTasks, PhaseInv
    <2>2. /\ t \in Task /\ Deps[t] \subseteq Task
          /\ \A d \in Deps[t] : wf.tasks[d].status = "completed"
        BY <1>2, <2>1, ClaimEffect, DepsAssumption DEF FindReadyTasks, IsTaskReady
    <2>3. phase' = "claimed"
        BY <1>2, <2>1 DEF ClaimReadyTasks
    <2>4. wf'.tasks[t].status = "in_progress"
        <3>1. wf'.tasks[t] = ClaimTask(wf.tasks[t], LeaseLength)
            BY <1>2, <2>1, <2>2, ClaimEffect
        <3>2. wf.tasks[t] \in RuntimeTask /\ LeaseLength \in Nat
            BY <2>2, TaskTypes, LeaseLengthAssumption
        <3>3. QED
            BY <3>1, <3>2, ClaimTaskEffect
    <2>5. ASSUME NEW d \in Deps[t] PROVE wf'.tasks[d] = wf.tasks[d]
        <3>1. d \in Task /\ d \notin FindReadyTasks(wf.tasks)
            BY <2>2 DEF FindReadyTasks, IsTaskReady
        <3>2. QED
            BY <1>2, <3>1, ClaimEffect
    <2>6. QED
        BY <2>2, <2>3, <2>4, <2>5
<1>3. CASE RoundBlocked \/ RoutingFails \/ DispatchDone \/ Crash
    BY <1>3 DEF RoundBlocked, RoutingFails, DispatchDone, Crash, PhaseInv
<1>4. CASE DispatchRequests
    <2>1. t \in claims /\ phase' = "dispatching" /\ UNCHANGED wf
        BY <1>4 DEF DispatchRequests
    <2>2. QED
        BY <1>0, <2>1
<1>5. ASSUME NEW u \in Task, AgentRun(u) PROVE Sound
    <2>1. /\ t # u /\ t \in claims \cup running /\ phase' = phase
        BY <1>5, AgentRunEffect DEF PhaseInv, TypeOK, ExecutionSound
    <2>2. /\ wf.tasks[u].status = "in_progress"
          /\ \A v \in Task \ {u} : wf'.tasks[v] = wf.tasks[v]
        BY <1>5, AgentRunEffect
    <2>3. QED
        BY <1>0, <2>1, <2>2
<1>6. CASE Tick
    BY <1>0, <1>6, TickEffect DEF Tick
<1>7. ASSUME NEW force \in BOOLEAN, CancelWorkflow(force) PROVE Sound
    BY <1>7 DEF CancelWorkflow, PhaseInv
<1>8. ASSUME NEW S \in SUBSET Task, ResetTasks(S) PROVE Sound
    BY <1>8 DEF ResetTasks, PhaseInv
<1>9. CASE UNCHANGED vars
    BY <1>0, <1>9 DEF vars
<1>10. QED
    BY <1>1, <1>2, <1>3, <1>4, <1>5, <1>6, <1>7, <1>8, <1>9, NextCases

-----------------------------------------------------------------------------
(* Conflict domains.                                                       *)

\* Conflict is symmetric.
LEMMA ConflictSymmetric ==
    ASSUME NEW t \in Task, NEW u \in Task, Conflict(t, u)
    PROVE  Conflict(u, t)
BY DEF Conflict, AreDependencyIndependent

\* A claim is the only step that adds a live lease.
LEMMA LeasesShrink ==
    ASSUME TypeOK, [Next]_vars, ~ ClaimReadyTasks
    PROVE  ActiveLeases(wf'.tasks) \subseteq ActiveLeases(wf.tasks)
<1> SUFFICES ASSUME NEW t \in Task, HasActiveLease(wf'.tasks, t)
    PROVE  HasActiveLease(wf.tasks, t)
    BY DEF ActiveLeases
<1>0. /\ wf.tasks[t] \in RuntimeTask /\ wf.tasks[t].lease \in Nat
      /\ wf'.tasks[t].status = "in_progress" /\ wf'.tasks[t].lease > 0
    BY TaskTypes DEF RuntimeTask, HasActiveLease
<1>1. CASE RecoverExpiredLeases
    <2>1. wf'.tasks[t] = wf.tasks[t]
        <3>1. wf.tasks[t] \in RuntimeTask /\ MaxAttempts[t] \in Nat
            BY TaskTypes
        <3>2. RecoverLease(wf.tasks[t], MaxAttempts[t]).lease = 0
            BY <3>1, RecoverLeaseEffect
        <3>3. QED
            BY <1>0, <1>1, <3>2, RecoverEffect
    <2>2. QED
        BY <1>0, <2>1 DEF HasActiveLease
<1>2. CASE PromoteDueRetries
    <2>1. wf'.tasks[t] = wf.tasks[t]
        BY <1>0, <1>2, PromoteEffect, PromoteRetryEffect
    <2>2. QED
        BY <1>0, <2>1 DEF HasActiveLease
<1>3. CASE RoundBlocked \/ RoutingFails \/ DispatchDone \/ Crash \/ UNCHANGED vars
    BY <1>0, <1>3, QuietEffect DEF HasActiveLease
<1>4. CASE DispatchRequests
    BY <1>0, <1>4 DEF DispatchRequests, HasActiveLease
<1>5. ASSUME NEW u \in Task, AgentRun(u) PROVE HasActiveLease(wf.tasks, t)
    BY <1>0, <1>5, AgentRunEffect DEF HasActiveLease
<1>6. CASE Tick
    <2>1. wf'.tasks[t].lease <= wf.tasks[t].lease /\ wf.tasks[t].status = "in_progress"
        BY <1>0, <1>6, TickEffect
    <2>2. wf'.tasks[t].lease \in Nat
        <3>1. wf' \in Workflow
            BY <1>6, TickEffect
        <3>2. wf'.tasks[t] \in RuntimeTask
            BY <3>1 DEF Workflow, Tasks
        <3>3. QED
            BY <3>2 DEF RuntimeTask
    <2>3. QED
        BY <1>0, <2>1, <2>2 DEF HasActiveLease
<1>7. ASSUME NEW force \in BOOLEAN, CancelWorkflow(force) PROVE HasActiveLease(wf.tasks, t)
    BY <1>0, <1>7, CancelEffect
<1>8. ASSUME NEW S \in SUBSET Task, ResetTasks(S) PROVE HasActiveLease(wf.tasks, t)
    <2>1. wf'.tasks[t] = wf.tasks[t]
        BY <1>0, <1>8, ResetTasksEffect, ResetEffect
    <2>2. QED
        BY <1>0, <2>1 DEF HasActiveLease
<1>9. QED
    BY <1>1, <1>2, <1>3, <1>4, <1>5, <1>6, <1>7, <1>8, NextCases

\* A claim adds the leases of the claimed tasks and no others.
LEMMA LeasesGrow ==
    ASSUME TypeOK, ClaimReadyTasks
    PROVE  ActiveLeases(wf'.tasks) \subseteq ActiveLeases(wf.tasks) \cup claims'
<1> SUFFICES ASSUME NEW t \in Task \ claims', HasActiveLease(wf'.tasks, t)
    PROVE  HasActiveLease(wf.tasks, t)
    BY DEF ActiveLeases
<1>1. wf'.tasks[t] = ReleaseLease(wf.tasks[t], "blocked") \/ wf'.tasks[t] = wf.tasks[t]
    BY ClaimEffect
<1>2. ReleaseLease(wf.tasks[t], "blocked").status = "blocked"
    BY TaskTypes, ReleaseLeaseEffect DEF TaskStatus
<1>3. QED
    BY <1>1, <1>2 DEF HasActiveLease

\* No step leases two conflicting tasks at the same time.
LEMMA ConflictStep == TypeOK /\ ConflictExclusion /\ [Next]_vars => ConflictExclusion'
<1> SUFFICES ASSUME TypeOK, ConflictExclusion, [Next]_vars PROVE ConflictExclusion'
    OBVIOUS
<1>1. CASE ~ ClaimReadyTasks
    BY <1>1, LeasesShrink DEF ConflictExclusion
<1>2. CASE ClaimReadyTasks
    <2>1. \A t \in claims' : t \in Task /\ ~ Held(t, claims')
        BY <1>2, ClaimEffect DEF FindReadyTasks
    <2>2. ASSUME NEW t \in claims', NEW u \in ActiveLeases(wf.tasks) \cup claims'
          PROVE  ~ Conflict(t, u)
        <3>1. CASE u \in ActiveLeases(wf.tasks) \/ u < t
            BY <2>1, <2>2, <3>1 DEF Held
        <3>2. CASE u \in claims' /\ t < u
            BY <2>1, <3>2, ConflictSymmetric DEF Held
        <3>3. CASE u = t
            BY <3>3 DEF Conflict
        <3>4. t \in Int /\ (u \in claims' => u \in Int)
            BY <2>1, NumTasksAssumption DEF Task
        <3>5. QED
            BY <2>2, <3>1, <3>2, <3>3, <3>4
    <2>3. ASSUME NEW t \in ActiveLeases(wf'.tasks), NEW u \in ActiveLeases(wf'.tasks)
          PROVE  ~ Conflict(t, u)
        <3>1. /\ t \in ActiveLeases(wf.tasks) \cup claims'
              /\ u \in ActiveLeases(wf.tasks) \cup claims'
              /\ t \in Task /\ u \in Task
            BY <1>2, LeasesGrow DEF ActiveLeases
        <3>2. CASE t \in claims'
            BY <2>2, <3>1, <3>2
        <3>3. CASE u \in claims'
            BY <2>2, <3>1, <3>3, ConflictSymmetric
        <3>4. CASE t \in ActiveLeases(wf.tasks) /\ u \in ActiveLeases(wf.tasks)
            BY <3>4 DEF ConflictExclusion
        <3>5. QED
            BY <3>1, <3>2, <3>3, <3>4
    <2>4. QED
        BY <2>3 DEF ConflictExclusion
<1>3. QED
    BY <1>1, <1>2

-----------------------------------------------------------------------------
(* The workflow status.                                                    *)

\* The derived status depends on the statuses of the tasks only.
LEMMA DeriveByStatus ==
    ASSUME NEW ts, NEW us, \A t \in Task : ts[t].status = us[t].status
    PROVE  DeriveWorkflowStatus(ts) = DeriveWorkflowStatus(us)
BY Zenon DEF DeriveWorkflowStatus

\* The promotion of a retry leaves a failed workflow failed and finds any other
\* one running; what it leaves behind derives to blocked, planned or the same.
LEMMA PromoteAgrees ==
    ASSUME TypeOK, StatusAgrees, PromoteDueRetries
    PROVE  StatusAgrees'
<1>1. wf'.status = wf.status
    BY PromoteEffect
<1>2. \A t \in Task : /\ IsRetryDue(wf.tasks, t) => /\ wf.tasks[t].status = "retry_wait"
                                                   /\ wf'.tasks[t].status = "pending"
                      /\ ~ IsRetryDue(wf.tasks, t) => wf'.tasks[t] = wf.tasks[t]
    <2>1. ASSUME NEW t \in Task, IsRetryDue(wf.tasks, t)
          PROVE  wf.tasks[t].status = "retry_wait" /\ wf'.tasks[t].status = "pending"
        <3>1. wf'.tasks[t] = PromoteRetry(wf.tasks[t])
            BY <2>1, PromoteEffect
        <3>2. QED
            BY <2>1, <3>1, TaskTypes, PromoteRetryEffect DEF IsRetryDue
    <2>2. QED
        BY <2>1, PromoteEffect
<1>3. CASE \A t \in Task : ~ IsRetryDue(wf.tasks, t)
    <2>1. DeriveWorkflowStatus(wf'.tasks) = DeriveWorkflowStatus(wf.tasks)
        BY <1>2, <1>3, DeriveByStatus
    <2>2. QED
        BY <1>1, <2>1 DEF StatusAgrees
<1>4. CASE \E t \in Task : IsRetryDue(wf.tasks, t)
    <2>1. PICK t \in Task : /\ wf.tasks[t].status = "retry_wait"
                            /\ wf'.tasks[t].status = "pending"
        BY <1>2, <1>4
    <2>2. CASE \E u \in Task : wf.tasks[u].status = "failed"
        <3>1. \E u \in Task : wf'.tasks[u].status = "failed"
            BY <1>2, <2>2
        <3>2. DeriveWorkflowStatus(wf.tasks) = "failed"
            BY <2>1, <2>2 DEF DeriveWorkflowStatus
        <3>3. DeriveWorkflowStatus(wf'.tasks) = "failed"
            BY <2>1, <3>1 DEF DeriveWorkflowStatus
        <3>4. QED
            BY <1>1, <3>2, <3>3 DEF StatusAgrees
    <2>3. CASE \A u \in Task : wf.tasks[u].status # "failed"
        <3>1. DeriveWorkflowStatus(wf.tasks) = "running"
            BY <2>1, <2>3 DEF DeriveWorkflowStatus
        <3>2. \A u \in Task : wf'.tasks[u].status # "failed"
            BY <1>2, <2>3
        <3>3. DeriveWorkflowStatus(wf'.tasks) \in {"running", "blocked", "planned"}
            BY <2>1, <3>2 DEF DeriveWorkflowStatus
        <3>4. QED
            BY <1>1, <3>1, <3>3 DEF StatusAgrees
    <2>4. QED
        BY <2>2, <2>3
<1>5. QED
    BY <1>3, <1>4

\* Every step keeps the agreement.
LEMMA StatusStep == TypeOK /\ StatusAgrees /\ [Next]_vars => StatusAgrees'
<1> SUFFICES ASSUME TypeOK, StatusAgrees, [Next]_vars PROVE StatusAgrees'
    OBVIOUS
<1>1. ASSUME wf'.status = DeriveWorkflowStatus(wf'.tasks) PROVE StatusAgrees'
    BY <1>1 DEF StatusAgrees
<1>2. ASSUME UNCHANGED wf PROVE StatusAgrees'
    BY <1>2 DEF StatusAgrees
<1>3. CASE RecoverExpiredLeases
    BY <1>1, <1>2, <1>3, RecoverEffect
<1>4. CASE PromoteDueRetries
    BY <1>4, PromoteAgrees
<1>5. CASE ClaimReadyTasks
    BY <1>1, <1>5, ClaimEffect
<1>6. CASE RoundBlocked \/ RoutingFails \/ DispatchDone \/ Crash \/ UNCHANGED vars
    BY <1>2, <1>6, QuietEffect
<1>7. CASE DispatchRequests
    BY <1>2, <1>7 DEF DispatchRequests
<1>8. ASSUME NEW t \in Task, AgentRun(t) PROVE StatusAgrees'
    BY <1>1, <1>8, AgentRunEffect
<1>9. CASE Tick
    <2>1. wf'.status = wf.status
        BY <1>9, TickEffect
    <2>2. DeriveWorkflowStatus(wf'.tasks) = DeriveWorkflowStatus(wf.tasks)
        BY <1>9, TickEffect, DeriveByStatus
    <2>3. QED
        BY <2>1, <2>2 DEF StatusAgrees
<1>10. ASSUME NEW force \in BOOLEAN, CancelWorkflow(force) PROVE StatusAgrees'
    BY <1>10, CancelEffect DEF StatusAgrees
<1>11. ASSUME NEW S \in SUBSET Task, ResetTasks(S) PROVE StatusAgrees'
    BY <1>1, <1>11, ResetTasksEffect
<1>12. QED
    BY <1>3, <1>4, <1>5, <1>6, <1>7, <1>8, <1>9, <1>10, <1>11, NextCases

-----------------------------------------------------------------------------
(* The inductive invariant and what follows from it.                       *)

\* The invariant holds of a new workflow.
LEMMA RuntimeInit == Init => RuntimeInv
<1> SUFFICES ASSUME Init PROVE RuntimeInv
    OBVIOUS
<1>1. claims = {} /\ running = {}
    BY DEF Init
<1>2. \A t \in Task : wf.tasks[t].status = "pending"
    BY DEF Init, NewTask
<1>3. PhaseInv /\ ExecutionSound
    BY <1>1 DEF PhaseInv, ExecutionSound
<1>4. ConflictExclusion
    BY <1>2 DEF ConflictExclusion, ActiveLeases, HasActiveLease
<1>5. StatusAgrees
    <2>1. 1 \in Task
        BY NumTasksAssumption DEF Task
    <2>2. DeriveWorkflowStatus(wf.tasks) = "planned"
        BY <1>2, <2>1 DEF DeriveWorkflowStatus
    <2>3. QED
        BY <2>2 DEF Init, StatusAgrees
<1>6. QED
    BY <1>3, <1>4, <1>5, TypeInit, BudgetInit DEF RuntimeInv

\* The strengthened invariant holds in every run of the runtime.
THEOREM RuntimeInvariance == Spec => []RuntimeInv
<1>1. RuntimeInv /\ [Next]_vars => RuntimeInv'
    BY TypeStep, PhaseStep, BudgetStep, ExecutionStep, ConflictStep, StatusStep DEF RuntimeInv
<1>2. QED
    BY RuntimeInit, <1>1, PTL DEF Spec

\* Between two resets a task is run at most as often as attempts were counted
\* for it, and never beyond its budget, whatever crashes, expired leases and
\* provider failures come between.
THEOREM RetriesAreBounded == Spec => []BudgetHonoured
<1>1. RuntimeInv => BudgetHonoured
    BY DEF RuntimeInv, BudgetInv, BudgetHonoured
<1>2. QED
    BY <1>1, RuntimeInvariance, PTL

\* A claimed or running task is in_progress in state.json on top of completed
\* dependencies until its outcome is applied.
THEOREM ExecutionIsSound == Spec => []ExecutionSound
<1>1. RuntimeInv => ExecutionSound
    BY DEF RuntimeInv
<1>2. QED
    BY <1>1, RuntimeInvariance, PTL

\* Independent tasks with a common conflict domain are never leased together.
THEOREM ConflictsExcluded == Spec => []ConflictExclusion
<1>1. RuntimeInv => ConflictExclusion
    BY DEF RuntimeInv
<1>2. QED
    BY <1>1, RuntimeInvariance, PTL

\* The persisted workflow status is that of the tasks, up to the promotion of
\* retries.
THEOREM StatusStaysAgreed == Spec => []StatusAgrees
<1>1. RuntimeInv => StatusAgrees
    BY DEF RuntimeInv
<1>2. QED
    BY <1>1, RuntimeInvariance, PTL

-----------------------------------------------------------------------------
(* Capacity.                                                               *)

\* The tasks of a workflow are finitely many.
LEMMA TaskFinite == IsFiniteSet(Task)
BY NumTasksAssumption, FS_Interval DEF Task

\* The claims of a round fit into the free slots.
LEMMA ClaimsFit ==
    ASSUME TypeOK, ClaimReadyTasks
    PROVE  claims' \subseteq Task /\ Cardinality(claims') <= FreeSlots
<1>1. PICK chosen \in SUBSET FindReadyTasks(wf.tasks) :
        /\ IsSlice(chosen, FindReadyTasks(wf.tasks), FreeSlots)
        /\ claims' \subseteq chosen
    BY ClaimEffect
<1>2. chosen \subseteq Task /\ IsFiniteSet(chosen)
    BY TaskFinite, FS_Subset DEF FindReadyTasks
<1>3. /\ Cardinality(claims') <= Cardinality(chosen)
      /\ Cardinality(claims') \in Nat
      /\ Cardinality(chosen) \in Nat
    BY <1>1, <1>2, FS_Subset, FS_CardinalityType
<1>4. Cardinality(chosen) <= FreeSlots
    BY <1>1 DEF IsSlice
<1>5. FreeSlots \in Int
    <2>1. Cardinality(ActiveLeases(wf.tasks)) \in Nat
        BY TaskFinite, FS_Subset, FS_CardinalityType DEF ActiveLeases
    <2>2. QED
        BY <2>1, MaxParallelAssumption DEF FreeSlots
<1>6. QED
    BY <1>1, <1>2, <1>3, <1>4, <1>5

\* No step leases more tasks than run in parallel.
LEMMA CapacityStep == TypeOK /\ CapacityRespected /\ [Next]_vars => CapacityRespected'
<1> SUFFICES ASSUME TypeOK, CapacityRespected, [Next]_vars PROVE CapacityRespected'
    OBVIOUS
<1>1. /\ IsFiniteSet(ActiveLeases(wf.tasks)) /\ IsFiniteSet(ActiveLeases(wf'.tasks))
      /\ Cardinality(ActiveLeases(wf.tasks)) \in Nat
      /\ Cardinality(ActiveLeases(wf'.tasks)) \in Nat
    BY TaskFinite, FS_Subset, FS_CardinalityType DEF ActiveLeases
<1>2. CASE ~ ClaimReadyTasks
    <2>1. Cardinality(ActiveLeases(wf'.tasks)) <= Cardinality(ActiveLeases(wf.tasks))
        BY <1>1, <1>2, LeasesShrink, FS_Subset
    <2>2. QED
        BY <1>1, <2>1, MaxParallelAssumption DEF CapacityRespected
<1>3. CASE ClaimReadyTasks
    <2>1. /\ IsFiniteSet(claims') /\ Cardinality(claims') \in Nat
          /\ Cardinality(claims') <= FreeSlots
        BY <1>3, ClaimsFit, TaskFinite, FS_Subset, FS_CardinalityType
    <2>2. /\ Cardinality(ActiveLeases(wf.tasks) \cup claims') \in Nat
          /\ Cardinality(ActiveLeases(wf.tasks) \cup claims')
                 <= Cardinality(ActiveLeases(wf.tasks)) + Cardinality(claims')
        <3>1. IsFiniteSet(ActiveLeases(wf.tasks) \cup claims')
            BY <1>1, <2>1, FS_Union
        <3>2. Cardinality(ActiveLeases(wf.tasks) \cap claims') \in Nat
            BY <1>1, FS_Intersection, FS_CardinalityType
        <3>3. Cardinality(ActiveLeases(wf.tasks) \cup claims') =
                  Cardinality(ActiveLeases(wf.tasks)) + Cardinality(claims')
                      - Cardinality(ActiveLeases(wf.tasks) \cap claims')
            BY <1>1, <2>1, FS_Union
        <3>4. QED
            BY <1>1, <2>1, <3>1, <3>2, <3>3, FS_CardinalityType
    <2>3. Cardinality(ActiveLeases(wf'.tasks))
              <= Cardinality(ActiveLeases(wf.tasks) \cup claims')
        BY <1>1, <1>3, <2>1, LeasesGrow, FS_Subset, FS_Union
    <2>4. Cardinality(ActiveLeases(wf.tasks)) + FreeSlots <= MaxParallel
        BY <1>1, MaxParallelAssumption DEF FreeSlots, CapacityRespected
    <2>5. FreeSlots \in Int
        BY <1>1, MaxParallelAssumption DEF FreeSlots
    <2>6. QED
        BY <1>1, <2>1, <2>2, <2>3, <2>4, <2>5, MaxParallelAssumption DEF CapacityRespected
<1>4. QED
    BY <1>2, <1>3

\* The live leases, those of crashed runs included, never exceed the effective
\* parallelism.
THEOREM CapacityIsRespected == Spec => []CapacityRespected
<1>1. Init => CapacityRespected
    <2>1. Init => ActiveLeases(wf.tasks) = {}
        BY DEF Init, NewTask, ActiveLeases, HasActiveLease
    <2>2. QED
        BY <2>1, FS_EmptySet, MaxParallelAssumption DEF CapacityRespected
<1>2. QED
    BY <1>1, TypeInit, TypeStep, CapacityStep, PTL DEF Spec

-----------------------------------------------------------------------------
(* Completed work.                                                         *)

\* Only a manual retry with force takes a task out of "completed".
LEMMA CompletedStep ==
    ASSUME TypeOK, [Next]_vars, NEW t \in Task,
           wf.tasks[t].status = "completed", wf'.tasks[t].status # "completed"
    PROVE  phase = "idle" /\ ManualRetryTask(t, TRUE)
<1>1. ~ RecoverExpiredLeases
    BY RecoverEffect DEF IsLeaseExpired
<1>2. ~ PromoteDueRetries
    BY PromoteEffect DEF IsRetryDue
<1>3. ~ ClaimReadyTasks
    BY ClaimEffect DEF FindReadyTasks, IsTaskReady
<1>4. ~ (RoundBlocked \/ RoutingFails \/ DispatchDone \/ Crash \/ UNCHANGED vars)
    BY QuietEffect
<1>5. ~ DispatchRequests
    BY DEF DispatchRequests
<1>6. ~ \E u \in Task : AgentRun(u)
    <2>1. ASSUME NEW u \in Task, AgentRun(u) PROVE FALSE
        BY <2>1, AgentRunEffect
    <2>2. QED
        BY <2>1
<1>7. ~ Tick
    BY TickEffect
<1>8. ~ \E force \in BOOLEAN : CancelWorkflow(force)
    BY CancelEffect
<1>9. ASSUME NEW S, ResetTasks(S) PROVE t \in S
    BY <1>9, ResetTasksEffect
<1>10. ~ \E scope \in {"failed", "blocked"} : RetryByScope(scope)
    BY <1>9 DEF RetryByScope, WithStatus
<1>11. PICK u \in Task, force \in BOOLEAN : ManualRetryTask(u, force)
    BY <1>1, <1>2, <1>3, <1>4, <1>5, <1>6, <1>7, <1>8, <1>10 DEF Next, Schedule, Operator
<1>12. u = t
    BY <1>9, <1>11 DEF ManualRetryTask
<1>13. QED
    BY <1>11, <1>12 DEF ManualRetryTask, ResetTasks

\* No step of the scheduler, an agent run, a crash or the clock takes a task out
\* of "completed".
THEOREM CompletedIsStable == Spec => CompletedStays
<1>1. TypeOK /\ [Next]_vars =>
        [\A t \in Task :
            wf.tasks[t].status = "completed" /\ wf'.tasks[t].status # "completed"
            => phase = "idle" /\ ManualRetryTask(t, TRUE)]_vars
    BY CompletedStep
<1>2. QED
    BY <1>1, RuntimeTypes, PTL DEF Spec, CompletedStays

-----------------------------------------------------------------------------
(* The steps of the life cycle, in terms of the runtime's state.           *)

KeepsAttempts(t) == wf'.tasks[t].attempts = wf.tasks[t].attempts

\* A step whose every task keeps its status and attempts is a stutter.
LEMMA Stutter ==
    ASSUME \A t \in Task : wf'.tasks[t].status = wf.tasks[t].status /\ KeepsAttempts(t)
    PROVE  UNCHANGED Lifecycle!lifecycleVars
BY Zenon DEF Lifecycle!lifecycleVars, KeepsAttempts

\* Attempts that are counted and begin.
LEMMA StartStep ==
    ASSUME NEW S \in SUBSET (Task \ GateTask),
           \A t \in S : /\ wf.tasks[t].status = "pending"
                        /\ wf.tasks[t].attempts < MaxAttempts[t]
                        /\ \A d \in Deps[t] : wf.tasks[d].status = "completed"
                        /\ wf'.tasks[t].status = "in_progress"
                        /\ wf'.tasks[t].attempts = wf.tasks[t].attempts + 1,
           \A t \in Task \ S : wf'.tasks[t].status = wf.tasks[t].status /\ KeepsAttempts(t)
    PROVE  Lifecycle!LifecycleNext
<1>1. S \subseteq Lifecycle!Startable
    BY DepsAssumption DEF Lifecycle!Startable, Lifecycle!Task, Task
<1>2. Lifecycle!StartTasks(S)
    BY <1>1 DEF Lifecycle!StartTasks, Lifecycle!BecomeEach, Lifecycle!Task, Task, KeepsAttempts
<1>3. QED
    BY <1>2 DEF Lifecycle!LifecycleNext, Lifecycle!Task, Task

\* Attempts that are given up.
LEMMA AbandonStep ==
    ASSUME NEW S \in SUBSET Task,
           \A t \in S : /\ wf.tasks[t].status = "in_progress"
                        /\ wf'.tasks[t].status =
                              IF wf.tasks[t].attempts < MaxAttempts[t]
                              THEN "pending" ELSE "blocked",
           \A t \in Task \ S : wf'.tasks[t].status = wf.tasks[t].status,
           \A t \in Task : KeepsAttempts(t)
    PROVE  Lifecycle!LifecycleNext
<1>1. Lifecycle!AbandonTasks(S)
    BY DEF Lifecycle!AbandonTasks, Lifecycle!BecomeEach, Lifecycle!Task, Task, KeepsAttempts
<1>2. QED
    BY <1>1 DEF Lifecycle!LifecycleNext, Lifecycle!Task, Task

\* Retries that come up.
LEMMA RequeueStep ==
    ASSUME NEW S \in SUBSET Task,
           \A t \in S : wf.tasks[t].status = "retry_wait" /\ wf'.tasks[t].status = "pending",
           \A t \in Task \ S : wf'.tasks[t].status = wf.tasks[t].status,
           \A t \in Task : KeepsAttempts(t)
    PROVE  Lifecycle!LifecycleNext
<1>1. Lifecycle!RequeueTasks(S)
    BY DEF Lifecycle!RequeueTasks, Lifecycle!BecomeEach, Lifecycle!Task, Task, KeepsAttempts
<1>2. QED
    BY <1>1 DEF Lifecycle!LifecycleNext, Lifecycle!Task, Task

\* An attempt that ends.
LEMMA FinishStep ==
    ASSUME NEW t \in Task,
           wf.tasks[t].status = "in_progress",
           wf'.tasks[t].status \in {"completed", "failed", "blocked", "retry_wait"},
           wf'.tasks[t].status = "retry_wait" => wf.tasks[t].attempts < MaxAttempts[t],
           \A u \in Task \ {t} : wf'.tasks[u].status = wf.tasks[u].status,
           \A u \in Task : KeepsAttempts(u)
    PROVE  Lifecycle!LifecycleNext
<1>1. Lifecycle!FinishTask(t, wf'.tasks[t].status)
    BY DEF Lifecycle!FinishTask, Lifecycle!BecomeEach, Lifecycle!Task, Task, KeepsAttempts
<1>2. QED
    BY <1>1 DEF Lifecycle!LifecycleNext, Lifecycle!Task, Task

\* An operator's reset.
LEMMA ResetStep ==
    ASSUME NEW S \in SUBSET Task,
           \A t \in S : wf'.tasks[t].status = "pending" /\ wf'.tasks[t].attempts = 0,
           \A t \in Task \ S : wf'.tasks[t].status = wf.tasks[t].status /\ KeepsAttempts(t)
    PROVE  Lifecycle!LifecycleNext
<1>1. Lifecycle!ResetTasksOver(S)
    BY DEF Lifecycle!ResetTasksOver, Lifecycle!BecomeEach, Lifecycle!Task, Task, KeepsAttempts
<1>2. QED
    BY <1>1 DEF Lifecycle!LifecycleNext, Lifecycle!Task, Task

-----------------------------------------------------------------------------
(* The steps of the runtime.                                               *)

\* A recovery gives the attempts of the expired leases up.
LEMMA RecoverImplements ==
    ASSUME TypeOK, RecoverExpiredLeases
    PROVE  Lifecycle!LifecycleNext
<1> DEFINE S == {t \in Task : IsLeaseExpired(wf.tasks, t)}
<1>1. ASSUME NEW t \in S
      PROVE  /\ wf.tasks[t].status = "in_progress" /\ KeepsAttempts(t)
             /\ wf'.tasks[t].status =
                    IF wf.tasks[t].attempts < MaxAttempts[t] THEN "pending" ELSE "blocked"
    <2>1. wf'.tasks[t] = RecoverLease(wf.tasks[t], MaxAttempts[t])
        BY RecoverEffect
    <2>2. wf.tasks[t] \in RuntimeTask /\ MaxAttempts[t] \in Nat
        BY TaskTypes
    <2>3. /\ wf'.tasks[t].attempts = wf.tasks[t].attempts
          /\ wf'.tasks[t].status =
                IF wf.tasks[t].attempts >= MaxAttempts[t] THEN "blocked" ELSE "pending"
        BY <2>1, <2>2, RecoverLeaseEffect
    <2>4. wf.tasks[t].attempts \in Nat
        BY <2>2 DEF RuntimeTask
    <2>5. wf'.tasks[t].status =
              IF wf.tasks[t].attempts < MaxAttempts[t] THEN "pending" ELSE "blocked"
        BY <2>2, <2>3, <2>4
    <2>6. QED
        BY <2>3, <2>5 DEF IsLeaseExpired, KeepsAttempts
<1>2. \A t \in Task \ S : wf'.tasks[t] = wf.tasks[t]
    BY RecoverEffect
<1>3. QED
    BY <1>1, <1>2, AbandonStep DEF KeepsAttempts

\* A promotion requeues the due retries.
LEMMA PromoteImplements ==
    ASSUME TypeOK, PromoteDueRetries
    PROVE  Lifecycle!LifecycleNext
<1> DEFINE S == {t \in Task : IsRetryDue(wf.tasks, t)}
<1>1. \A t \in S : /\ wf.tasks[t].status = "retry_wait"
                   /\ wf'.tasks[t].status = "pending" /\ KeepsAttempts(t)
    <2>1. \A t \in S : /\ wf'.tasks[t] = PromoteRetry(wf.tasks[t])
                       /\ wf.tasks[t] \in RuntimeTask
        BY PromoteEffect, TaskTypes
    <2>2. QED
        BY <2>1, PromoteRetryEffect DEF IsRetryDue, KeepsAttempts
<1>2. \A t \in Task \ S : wf'.tasks[t] = wf.tasks[t]
    BY PromoteEffect
<1>3. QED
    BY <1>1, <1>2, RequeueStep DEF KeepsAttempts

\* A claim starts attempts: the budget leaves no chosen task without one.
LEMMA ClaimImplements ==
    ASSUME TypeOK, BudgetInv, ClaimReadyTasks
    PROVE  Lifecycle!LifecycleNext
<1>1. PICK chosen \in SUBSET FindReadyTasks(wf.tasks) :
        /\ claims' \subseteq chosen
        /\ \A t \in Task : wf'.tasks[t] =
              IF t \in claims' THEN ClaimTask(wf.tasks[t], LeaseLength)
              ELSE IF t \in chosen /\ Exhausted(t) /\ ~ Held(t, claims')
                   THEN ReleaseLease(wf.tasks[t], "blocked")
                   ELSE wf.tasks[t]
    BY ClaimEffect
<1>2. \A t \in chosen : /\ t \in Task \ GateTask
                        /\ wf.tasks[t].status = "pending"
                        /\ \A d \in Deps[t] : wf.tasks[d].status = "completed"
    BY DEF FindReadyTasks, IsTaskReady
<1>3. \A t \in chosen : wf.tasks[t].attempts < MaxAttempts[t] /\ ~ Exhausted(t)
    <2>1. ASSUME NEW t \in chosen PROVE wf.tasks[t].attempts < MaxAttempts[t]
        BY <1>2 DEF BudgetInv
    <2>2. \A t \in chosen : wf.tasks[t].attempts \in Nat /\ MaxAttempts[t] \in Nat
        BY <1>2, TaskTypes DEF RuntimeTask
    <2>3. QED
        BY <2>1, <2>2 DEF Exhausted
<1>4. \A t \in claims' : /\ wf'.tasks[t].status = "in_progress"
                         /\ wf'.tasks[t].attempts = wf.tasks[t].attempts + 1
    <2>1. ASSUME NEW t \in claims'
          PROVE  /\ wf'.tasks[t].status = "in_progress"
                 /\ wf'.tasks[t].attempts = wf.tasks[t].attempts + 1
        <3>1. wf'.tasks[t] = ClaimTask(wf.tasks[t], LeaseLength)
            BY <1>1, <1>2
        <3>2. wf.tasks[t] \in RuntimeTask /\ LeaseLength \in Nat
            BY <1>1, <1>2, TaskTypes, LeaseLengthAssumption
        <3>3. QED
            BY <3>1, <3>2, ClaimTaskEffect
    <2>2. QED
        BY <2>1
<1>5. \A t \in Task \ claims' : wf'.tasks[t] = wf.tasks[t]
    BY <1>1, <1>3
<1>6. QED
    BY <1>1, <1>2, <1>3, <1>4, <1>5, StartStep DEF KeepsAttempts

\* Every step of the runtime is a step of the life cycle or a stutter.
LEMMA StepImplements ==
    ASSUME TypeOK, BudgetInv, [Next]_vars
    PROVE  [Lifecycle!LifecycleNext]_(Lifecycle!lifecycleVars)
<1>1. CASE RecoverExpiredLeases
    BY <1>1, RecoverImplements
<1>2. CASE PromoteDueRetries
    BY <1>2, PromoteImplements
<1>3. CASE ClaimReadyTasks
    BY <1>3, ClaimImplements
<1>4. CASE RoundBlocked \/ RoutingFails \/ DispatchDone \/ Crash \/ UNCHANGED vars
    BY <1>4, QuietEffect, Stutter DEF KeepsAttempts
<1>5. CASE DispatchRequests
    BY <1>5, Stutter DEF DispatchRequests, KeepsAttempts
<1>6. ASSUME NEW t \in Task, AgentRun(t) PROVE Lifecycle!LifecycleNext
    BY <1>6, AgentRunEffect, FinishStep DEF KeepsAttempts
<1>7. CASE Tick
    BY <1>7, TickEffect, Stutter DEF KeepsAttempts
<1>8. ASSUME NEW force \in BOOLEAN, CancelWorkflow(force)
      PROVE  UNCHANGED Lifecycle!lifecycleVars
    BY <1>8, CancelEffect, Stutter DEF KeepsAttempts
<1>9. ASSUME NEW S \in SUBSET Task, ResetTasks(S) PROVE Lifecycle!LifecycleNext
    BY <1>9, ResetTasksEffect, ResetEffect, ResetStep DEF KeepsAttempts
<1>10. QED
    BY <1>1, <1>2, <1>3, <1>4, <1>5, <1>6, <1>7, <1>8, <1>9, NextCases

\* The runtime implements the task life cycle: whatever is scheduled, crashes,
\* expires or is reset, a task starts on completed dependencies with attempts
\* left, has one outcome per attempt, and leaves a final status by the
\* operator's hand only.
THEOREM RuntimeImplementsLifecycle == Spec => ImplementsLifecycle
<1>1. Init => Lifecycle!LifecycleInit
    BY DEF Init, NewTask, Lifecycle!LifecycleInit, Lifecycle!Task, Task
<1>2. RuntimeInv /\ [Next]_vars => [Lifecycle!LifecycleNext]_(Lifecycle!lifecycleVars)
    BY StepImplements DEF RuntimeInv
<1>3. QED
    BY <1>1, <1>2, RuntimeInvariance, PTL
    DEF Spec, ImplementsLifecycle, Lifecycle!LifecycleSpec

-----------------------------------------------------------------------------
(* What a scheduling round does is determined, and it does all it can.     *)

\* A set of numbers has a least one.
LEMMA LeastNumber ==
    ASSUME NEW T, T \subseteq Nat, T # {}
    PROVE  \E x \in T : \A y \in T : x <= y
<1> DEFINE R == OpToRel(<, Nat)
<1>1. IsWellFoundedOn(R, Nat)
    BY NatLessThanWellFounded
<1>2. \A x, y \in Nat : y < x => <<y, x>> \in R
    BY DEF OpToRel
<1> HIDE DEF R
<1>3. \E x \in T : \A y \in T : ~ (<<y, x>> \in R)
    <2>1. IsWellFoundedOn(R, Nat) /\ T \subseteq Nat /\ T # {}
        BY <1>1
    <2>2. \A Q, S, U : IsWellFoundedOn(Q, S) /\ U \subseteq S /\ U # {} =>
              \E x \in U : \A y \in U : ~ (<<y, x>> \in Q)
        BY WFMin, ZenonT(30)
    <2>3. IsWellFoundedOn(R, Nat) /\ T \subseteq Nat /\ T # {} =>
              \E x \in T : \A y \in T : ~ (<<y, x>> \in R)
        BY <2>2, ZenonT(30)
    <2> QED
        BY <2>1, <2>3
<1>4. PICK x \in T : \A y \in T : ~ (<<y, x>> \in R)
    BY <1>3
<1>5. ASSUME NEW y \in T
      PROVE  x <= y
    <2>1. x \in Nat /\ y \in Nat /\ ~ (<<y, x>> \in R)
        BY <1>4
    <2>2. ~ (y < x)
        BY <1>2, <2>1, Zenon
    <2> QED
        BY <2>1, <2>2
<1> QED
    BY <1>5

\* Of any tasks one comes first.
LEMMA FirstTask ==
    ASSUME NEW S \in SUBSET Task, S # {}
    PROVE  \E x \in S : \A y \in S : x <= y
<1>1. S \subseteq Nat
    BY DEF Task
<1> QED
    BY <1>1, LeastNumber

\* The first tasks of S, in array order.
IsPrefix(C, S) == C \subseteq S /\ \A t \in C, u \in S \ C : t < u

\* A prefix goes on with the first of the tasks that are left.
LEMMA PrefixGrows ==
    ASSUME NEW S \in SUBSET Task, NEW C, IsPrefix(C, S), C # S
    PROVE  \E u \in S \ C :
               /\ IsPrefix(C \cup {u}, S)
               /\ \A t \in C : t < u
               /\ Cardinality(C \cup {u}) = Cardinality(C) + 1
               /\ Cardinality(S \ (C \cup {u})) = Cardinality(S \ C) - 1
<1>1. PICK u \in S \ C : \A y \in S \ C : u <= y
    BY FirstTask DEF IsPrefix
<1>2. \A t \in C : t < u
    BY DEF IsPrefix
<1>3. IsPrefix(C \cup {u}, S)
    BY <1>1, <1>2 DEF IsPrefix, Task
<1>4. IsFiniteSet(C) /\ IsFiniteSet(S \ C)
    <2>1. C \in SUBSET Task /\ S \ C \in SUBSET Task
        BY DEF IsPrefix
    <2> QED
        BY <2>1, TaskFinite, FS_Subset
<1>5. Cardinality(C \cup {u}) = Cardinality(C) + 1
    BY <1>1, <1>4, FS_AddElement
<1>6. Cardinality((S \ C) \ {u}) = Cardinality(S \ C) - 1
    BY <1>1, <1>4, FS_RemoveElement
<1>7. S \ (C \cup {u}) = (S \ C) \ {u}
    OBVIOUS
<1> QED
    BY <1>2, <1>3, <1>5, <1>6, <1>7

\* Of the sets that leave a number of tasks behind, one leaves the fewest.
LEMMA FewestLeft ==
    ASSUME NEW S \in SUBSET Task, NEW F \in SUBSET (SUBSET S), F # {}
    PROVE  \E C \in F : \A D \in F : Cardinality(S \ C) <= Cardinality(S \ D)
<1> DEFINE T == {Cardinality(S \ C) : C \in F}
<1>1. \A C \in F : S \ C \in SUBSET Task
    OBVIOUS
<1>2. \A C \in F : Cardinality(S \ C) \in Nat
    BY <1>1, TaskFinite, FS_Subset, FS_CardinalityType
<1>3. T \subseteq Nat /\ T # {}
    BY <1>2
<1>4. PICK x \in T : \A y \in T : x <= y
    BY <1>3, LeastNumber
<1> QED
    BY <1>4

\* slice(0, n) is defined: one set of tasks is a slice, and no other.
LEMMA SliceIsDetermined ==
    ASSUME NEW S \in SUBSET Task, NEW n \in Nat
    PROVE  \E C \in SUBSET S : IsSlice(C, S, n) /\ \A D : IsSlice(D, S, n) => D = C
<1> DEFINE F == {C \in SUBSET S : IsPrefix(C, S) /\ Cardinality(C) <= n}
<1>1. {} \in F
    BY FS_EmptySet DEF IsPrefix
<1>2. PICK C \in F : \A D \in F : Cardinality(S \ C) <= Cardinality(S \ D)
    <2>1. F \in SUBSET (SUBSET S) /\ F # {}
        BY <1>1
    <2> HIDE DEF F
    <2> QED
        BY <2>1, FewestLeft
<1>3. \A D \in SUBSET S : IsFiniteSet(D) /\ Cardinality(D) \in Nat
    <2>1. \A D \in SUBSET S : D \in SUBSET Task
        OBVIOUS
    <2> QED
        BY <2>1, TaskFinite, FS_Subset, FS_CardinalityType
<1>4. ASSUME C # S, Cardinality(C) # n
      PROVE  FALSE
    <2>1. PICK u \in S \ C : /\ IsPrefix(C \cup {u}, S)
                             /\ \A t \in C : t < u
                             /\ Cardinality(C \cup {u}) = Cardinality(C) + 1
                             /\ Cardinality(S \ (C \cup {u})) = Cardinality(S \ C) - 1
        BY <1>4, PrefixGrows, Zenon
    <2>2. Cardinality(C) \in Nat /\ Cardinality(C) <= n /\ Cardinality(S \ C) \in Nat
        BY <1>3
    <2>3. C \cup {u} \in F
        BY <1>4, <2>1, <2>2
    <2>4. Cardinality(S \ C) <= Cardinality(S \ C) - 1
        BY <1>2, <2>1, <2>3
    <2> QED
        BY <2>2, <2>4
<1>5. IsSlice(C, S, n)
    BY <1>4 DEF IsSlice, IsPrefix
<1>6. ASSUME NEW D, NEW E, IsSlice(D, S, n), IsSlice(E, S, n), ~ (D \subseteq E)
      PROVE  FALSE
    <2>1. PICK t \in D : t \notin E
        BY <1>6
    <2>2. D \in SUBSET S /\ E \in SUBSET S /\ t \in Task
        BY <2>1, <1>6 DEF IsSlice
    <2>3. ASSUME NEW u \in E, u \notin D
          PROVE  FALSE
        <3>1. u < t /\ t < u /\ u \in Task
            BY <1>6, <2>1, <2>2, <2>3 DEF IsSlice
        <3> QED
            BY <2>2, <3>1 DEF Task
    <2>4. E \subseteq D /\ E # D /\ E # S
        BY <2>1, <2>2, <2>3
    <2>5. Cardinality(E) = n /\ Cardinality(D) <= n
        BY <1>6, <2>4 DEF IsSlice
    <2>6. IsFiniteSet(D) /\ Cardinality(D) \in Nat
        BY <1>3, <2>2
    <2>7. Cardinality(E) <= Cardinality(D) /\ (Cardinality(D) = Cardinality(E) => D = E)
        BY <2>4, <2>6, FS_Subset
    <2> QED
        BY <2>4, <2>5, <2>6, <2>7
<1>7. \A D : IsSlice(D, S, n) => D \subseteq C /\ C \subseteq D
    BY <1>5, <1>6
<1> QED
    BY <1>5, <1>7

\* The tasks of P that are claimed when its tasks are looked at in order.
IsClaimed(K, P) == K = {t \in P : ~ Exhausted(t) /\ ~ Held(t, K)}

\* Who holds a task was looked at before it.
LEMMA HeldByEarlier ==
    ASSUME NEW t, NEW K, NEW L, {c \in K : c < t} = {c \in L : c < t}
    PROVE  Held(t, K) <=> Held(t, L)
BY DEF Held

\* A round decides of every task it has chosen, and in one way only.
LEMMA ClaimsAreDetermined ==
    ASSUME NEW S \in SUBSET Task
    PROVE  \E K \in SUBSET S : IsClaimed(K, S) /\ \A L : IsClaimed(L, S) => L = K
<1> DEFINE F == {P \in SUBSET S : IsPrefix(P, S) /\ \E K : IsClaimed(K, P)}
<1>1. {} \in F
    BY DEF IsPrefix, IsClaimed
<1>2. PICK P \in F : \A Q \in F : Cardinality(S \ P) <= Cardinality(S \ Q)
    <2>1. F \in SUBSET (SUBSET S) /\ F # {}
        BY <1>1
    <2> HIDE DEF F
    <2> QED
        BY <2>1, FewestLeft
<1>3. IsPrefix(P, S) /\ \E K : IsClaimed(K, P)
    BY <1>2
<1>4. PICK K : IsClaimed(K, P)
    BY <1>3
<1>5. ASSUME P # S
      PROVE  FALSE
    <2>1. PICK u \in S \ P : /\ IsPrefix(P \cup {u}, S)
                             /\ \A t \in P : t < u
                             /\ Cardinality(P \cup {u}) = Cardinality(P) + 1
                             /\ Cardinality(S \ (P \cup {u})) = Cardinality(S \ P) - 1
        BY <1>3, <1>5, PrefixGrows, Zenon
    <2> DEFINE L == IF ~ Exhausted(u) /\ ~ Held(u, K) THEN K \cup {u} ELSE K
    <2>2. K \subseteq P /\ P \subseteq Task /\ u \in Task
        BY <1>4 DEF IsClaimed
    <2>3. ASSUME NEW t \in P \cup {u}
          PROVE  Held(t, L) <=> Held(t, K)
        <3>1. ~ (u < t)
            BY <2>1, <2>2 DEF Task
        <3>2. {c \in K : c < t} = {c \in L : c < t}
            BY <3>1
        <3> QED
            BY <3>2, HeldByEarlier
    <2>4. IsClaimed(L, P \cup {u})
        <3>1. ASSUME NEW t \in P
              PROVE  t \in L <=> ~ Exhausted(t) /\ ~ Held(t, L)
            <4>1. t \in L <=> t \in K
                BY <2>1
            <4> QED
                BY <1>4, <2>3, <4>1 DEF IsClaimed
        <3>2. u \in L <=> ~ Exhausted(u) /\ ~ Held(u, L)
            BY <2>1, <2>2, <2>3
        <3>3. L \subseteq P \cup {u}
            BY <2>2
        <3> HIDE DEF L
        <3> QED
            BY <3>1, <3>2, <3>3 DEF IsClaimed
    <2>5. P \cup {u} \in F
        BY <2>1, <2>4
    <2>6. Cardinality(S \ P) <= Cardinality(S \ P) - 1
        BY <1>2, <2>1, <2>5
    <2>7. Cardinality(S \ P) \in Nat
        <3>1. S \ P \in SUBSET Task
            OBVIOUS
        <3> QED
            BY <3>1, TaskFinite, FS_Subset, FS_CardinalityType
    <2> QED
        BY <2>6, <2>7
<1>6. IsClaimed(K, S) /\ K \in SUBSET S
    BY <1>4, <1>5 DEF IsClaimed
<1>7. ASSUME NEW L, IsClaimed(L, S)
      PROVE  L = K
    <2> DEFINE D == (K \ L) \cup (L \ K)
    <2>1. ASSUME D # {}
          PROVE  FALSE
        <3>1. D \in SUBSET Task
            BY <1>6, <1>7 DEF IsClaimed
        <3>2. PICK d \in D : \A e \in D : d <= e
            BY <2>1, <3>1, FirstTask
        <3>3. \A e \in D : ~ (e < d)
            BY <3>1, <3>2 DEF Task
        <3>4. {c \in K : c < d} = {c \in L : c < d}
            BY <3>3
        <3>5. Held(d, K) <=> Held(d, L)
            BY <3>4, HeldByEarlier
        <3>6. d \in S
            BY <1>6, <1>7 DEF IsClaimed
        <3>7. d \in K <=> d \in L
            BY <1>6, <1>7, <3>5, <3>6 DEF IsClaimed
        <3> QED
            BY <3>7
    <2> QED
        BY <2>1
<1> QED
    BY <1>6, <1>7

LEMMA FreeSlotsAreNumber == FreeSlots \in Nat
<1>1. Cardinality(ActiveLeases(wf.tasks)) \in Nat
    BY TaskFinite, FS_Subset, FS_CardinalityType DEF ActiveLeases
<1> QED
    BY <1>1, MaxParallelAssumption DEF FreeSlots

\* The tasks that a round chooses, and those it claims of them.
IsRound(chosen, claimed) ==
    /\ IsSlice(chosen, FindReadyTasks(wf.tasks), FreeSlots)
    /\ IsClaimed(claimed, chosen)

\* In every state of the workflow a round has one outcome, and only one: the tasks
\* that are ready, the slots and the leases decide which tasks it chooses, and they
\* and the order of the tasks which of them it claims (chooseTasks and the
\* loop over them in scheduleOnce).
RoundIsDetermined ==
    \E chosen \in SUBSET FindReadyTasks(wf.tasks) : \E claimed \in SUBSET chosen :
        /\ IsRound(chosen, claimed)
        /\ \A C, K : IsRound(C, K) => C = chosen /\ K = claimed

\* The claims of a round are a function of the saved state and the time: the model's
\* choice of them by their properties is no choice (scheduleOnce, chooseTasks).
THEOREM RoundsAreDetermined == Spec => []RoundIsDetermined
<1>1. RoundIsDetermined
    <2>1. FindReadyTasks(wf.tasks) \in SUBSET Task
        BY DEF FindReadyTasks
    <2>2. PICK C \in SUBSET FindReadyTasks(wf.tasks) :
            /\ IsSlice(C, FindReadyTasks(wf.tasks), FreeSlots)
            /\ \A D : IsSlice(D, FindReadyTasks(wf.tasks), FreeSlots) => D = C
        BY <2>1, FreeSlotsAreNumber, SliceIsDetermined
    <2>3. C \in SUBSET Task
        BY <2>1
    <2>4. PICK K \in SUBSET C : IsClaimed(K, C) /\ \A L : IsClaimed(L, C) => L = K
        BY <2>3, ClaimsAreDetermined
    <2> QED
        BY <2>2, <2>4 DEF RoundIsDetermined, IsRound
<1> QED
    BY <1>1, PTL

-----------------------------------------------------------------------------
(* Progress.                                                               *)

\* A leased task keeps its lease in a round, and a claimed one gets its own.
LEMMA LeasesKept ==
    ASSUME TypeOK, ClaimReadyTasks
    PROVE  ActiveLeases(wf.tasks) \cup claims' \subseteq ActiveLeases(wf'.tasks)
<1>1. PICK chosen \in SUBSET FindReadyTasks(wf.tasks) :
        /\ claims' = {t \in chosen : ~ Exhausted(t) /\ ~ Held(t, claims')}
        /\ \A t \in Task : wf'.tasks[t] =
              IF t \in claims' THEN ClaimTask(wf.tasks[t], LeaseLength)
              ELSE IF t \in chosen /\ Exhausted(t) /\ ~ Held(t, claims')
                   THEN ReleaseLease(wf.tasks[t], "blocked")
                   ELSE wf.tasks[t]
    BY ClaimEffect
<1>2. ASSUME NEW t \in ActiveLeases(wf.tasks)
      PROVE  t \in ActiveLeases(wf'.tasks)
    <2>1. t \in Task /\ wf.tasks[t].status = "in_progress"
        BY DEF ActiveLeases, HasActiveLease
    <2>2. t \notin chosen
        BY <2>1 DEF FindReadyTasks, IsTaskReady
    <2>3. wf'.tasks[t] = wf.tasks[t]
        BY <1>1, <2>1, <2>2
    <2> QED
        BY <2>3 DEF ActiveLeases, HasActiveLease
<1>3. ASSUME NEW t \in claims'
      PROVE  t \in ActiveLeases(wf'.tasks)
    <2>1. t \in Task
        BY <1>1 DEF FindReadyTasks
    <2>2. wf'.tasks[t] = ClaimTask(wf.tasks[t], LeaseLength)
        BY <1>1, <2>1
    <2>3. wf'.tasks[t].status = "in_progress" /\ wf'.tasks[t].lease = LeaseLength
        BY <2>1, <2>2, TaskTypes, ClaimTaskEffect, LeaseLengthAssumption
    <2> QED
        BY <2>1, <2>3, LeaseLengthAssumption DEF ActiveLeases, HasActiveLease
<1> QED
    BY <1>2, <1>3

\* What can be claimed is claimed: a ready task is left over only if a task that
\* conflicts with it has a lease now, or if ready tasks before it fill the free
\* slots (chooseTasks and the loop over its choice in scheduleOnce).
RoundsAreMaximal ==
    [][ClaimReadyTasks =>
          \A t \in FindReadyTasks(wf.tasks) \ claims' :
             \/ \E u \in ActiveLeases(wf'.tasks) : Conflict(t, u)
             \/ Cardinality({u \in FindReadyTasks(wf.tasks) : u < t}) >= FreeSlots]_vars

LEMMA RoundIsMaximal ==
    ASSUME TypeOK, BudgetInv, ClaimReadyTasks, NEW t \in FindReadyTasks(wf.tasks) \ claims'
    PROVE  \/ \E u \in ActiveLeases(wf'.tasks) : Conflict(t, u)
           \/ Cardinality({u \in FindReadyTasks(wf.tasks) : u < t}) >= FreeSlots
<1> DEFINE ready == FindReadyTasks(wf.tasks)
           before == {u \in ready : u < t}
<1>1. PICK chosen \in SUBSET ready :
        /\ IsSlice(chosen, ready, FreeSlots)
        /\ claims' = {u \in chosen : ~ Exhausted(u) /\ ~ Held(u, claims')}
    BY ClaimEffect
<1>2. t \in Task /\ wf.tasks[t].status = "pending"
    BY DEF FindReadyTasks, IsTaskReady
<1>3. CASE t \notin chosen
    <2>1. Cardinality(chosen) = FreeSlots /\ chosen \subseteq before
        BY <1>1, <1>3 DEF IsSlice
    <2>2. IsFiniteSet(before)
        BY TaskFinite, FS_Subset DEF FindReadyTasks
    <2>3. Cardinality(chosen) <= Cardinality(before) /\ Cardinality(before) \in Nat
        BY <2>1, <2>2, FS_Subset, FS_CardinalityType
    <2> QED
        BY <2>1, <2>3, FreeSlotsAreNumber
<1>4. CASE t \in chosen
    <2>1. ~ Exhausted(t)
        <3>1. wf.tasks[t].attempts < MaxAttempts[t]
            BY <1>2 DEF BudgetInv
        <3>2. wf.tasks[t].attempts \in Nat /\ MaxAttempts[t] \in Nat
            BY <1>2, TaskTypes DEF RuntimeTask
        <3> QED
            BY <3>1, <3>2 DEF Exhausted
    <2>2. Held(t, claims')
        BY <1>1, <1>4, <2>1
    <2>3. PICK u \in ActiveLeases(wf.tasks) \cup claims' : Conflict(t, u)
        BY <2>2 DEF Held
    <2> QED
        BY <2>3, LeasesKept
<1> QED
    BY <1>3, <1>4

\* No round leaves a ready task behind that it could have claimed (scheduleOnce,
\* chooseTasks).
THEOREM NothingIsLeftOver == Spec => RoundsAreMaximal
<1>1. RuntimeInv /\ [Next]_vars =>
        [ClaimReadyTasks =>
            \A t \in FindReadyTasks(wf.tasks) \ claims' :
               \/ \E u \in ActiveLeases(wf'.tasks) : Conflict(t, u)
               \/ Cardinality({u \in FindReadyTasks(wf.tasks) : u < t}) >= FreeSlots]_vars
    BY RoundIsMaximal DEF RuntimeInv
<1> QED
    BY <1>1, RuntimeInvariance, PTL DEF Spec, RoundsAreMaximal

\* If nothing is ready and no task is under way, has failed or is blocked, all that is
\* left waits for a gate: the first of the tasks that are left, in the order of
\* their dependencies, would be ready otherwise.
LEMMA NothingReady ==
    ASSUME NEW ts \in Tasks, FindReadyTasks(ts) = {},
           \A t \in Task : ts[t].status \in {"pending", "completed"}
    PROVE  \/ \A t \in Task \ GateTask : ts[t].status = "completed"
           \/ \E t \in Task \ GateTask : \E g \in Deps[t] \cap GateTask :
                 ts[g].status # "completed"
<1> DEFINE S == {t \in Task \ GateTask : ts[t].status # "completed"}
<1>1. CASE S = {}
    BY <1>1
<1>2. CASE S # {}
    <2>1. PICK t \in S : Deps[t] \cap S = {}
        BY <1>2, AcyclicAssumption
    <2>2. t \notin FindReadyTasks(ts) /\ ts[t].status = "pending"
        BY <2>1
    <2>3. PICK d \in Deps[t] : ts[d].status # "completed"
        BY <2>1, <2>2 DEF FindReadyTasks, IsTaskReady
    <2>4. d \in Task
        BY <2>1, DepsAssumption
    <2>5. d \in GateTask
        BY <2>1, <2>3, <2>4
    <2> QED
        BY <2>1, <2>3, <2>5
<1> QED
    BY <1>1, <1>2

\* A round that changes no task while no lease is alive found none that was ready.
LEMMA NothingLeft ==
    ASSUME TypeOK, BudgetInv, ClaimReadyTasks, claims' = {},
           \A t \in Task : wf'.tasks[t] = wf.tasks[t],
           ActiveLeases(wf'.tasks) = {}, ActiveLeases(wf.tasks) = {}
    PROVE  FindReadyTasks(wf'.tasks) = {}
<1>1. FreeSlots \in Nat \ {0}
    BY FS_EmptySet, MaxParallelAssumption DEF FreeSlots
<1>2. ASSUME FindReadyTasks(wf.tasks) # {}
      PROVE  FALSE
    <2>1. FindReadyTasks(wf.tasks) \in SUBSET Task
        BY DEF FindReadyTasks
    <2>2. PICK t \in FindReadyTasks(wf.tasks) : \A u \in FindReadyTasks(wf.tasks) : t <= u
        BY <1>2, <2>1, FirstTask
    <2>3. {u \in FindReadyTasks(wf.tasks) : u < t} = {}
        BY <2>1, <2>2 DEF Task
    <2>4. 0 >= FreeSlots
        BY <2>3, RoundIsMaximal, FS_EmptySet
    <2> QED
        BY <1>1, <2>4
<1>3. \A t \in Task : IsTaskReady(wf'.tasks, t) => IsTaskReady(wf.tasks, t)
    BY DepsAssumption DEF IsTaskReady
<1> QED
    BY <1>2, <1>3 DEF FindReadyTasks

\* A round that claims nothing has a reason: a task has failed, is blocked, waits for a
\* retry or is held by another run; or the scheduler's work is done; or what is
\* left waits for a gate, which the scheduler never starts. The orchestrator's
\* outcomes for a round without claims tell them apart, and the last of them, no_progress,
\* is left for leases and gates (runWorkflowUntilPause).
IdleRoundsExplained ==
    [][ClaimReadyTasks /\ claims' = {} =>
          \/ WithStatus(wf'.tasks, {"failed", "blocked", "retry_wait", "in_progress"}) # {}
          \/ \A t \in Task \ GateTask : wf'.tasks[t].status = "completed"
          \/ \E t \in Task \ GateTask : \E g \in Deps[t] \cap GateTask :
                wf'.tasks[g].status # "completed"]_vars

LEMMA IdleRoundIsExplained ==
    ASSUME TypeOK, BudgetInv, ClaimReadyTasks, claims' = {},
           WithStatus(wf'.tasks, {"failed", "blocked", "retry_wait", "in_progress"}) = {}
    PROVE  \/ \A t \in Task \ GateTask : wf'.tasks[t].status = "completed"
           \/ \E t \in Task \ GateTask : \E g \in Deps[t] \cap GateTask :
                 wf'.tasks[g].status # "completed"
<1>1. /\ wf' \in Workflow
      /\ \A t \in Task : wf'.tasks[t] = wf.tasks[t]
                         \/ wf'.tasks[t] = ReleaseLease(wf.tasks[t], "blocked")
    BY ClaimEffect
<1>2. wf'.tasks \in Tasks /\ \A t \in Task : wf'.tasks[t].status \in TaskStatus
    BY <1>1 DEF Workflow, Tasks, RuntimeTask
<1>3. \A t \in Task : wf'.tasks[t].status \in {"pending", "completed"}
    BY <1>2 DEF WithStatus, TaskStatus
<1>4. \A t \in Task : wf'.tasks[t] = wf.tasks[t]
    <2>1. \A t \in Task : ReleaseLease(wf.tasks[t], "blocked").status = "blocked"
        BY TaskTypes, ReleaseLeaseEffect DEF TaskStatus
    <2> QED
        BY <1>1, <1>3, <2>1
<1>5. ActiveLeases(wf'.tasks) = {} /\ ActiveLeases(wf.tasks) = {}
    BY <1>3, <1>4 DEF ActiveLeases, HasActiveLease
<1>6. FindReadyTasks(wf'.tasks) = {}
    BY <1>4, <1>5, NothingLeft
<1> QED
    BY <1>2, <1>3, <1>6, NothingReady

\* The loop never comes back from a round without claims and without a reason for it
\* that one of its outcomes names (runWorkflowUntilPause).
THEOREM IdleRoundsHaveReasons == Spec => IdleRoundsExplained
<1> DEFINE A == ClaimReadyTasks /\ claims' = {} =>
          \/ WithStatus(wf'.tasks, {"failed", "blocked", "retry_wait", "in_progress"}) # {}
          \/ \A t \in Task \ GateTask : wf'.tasks[t].status = "completed"
          \/ \E t \in Task \ GateTask : \E g \in Deps[t] \cap GateTask :
                wf'.tasks[g].status # "completed"
<1>1. RuntimeInv /\ [Next]_vars => [A]_vars
    BY IdleRoundIsExplained DEF RuntimeInv
<1>2. Spec => [][A]_vars
    BY <1>1, RuntimeInvariance, PTL DEF Spec
<1> QED
    BY <1>2 DEF IdleRoundsExplained

\* What has come to rest has come to an end that the operator is told of: the workflow is
\* cancelled, or its tasks are completed, or one of them has failed or is
\* blocked; or gates are left, which are not the scheduler's. With EventuallySettled, that
\* is where every workflow ends.
SettledIsDecided ==
    Settled =>
        \/ wf.status = "cancelled"
        \/ DeriveWorkflowStatus(wf.tasks) \in {"completed", "failed", "blocked"}
        \/ \E g \in GateTask : wf.tasks[g].status # "completed"

\* The scheduler never stops with a planned task undone and no status that says why,
\* unless gates are left (deriveWorkflowStatus, scheduleOnce).
THEOREM RestIsAnEnd == Spec => []SettledIsDecided
<1>1. ASSUME RuntimeInv, Settled, wf.status # "cancelled",
             \A g \in GateTask : wf.tasks[g].status = "completed"
      PROVE  DeriveWorkflowStatus(wf.tasks) \in {"completed", "failed", "blocked"}
    <2>1. wf.tasks \in Tasks /\ \A t \in Task : wf.tasks[t].status \in TaskStatus
        BY <1>1 DEF RuntimeInv, TypeOK, Workflow, Tasks, RuntimeTask
    <2>2. \A t \in Task : wf.tasks[t].status \notin {"in_progress", "retry_wait"}
        BY <1>1 DEF Settled, WithStatus
    <2>3. CASE \E t \in Task : wf.tasks[t].status \in {"failed", "blocked"}
        BY <2>2, <2>3 DEF DeriveWorkflowStatus
    <2>4. CASE \A t \in Task : wf.tasks[t].status \in {"pending", "completed"}
        <3>1. CASE FindReadyTasks(wf.tasks) = {}
            <4>1. \A t \in Task \ GateTask : wf.tasks[t].status = "completed"
                BY <1>1, <2>1, <2>4, <3>1, NothingReady
            <4>2. \A t \in Task : wf.tasks[t].status = "completed"
                BY <1>1, <4>1
            <4> QED
                BY <4>2 DEF DeriveWorkflowStatus
        <3>2. CASE wf.status = "blocked"
            BY <1>1, <3>2 DEF RuntimeInv, StatusAgrees
        <3> QED
            BY <1>1, <3>1, <3>2 DEF Settled
    <2>5. \A t \in Task : wf.tasks[t].status \in {"pending", "completed", "failed", "blocked"}
        BY <2>1, <2>2 DEF TaskStatus
    <2> QED
        BY <2>3, <2>4, <2>5
<1>2. RuntimeInv => SettledIsDecided
    BY <1>1 DEF SettledIsDecided
<1> QED
    BY <1>2, RuntimeInvariance, PTL

-----------------------------------------------------------------------------
(* What the scheduler and its agents do runs down.                         *)

\* How far a task is from the end of its attempt.
Rank(status) ==
    IF status = "in_progress" THEN 3
    ELSE IF status = "retry_wait" THEN 2
    ELSE IF status = "pending" THEN 1
    ELSE 0

\* An attempt more, of those in the budget; or the attempt closer to its end; or
\* nothing but time has passed.
TaskCloser(task, new, max) ==
    \/ new.attempts \in task.attempts + 1 .. max
    \/ new.attempts = task.attempts /\ Rank(new.status) < Rank(task.status)
    \/ /\ new.attempts = task.attempts /\ new.status = task.status
       /\ new.lease \in 0 .. task.lease /\ new.wait \in 0 .. task.wait

\* Between two interventions no task goes round for ever: whatever agents answer and
\* leases expire, each change of a task is of one of the kinds above, each of which
\* can happen only so often before one named earlier does.
WorkRunsDown ==
    [][interventions' = interventions =>
          \A t \in Task : TaskCloser(wf.tasks[t], wf'.tasks[t], MaxAttempts[t])]_vars

LEMMA SameIsCloser ==
    ASSUME NEW task \in RuntimeTask, NEW max
    PROVE  TaskCloser(task, task, max)
BY DEF TaskCloser, RuntimeTask

LEMMA WorkComesCloser ==
    ASSUME RuntimeInv, [Next]_vars, interventions' = interventions, NEW t \in Task
    PROVE  TaskCloser(wf.tasks[t], wf'.tasks[t], MaxAttempts[t])
<1> USE DEF RuntimeInv
<1>1. wf.tasks[t] \in RuntimeTask /\ MaxAttempts[t] \in Nat
    BY TaskTypes
<1>2. TaskCloser(wf.tasks[t], wf.tasks[t], MaxAttempts[t])
    BY <1>1, SameIsCloser
<1>3. CASE RecoverExpiredLeases
    <2>1. CASE IsLeaseExpired(wf.tasks, t)
        <3>1. wf'.tasks[t] = RecoverLease(wf.tasks[t], MaxAttempts[t])
            BY <1>3, <2>1, RecoverEffect
        <3>2. /\ wf'.tasks[t].attempts = wf.tasks[t].attempts
              /\ wf'.tasks[t].status \in {"blocked", "pending"}
            BY <1>1, <3>1, RecoverLeaseEffect
        <3> QED
            BY <2>1, <3>2 DEF IsLeaseExpired, TaskCloser, Rank
    <2>2. CASE ~ IsLeaseExpired(wf.tasks, t)
        BY <1>2, <1>3, <2>2, RecoverEffect
    <2> QED
        BY <2>1, <2>2
<1>4. CASE PromoteDueRetries
    <2>1. CASE IsRetryDue(wf.tasks, t)
        <3>1. wf'.tasks[t] = PromoteRetry(wf.tasks[t])
            BY <1>4, <2>1, PromoteEffect
        <3>2. wf'.tasks[t].attempts = wf.tasks[t].attempts /\ wf'.tasks[t].status = "pending"
            BY <1>1, <3>1, PromoteRetryEffect
        <3> QED
            BY <2>1, <3>2 DEF IsRetryDue, TaskCloser, Rank
    <2>2. CASE ~ IsRetryDue(wf.tasks, t)
        BY <1>2, <1>4, <2>2, PromoteEffect
    <2> QED
        BY <2>1, <2>2
<1>5. CASE ClaimReadyTasks
    <2>1. PICK chosen \in SUBSET FindReadyTasks(wf.tasks) :
            /\ claims' = {u \in chosen : ~ Exhausted(u) /\ ~ Held(u, claims')}
            /\ \A u \in Task : wf'.tasks[u] =
                  IF u \in claims' THEN ClaimTask(wf.tasks[u], LeaseLength)
                  ELSE IF u \in chosen /\ Exhausted(u) /\ ~ Held(u, claims')
                       THEN ReleaseLease(wf.tasks[u], "blocked")
                       ELSE wf.tasks[u]
        BY <1>5, ClaimEffect
    <2>2. t \in chosen => wf.tasks[t].status = "pending"
        BY DEF FindReadyTasks, IsTaskReady
    <2>3. CASE t \in claims'
        <3>1. wf'.tasks[t] = ClaimTask(wf.tasks[t], LeaseLength)
            BY <2>1, <2>3
        <3>2. wf'.tasks[t].attempts = wf.tasks[t].attempts + 1
            <4>1. wf.tasks[t] \in RuntimeTask /\ LeaseLength \in Nat
                BY <1>1, LeaseLengthAssumption
            <4>2. ClaimTask(wf.tasks[t], LeaseLength).attempts = wf.tasks[t].attempts + 1
                BY <4>1, ClaimTaskEffect
            <4> QED
                BY <3>1, <4>2
        <3>3. wf.tasks[t].attempts \in Nat /\ ~ (wf.tasks[t].attempts >= MaxAttempts[t])
            BY <1>1, <2>1, <2>3 DEF Exhausted, RuntimeTask
        <3> QED
            BY <1>1, <3>2, <3>3 DEF TaskCloser
    <2>4. CASE wf'.tasks[t] = ReleaseLease(wf.tasks[t], "blocked") /\ t \in chosen
        <3>1. wf'.tasks[t].attempts = wf.tasks[t].attempts /\ wf'.tasks[t].status = "blocked"
            BY <1>1, <2>4, ReleaseLeaseEffect DEF TaskStatus
        <3> QED
            BY <2>2, <2>4, <3>1 DEF TaskCloser, Rank
    <2>5. CASE wf'.tasks[t] = wf.tasks[t]
        BY <1>2, <2>5
    <2> QED
        BY <2>1, <2>3, <2>4, <2>5
<1>6. CASE RoundBlocked \/ RoutingFails \/ DispatchDone \/ Crash \/ UNCHANGED vars
    BY <1>2, <1>6, QuietEffect
<1>7. CASE DispatchRequests
    BY <1>2, <1>7 DEF DispatchRequests
<1>8. ASSUME NEW u \in Task, AgentRun(u)
      PROVE  TaskCloser(wf.tasks[t], wf'.tasks[t], MaxAttempts[t])
    <2>1. CASE u = t
        <3>1. /\ wf.tasks[t].status = "in_progress"
              /\ wf'.tasks[t].status \in {"completed", "failed", "blocked", "retry_wait"}
              /\ wf'.tasks[t].attempts = wf.tasks[t].attempts
            BY <1>8, <2>1, AgentRunEffect
        <3> QED
            BY <3>1 DEF TaskCloser, Rank
    <2>2. CASE u # t
        BY <1>2, <1>8, <2>2, AgentRunEffect
    <2> QED
        BY <2>1, <2>2
<1>9. CASE Tick
    <2>1. /\ wf'.tasks[t].status = wf.tasks[t].status
          /\ wf'.tasks[t].attempts = wf.tasks[t].attempts
          /\ wf'.tasks[t].lease <= wf.tasks[t].lease
          /\ wf'.tasks[t].wait <= wf.tasks[t].wait
          /\ wf' \in Workflow
        BY <1>9, TickEffect
    <2>2. /\ wf'.tasks[t].lease \in Nat /\ wf'.tasks[t].wait \in Nat
          /\ wf.tasks[t].lease \in Nat /\ wf.tasks[t].wait \in Nat
        BY <1>1, <2>1 DEF Workflow, Tasks, RuntimeTask
    <2> QED
        BY <2>1, <2>2 DEF TaskCloser
<1>10. ASSUME Intervene
       PROVE  FALSE
    <2>1. interventions \in Nat
        BY MaxInterventionsAssumption DEF TypeOK
    <2> QED
        BY <1>10, <2>1 DEF Intervene
<1>11. ASSUME NEW force \in BOOLEAN, CancelWorkflow(force)
       PROVE  FALSE
    BY <1>10, <1>11 DEF CancelWorkflow
<1>12. ASSUME NEW S \in SUBSET Task, ResetTasks(S)
       PROVE  FALSE
    BY <1>10, <1>12 DEF ResetTasks
<1> QED
    BY NextCases, <1>3, <1>4, <1>5, <1>6, <1>7, <1>8, <1>9, <1>11, <1>12

\* Whatever the agents answer, however long they take and whatever retries are
\* scheduled, without crashes and operators the tasks change only so often as their
\* budgets allow (applyResult, applyProviderRetry, scheduleOnce, recoverExpiredLeases).
THEOREM TasksRunDown == Spec => WorkRunsDown
<1>1. ASSUME RuntimeInv, [Next]_vars
      PROVE  interventions' = interventions =>
                \A t \in Task : TaskCloser(wf.tasks[t], wf'.tasks[t], MaxAttempts[t])
    BY <1>1, WorkComesCloser
<1>2. RuntimeInv /\ [Next]_vars =>
        [interventions' = interventions =>
            \A t \in Task : TaskCloser(wf.tasks[t], wf'.tasks[t], MaxAttempts[t])]_vars
    BY <1>1
<1> QED
    BY <1>2, RuntimeInvariance, PTL DEF Spec, WorkRunsDown

\* A round that changes no task, while none is under way or waits for a retry, was the
\* last one: the workflow is settled. With WorkRunsDown, EventuallySettled takes no
\* more than that rounds go on, agents end and time passes.
StillRoundsSettle ==
    [][/\ ClaimReadyTasks \/ RoundBlocked
       /\ \A t \in Task : wf'.tasks[t] = wf.tasks[t]
       /\ WithStatus(wf.tasks, {"in_progress", "retry_wait"}) = {}
       => Settled']_vars

\* The scheduler does not spin on a workflow that it could still move
\* (scheduleOnce, findReadyTasks).
THEOREM NoRoundSpins == Spec => StillRoundsSettle
<1>1. ASSUME RuntimeInv, ClaimReadyTasks \/ RoundBlocked,
             \A t \in Task : wf'.tasks[t] = wf.tasks[t],
             WithStatus(wf.tasks, {"in_progress", "retry_wait"}) = {}
      PROVE  Settled'
    <2>1. WithStatus(wf'.tasks, {"in_progress", "retry_wait"}) = {}
        BY <1>1 DEF WithStatus
    <2>2. CASE ClaimReadyTasks
        <3>1. /\ ActiveLeases(wf.tasks) = {} /\ ActiveLeases(wf'.tasks) = {}
              /\ \A t \in Task : wf'.tasks[t].status # "in_progress"
            BY <1>1, <2>1 DEF WithStatus, ActiveLeases, HasActiveLease
        <3>2. claims' \subseteq Task
              /\ \A t \in claims' : wf'.tasks[t] = ClaimTask(wf.tasks[t], LeaseLength)
            BY <1>1, <2>2, ClaimEffect DEF RuntimeInv, FindReadyTasks
        <3>3. \A t \in claims' : wf'.tasks[t].status = "in_progress"
            <4>1. \A t \in Task : wf.tasks[t] \in RuntimeTask
                BY <1>1, TaskTypes DEF RuntimeInv
            <4> QED
                BY <3>2, <4>1, ClaimTaskEffect, LeaseLengthAssumption
        <3>4. claims' = {}
            BY <3>1, <3>2, <3>3
        <3>5. FindReadyTasks(wf'.tasks) = {}
            BY <1>1, <2>2, <3>1, <3>4, NothingLeft DEF RuntimeInv
        <3> QED
            BY <2>1, <3>5 DEF Settled
    <2>3. CASE RoundBlocked
        <3>1. wf' = wf /\ wf.status = "blocked"
            BY <2>3 DEF RoundBlocked
        <3> QED
            BY <2>1, <3>1 DEF Settled
    <2> QED
        BY <1>1, <2>2, <2>3
<1>2. RuntimeInv /\ [Next]_vars =>
        [/\ ClaimReadyTasks \/ RoundBlocked
         /\ \A t \in Task : wf'.tasks[t] = wf.tasks[t]
         /\ WithStatus(wf.tasks, {"in_progress", "retry_wait"}) = {}
         => Settled']_vars
    BY <1>1
<1> QED
    BY <1>2, RuntimeInvariance, PTL DEF Spec, StillRoundsSettle
=============================================================================
