--------------------------- MODULE TaskLifecycle ---------------------------
(***************************************************************************)
(* What the orchestrator promises about the tasks of one workflow, whatever *)
(* runs, crashes and retries lie behind it: a task is started only on top  *)
(* of completed dependencies and with attempts left, every start counts as *)
(* an attempt, an attempt has one outcome, and only an operator undoes a   *)
(* completed, failed or blocked task.                                      *)
(***************************************************************************)
EXTENDS WorkflowState

VARIABLES
    st,     \* the status of each task
    tries   \* the attempts counted for each task

lifecycleVars == <<st, tries>>

LifecycleInit ==
    /\ st = [t \in Task |-> "pending"]
    /\ tries = [t \in Task |-> 0]

BecomeEach(S, f(_)) == st' = [t \in Task |-> IF t \in S THEN f(t) ELSE st[t]]

Startable ==
    {t \in Task \ GateTask :
        /\ st[t] = "pending"
        /\ tries[t] < MaxAttempts[t]
        /\ \A d \in Deps[t] : st[d] = "completed"}

\* The tasks of S start an attempt each.
StartTasks(S) ==
    /\ S \subseteq Startable
    /\ BecomeEach(S, LAMBDA t : "in_progress")
    /\ tries' = [t \in Task |-> IF t \in S THEN tries[t] + 1 ELSE tries[t]]

\* The attempt of t ends; it may be repeated later if there are attempts left.
FinishTask(t, outcome) ==
    /\ st[t] = "in_progress"
    /\ outcome = "retry_wait" => tries[t] < MaxAttempts[t]
    /\ BecomeEach({t}, LAMBDA u : outcome)
    /\ UNCHANGED tries

\* The attempts of the tasks of S are given up: nobody knows how they ended.
AbandonTasks(S) ==
    /\ \A t \in S : st[t] = "in_progress"
    /\ BecomeEach(S, LAMBDA t : IF tries[t] < MaxAttempts[t] THEN "pending" ELSE "blocked")
    /\ UNCHANGED tries

RequeueTasks(S) ==
    /\ \A t \in S : st[t] = "retry_wait"
    /\ BecomeEach(S, LAMBDA t : "pending")
    /\ UNCHANGED tries

\* An operator starts the tasks of S over.
ResetTasksOver(S) ==
    /\ BecomeEach(S, LAMBDA t : "pending")
    /\ tries' = [t \in Task |-> IF t \in S THEN 0 ELSE tries[t]]

LifecycleNext ==
    \/ \E S \in SUBSET Task :
        StartTasks(S) \/ AbandonTasks(S) \/ RequeueTasks(S) \/ ResetTasksOver(S)
    \/ \E t \in Task, outcome \in {"completed", "failed", "blocked", "retry_wait"} :
        FinishTask(t, outcome)

LifecycleSpec == LifecycleInit /\ [][LifecycleNext]_lifecycleVars
=============================================================================
