---------------------------- MODULE DispatchPool ----------------------------
(***************************************************************************)
(* The dispatcher's pool of concurrent runners and the one file they all   *)
(* persist their outcomes to. A runner loads state.json, changes its copy  *)
(* and writes the whole file back; the write truncates the file first and  *)
(* fills it later. Nothing but the project lock keeps writers apart, and   *)
(* the lock is taken once for the whole run, not per runner.               *)
(*                                                                         *)
(* `amiral run` awaits the pool with Promise.all: when one runner throws,  *)
(* the command ends and releases the lock while the other runners of the   *)
(* pool go on in the same process until they have nothing left to do.      *)
(***************************************************************************)
EXTENDS Integers, FiniteSets

CONSTANTS
    NumTasks,       \* independent tasks, in array order
    MaxAttempts,    \* attempts per task
    PoolSizes,      \* what resolveDispatchConcurrency may return
    DelaySettings,  \* whether base_delay_ms may be at most max_delay_ms, or above it
    MaxCrashes      \* bound on the crashes of a run

Task == 1 .. NumTasks
Attempt == 1 .. MaxAttempts

ASSUME PoolAssumption ==
    /\ NumTasks \in Nat \ {0}
    /\ MaxAttempts \in Nat \ {0}
    /\ PoolSizes \subseteq Nat \ {0}
    /\ DelaySettings \subseteq BOOLEAN
    /\ MaxCrashes \in Nat

VARIABLES
    file,       \* state.json: what a reader finds in it, and the last full text
    runners,    \* the execution of a request: attempt a of task t
    runNo,      \* how many runs were started
    lockHeld,   \* the current run awaits its pool and holds the project lock
    poolSize,   \* the concurrency of the pool
    delaysFit,  \* whether it is: the configuration does not check it
    crashes     \* how many of MaxCrashes happened

vars == <<file, runners, runNo, lockHeld, poolSize, delaysFit, crashes>>

TaskStatus ==
    {"pending", "in_progress", "retry_wait", "completed", "failed", "blocked"}

\* The lease id of an attempt is its number: leases are only compared for
\* equality and never used again. A null lease is 0.
TaskState == [status : TaskStatus, attempts : 0 .. MaxAttempts, lease : 0 .. MaxAttempts]
State == [Task -> TaskState]

\* "empty": truncated; "mixed": a shorter text written over a longer one.
Content == {"valid", "empty", "mixed"}

Request == Task \X Attempt

\* The function that persists the outcome.
Persister ==
    {"applyResult", "applyProviderRetry", "applyPermanentProviderFailure",
     "failLeasedTask"}

PC == {"none", "queued", "executing", "load", "truncate", "write", "done", "rejected"}

Runner ==
    [pc : PC, run : Nat, by : Persister, status : TaskStatus, copy : State]

\* How an agent run ends, by the path its outcome takes to state.json: a valid
\* agent result, a provider error that may or may not be retried, or any other
\* error of worktree, artifacts, commit or result contract.
Outcomes ==
    {<<"applyResult", "completed">>, <<"applyResult", "failed">>,
     <<"applyResult", "blocked">>, <<"applyProviderRetry", "retry_wait">>,
     <<"applyPermanentProviderFailure", "failed">>, <<"failLeasedTask", "failed">>}

NoState == [t \in Task |-> [status |-> "pending", attempts |-> 0, lease |-> 0]]
NoRunner ==
    [pc |-> "none", run |-> 0, by |-> "applyResult", status |-> "pending", copy |-> NoState]

Init ==
    /\ file = [content |-> "valid", tasks |-> NoState]
    /\ runners = [r \in Request |-> NoRunner]
    /\ runNo = 0
    /\ lockHeld = FALSE
    /\ poolSize \in PoolSizes
    /\ delaysFit \in DelaySettings
    /\ crashes = 0

RunnersOf(n) == {r \in Request : runners[r].run = n /\ runners[r].pc # "none"}
AtPC(S) == {r \in Request : runners[r].pc \in S}
Active == {"executing", "load", "truncate", "write"}

-----------------------------------------------------------------------------
\* `amiral run` takes the lock and schedules: tasks whose lease has expired and
\* tasks waiting for a retry that is due are claimed again, or blocked when
\* their attempts are spent. Readers throw unless the file holds a valid text.
Claimable(t) == file.tasks[t].status \in {"pending", "in_progress", "retry_wait"}

\* Mutant: one attempt too many.
HasAttemptToSpare(t) == file.tasks[t].attempts <= MaxAttempts

HasAttemptLeft(t) == file.tasks[t].attempts < MaxAttempts

StartRun ==
    \E S \in SUBSET {t \in Task : Claimable(t)} :
        LET claimed == {t \in S : HasAttemptLeft(t)}
            fresh(t) == [status |-> "in_progress",
                         attempts |-> file.tasks[t].attempts + 1,
                         lease |-> file.tasks[t].attempts + 1]
        IN  /\ ~ lockHeld
            /\ file.content = "valid"
            /\ S # {}
            /\ file' = [file EXCEPT !.tasks = [t \in Task |->
                    IF t \in claimed THEN fresh(t)
                    ELSE IF t \in S THEN [@[t] EXCEPT !.status = "blocked", !.lease = 0]
                    ELSE @[t]]]
            /\ runNo' = runNo + 1
            /\ lockHeld' = TRUE
            /\ runners' = [r \in Request |->
                    IF r[1] \in claimed /\ r[2] = file.tasks[r[1]].attempts + 1
                    THEN [NoRunner EXCEPT !.pc = "queued", !.run = runNo + 1]
                    ELSE runners[r]]
            /\ UNCHANGED <<poolSize, delaysFit, crashes>>

\* Mutant: the pool does not limit its runners.
StartAnyExecution(r) ==
    /\ runners[r].pc = "queued"
    /\ runners' = [runners EXCEPT ![r].pc = "executing"]
    /\ UNCHANGED <<file, runNo, lockHeld, poolSize, delaysFit, crashes>>

\* A free runner of the pool takes the next request and starts its agent. A
\* runner that threw takes no further request.
StartExecution(r) ==
    LET pool == RunnersOf(runners[r].run)
    IN  /\ runners[r].pc = "queued"
        /\ \A q \in pool : runners[q].pc = "queued" => r[1] <= q[1]
        /\ Cardinality(pool \cap AtPC(Active \cup {"rejected"})) < poolSize
        /\ runners' = [runners EXCEPT ![r].pc = "executing"]
        /\ UNCHANGED <<file, runNo, lockHeld, poolSize, delaysFit, crashes>>

\* The agent run ends.
EndExecution(r) ==
    \E outcome \in Outcomes :
        /\ runners[r].pc = "executing"
        /\ runners' = [runners EXCEPT ![r].pc = "load", ![r].by = outcome[1],
                                      ![r].status = outcome[2]]
        /\ UNCHANGED <<file, runNo, lockHeld, poolSize, delaysFit, crashes>>

HoldsLease(r) ==
    /\ file.content = "valid"
    /\ file.tasks[r[1]].status = "in_progress"
    /\ file.tasks[r[1]].lease = r[2]

\* The status the persister gives the task: a retry needs attempts left.
PersistedStatus(r) ==
    IF runners[r].by = "applyProviderRetry" /\ file.tasks[r[1]].attempts >= MaxAttempts
    THEN "blocked" ELSE runners[r].status

\* A retry that has an attempt left computes its delay, which is refused when the
\* configured base exceeds the configured maximum.
DelayThrows(r) ==
    /\ runners[r].by = "applyProviderRetry"
    /\ file.tasks[r[1]].attempts < MaxAttempts
    /\ ~ delaysFit

CanPersist(r) == HoldsLease(r) /\ ~ DelayThrows(r)

\* Load the state and change the copy.
LoadState(r) ==
    /\ runners[r].pc = "load"
    /\ CanPersist(r)
    /\ runners' = [runners EXCEPT
            ![r].pc = "truncate",
            ![r].status = PersistedStatus(r),
            ![r].copy = [file.tasks EXCEPT ![r[1]].status = PersistedStatus(r),
                                           ![r[1]].lease = 0]]
    /\ UNCHANGED <<file, runNo, lockHeld, poolSize, delaysFit, crashes>>

\* Mutant: the runner's error is swallowed and its outcome never comes.
LoadFailsSilently(r) ==
    /\ runners[r].pc = "load"
    /\ ~ CanPersist(r)
    /\ runners' = [runners EXCEPT ![r].pc = "rejected"]
    /\ UNCHANGED <<file, runNo, lockHeld, poolSize, delaysFit, crashes>>

\* The state cannot be read, the lease is not the runner's or the delay cannot be
\* computed: applyResult's error makes the task fail instead, any other persister's
\* error leaves the runner and rejects the pool, so that the run that awaits it ends.
LoadFails(r) ==
    /\ runners[r].pc = "load"
    /\ ~ CanPersist(r)
    /\ IF runners[r].by = "applyResult"
       THEN /\ runners' = [runners EXCEPT ![r].by = "failLeasedTask", ![r].status = "failed"]
            /\ UNCHANGED lockHeld
       ELSE /\ runners' = [runners EXCEPT ![r].pc = "rejected"]
            /\ lockHeld' = (lockHeld /\ runners[r].run # runNo)
    /\ UNCHANGED <<file, runNo, poolSize, delaysFit, crashes>>

\* saveState: open the file for writing, which empties it, ...
Truncate(r) ==
    /\ runners[r].pc = "truncate"
    /\ file' = [file EXCEPT !.content = "empty"]
    /\ runners' = [runners EXCEPT ![r].pc = "write"]
    /\ UNCHANGED <<runNo, lockHeld, poolSize, delaysFit, crashes>>

\* ... then write the copy from the start of the file. Where another runner
\* wrote since, a rest of its text remains if that was longer.
Write(r) ==
    /\ runners[r].pc = "write"
    /\ \E c \in IF file.content = "empty" THEN {"valid"} ELSE {"valid", "mixed"} :
        file' = [content |-> c, tasks |-> runners[r].copy]
    /\ runners' = [runners EXCEPT ![r].pc = "done", ![r].copy = NoState]
    /\ UNCHANGED <<runNo, lockHeld, poolSize, delaysFit, crashes>>

\* Every request has its outcome: the run goes on and comes to an end.
EndRun ==
    /\ lockHeld
    /\ \A r \in RunnersOf(runNo) : runners[r].pc = "done"
    /\ lockHeld' = FALSE
    /\ UNCHANGED <<file, runners, runNo, poolSize, delaysFit, crashes>>

\* The process of the current run is killed, its runners with it; the lock of
\* a dead process is taken over by the next command.
Crash ==
    /\ lockHeld
    /\ crashes < MaxCrashes
    /\ crashes' = crashes + 1
    /\ lockHeld' = FALSE
    /\ runners' = [r \in Request |->
            IF runners[r].run = runNo /\ runners[r].pc # "done" THEN NoRunner ELSE runners[r]]
    /\ UNCHANGED <<file, runNo, poolSize, delaysFit>>

-----------------------------------------------------------------------------
RunnerStep(r) ==
    \/ StartExecution(r)
    \/ EndExecution(r)
    \/ LoadState(r)
    \/ LoadFails(r)
    \/ Truncate(r)
    \/ Write(r)

Next ==
    \/ StartRun
    \/ \E r \in Request : RunnerStep(r)
    \/ EndRun
    \/ Crash

Spec == Init /\ [][Next]_vars

\* Agents end and the event loop serves every runner that can go on.
FairSpec ==
    /\ Spec
    /\ \A r \in Request : WF_vars(RunnerStep(r))
    /\ WF_vars(EndRun)

-----------------------------------------------------------------------------
TypeOK ==
    /\ file \in [content : Content, tasks : State]
    /\ runners \in [Request -> Runner]
    /\ runNo \in Nat
    /\ lockHeld \in BOOLEAN
    /\ poolSize \in PoolSizes
    /\ delaysFit \in DelaySettings
    /\ crashes \in 0 .. MaxCrashes

\* The outcome a runner reports for its attempt is the one in state.json, as
\* long as no later attempt of the task was claimed.
OutcomePersisted ==
    \A r \in AtPC({"done"}) :
        file.tasks[r[1]].attempts = r[2] => file.tasks[r[1]].status = runners[r].status

\* One request's failure never rejects the whole batch.
BatchNeverRejects == AtPC({"rejected"}) = {}

\* Whenever no runner is inside its write, state.json can be read.
StateReadable == file.content # "valid" => AtPC({"write"}) # {}

\* What holds for a pool of one runner; that it never rejects needs delays that fit.
SequentialPoolSound ==
    poolSize = 1 => OutcomePersisted /\ (delaysFit => BatchNeverRejects)

\* No pool starves one of its requests: a run that took the lock gives it back.
LockReleased == lockHeld ~> ~ lockHeld
=============================================================================
