------------------------- MODULE DispatchPoolProofs -------------------------
(***************************************************************************)
(* A pool of one runner, the default, persists every outcome, and rejects  *)
(* only over delays that cannot be computed, for any number of tasks,      *)
(* attempts, runs and crashes.                                             *)
(***************************************************************************)
EXTENDS DispatchPool, FiniteSetTheorems, TLAPS

IsAt(r, S) == runners[r].pc \in S

\* Under way, or queued in the pool that the holder of the lock awaits.
IsOpen(r) ==
    \/ IsAt(r, Active)
    \/ IsAt(r, {"queued"}) /\ lockHeld /\ runners[r].run = runNo

\* Queued in a pool that was rejected.
IsStranded(r) == IsAt(r, {"queued"}) /\ ~ IsOpen(r)

Final == {"completed", "failed", "blocked", "retry_wait"}

\* What is under way is of the run that holds the lock, and one request at a time.
\* A rejected request has ended its run, and strands what was queued behind it.
SoleRunner ==
    /\ \A r \in Request : IsAt(r, Active) => runners[r].run = runNo /\ lockHeld
    /\ \A q, r \in Request : IsAt(q, Active) /\ IsAt(r, Active) => q = r
    /\ \A r \in Request : IsAt(r, {"rejected"}) =>
        ~ delaysFit /\ ~ (lockHeld /\ runners[r].run = runNo)
    /\ \A r \in Request : IsStranded(r) =>
        \E q \in Request : IsAt(q, {"rejected"}) /\ runners[q].run = runners[r].run

\* Requests are of attempts and of runs that began.
RequestsBegan ==
    \A r \in Request : ~ IsAt(r, {"none"}) =>
        r[2] <= file.tasks[r[1]].attempts /\ runners[r].run <= runNo

\* state.json has an open attempt as its task's last, and under its lease.
LeaseHeld ==
    \A r \in Request : IsOpen(r) =>
        /\ file.tasks[r[1]].status = "in_progress"
        /\ file.tasks[r[1]].attempts = r[2] /\ file.tasks[r[1]].lease = r[2]

\* Under the lock the file is unreadable only while it is written.
FileWhole ==
    /\ lockHeld /\ file.content # "valid" => \E r \in Request : IsAt(r, {"write"})
    /\ \A r \in Request : IsAt(r, {"write"}) => file.content = "empty"

Persisted(r) ==
    [file.tasks EXCEPT ![r[1]].status = runners[r].status, ![r[1]].lease = 0]

\* A runner's copy is the file with the runner's own change. What a runner persists
\* is final, or a retry that has an attempt left.
CopyFresh ==
    \A r \in Request :
        /\ IsAt(r, {"load"}) => <<runners[r].by, runners[r].status>> \in Outcomes
        /\ IsAt(r, {"truncate", "write"}) => runners[r].copy = Persisted(r)
        /\ IsAt(r, {"truncate", "write", "done"}) =>
            /\ runners[r].status \in Final
            /\ runners[r].status = "retry_wait" => r[2] < MaxAttempts

\* What was persisted stays until the task is claimed again.
StatusStays ==
    \A r \in Request : IsAt(r, {"done"}) /\ file.tasks[r[1]].attempts = r[2] =>
        file.tasks[r[1]].status = runners[r].status

SequentialInv ==
    SoleRunner /\ RequestsBegan /\ LeaseHeld /\ FileWhole /\ CopyFresh /\ StatusStays

PoolInv == TypeOK /\ (poolSize = 1 => SequentialInv)

-----------------------------------------------------------------------------
(* What the step of a runner changes.                                      *)

LEMMA NoneTypes ==
    /\ NoState \in State
    /\ NoRunner \in Runner
    /\ \A n \in Nat : [NoRunner EXCEPT !.pc = "queued", !.run = n] \in Runner
<1>1. NoState \in State
    <2>1. 0 \in 0 .. MaxAttempts
        BY PoolAssumption
    <2> QED
        BY <2>1 DEF NoState, State, TaskState, TaskStatus
<1> QED
    BY <1>1 DEF NoRunner, Runner, PC, Persister, TaskStatus

LEMMA RequestFacts ==
    /\ IsFiniteSet(Request)
    /\ \A r \in Request : r[1] \in Task /\ r[2] \in Attempt /\ r = <<r[1], r[2]>>
<1>1. IsFiniteSet(Task) /\ IsFiniteSet(Attempt)
    BY PoolAssumption, FS_Interval DEF Task, Attempt
<1> QED
    BY <1>1, FS_Product DEF Request

\* Only r changes, and becomes w.
Becomes(r, w) ==
    /\ w \in Runner
    /\ runners' \in [Request -> Runner]
    /\ runners'[r] = w
    /\ \A q \in Request \ {r} : runners'[q] = runners[q]

LEMMA BecomesRunner ==
    ASSUME TypeOK, NEW r \in Request, NEW w \in Runner, runners' = [runners EXCEPT ![r] = w]
    PROVE  Becomes(r, w)
BY DEF TypeOK, Becomes

LEMMA StartEffect ==
    ASSUME TypeOK, NEW r \in Request, StartExecution(r)
    PROVE  \E w : Becomes(r, w) /\ w.pc = "executing" /\ w.run = runners[r].run
<1> DEFINE w == [runners[r] EXCEPT !.pc = "executing"]
<1>1. w \in Runner /\ w.pc = "executing" /\ w.run = runners[r].run
    BY DEF TypeOK, Runner, PC
<1>2. runners' = [runners EXCEPT ![r] = w]
    BY DEF StartExecution
<1> HIDE DEF w
<1> QED
    BY <1>1, <1>2, BecomesRunner

LEMMA EndEffect ==
    ASSUME TypeOK, NEW r \in Request, EndExecution(r)
    PROVE  \E w : /\ Becomes(r, w) /\ w.pc = "load" /\ w.run = runners[r].run
                  /\ <<w.by, w.status>> \in Outcomes
<1>1. PICK outcome \in Outcomes :
        runners' = [runners EXCEPT ![r].pc = "load", ![r].by = outcome[1],
                                   ![r].status = outcome[2]]
    BY DEF EndExecution
<1>2. outcome[1] \in Persister /\ outcome[2] \in TaskStatus /\ outcome = <<outcome[1], outcome[2]>>
    BY DEF Outcomes, Persister, TaskStatus
<1> DEFINE b == outcome[1]
           s == outcome[2]
<1>3. b \in Persister /\ s \in TaskStatus /\ <<b, s>> \in Outcomes
    BY <1>2
<1>4. runners' = [runners EXCEPT ![r].pc = "load", ![r].by = b, ![r].status = s]
    BY <1>1
<1> HIDE DEF b, s
<1> DEFINE w == [runners[r] EXCEPT !.pc = "load", !.by = b, !.status = s]
<1>5. w \in Runner /\ w.pc = "load" /\ w.run = runners[r].run /\ w.by = b /\ w.status = s
    BY <1>3 DEF TypeOK, Runner, PC
<1>6. runners' = [runners EXCEPT ![r] = w]
    BY <1>4 DEF TypeOK
<1> HIDE DEF w
<1> QED
    BY <1>3, <1>5, <1>6, BecomesRunner

LEMMA LoadEffect ==
    ASSUME TypeOK, NEW r \in Request, LoadState(r)
    PROVE  \E w : /\ Becomes(r, w) /\ w.pc = "truncate" /\ w.run = runners[r].run
                  /\ w.status = PersistedStatus(r)
                  /\ w.copy = [file.tasks EXCEPT ![r[1]].status = w.status,
                                                 ![r[1]].lease = 0]
<1> DEFINE s == PersistedStatus(r)
           c == [file.tasks EXCEPT ![r[1]].status = s, ![r[1]].lease = 0]
<1>1. s \in TaskStatus
    BY DEF PersistedStatus, TypeOK, Runner, TaskStatus
<1>2. c \in State
    <2> DEFINE x == [file.tasks[r[1]] EXCEPT !.status = s, !.lease = 0]
    <2>1. r[1] \in Task /\ file.tasks \in State /\ 0 \in 0 .. MaxAttempts
        BY RequestFacts, PoolAssumption DEF TypeOK
    <2>2. x \in TaskState
        BY <1>1, <2>1 DEF State, TaskState
    <2>3. c = [file.tasks EXCEPT ![r[1]] = x]
        BY <2>1 DEF State
    <2> HIDE DEF x, c
    <2> QED
        BY <2>1, <2>2, <2>3 DEF State
<1>3. runners' = [runners EXCEPT ![r].pc = "truncate", ![r].status = s, ![r].copy = c]
    BY DEF LoadState
<1>4. s = PersistedStatus(r) /\ c = [file.tasks EXCEPT ![r[1]].status = s, ![r[1]].lease = 0]
    OBVIOUS
<1> HIDE DEF s, c
<1> DEFINE w == [runners[r] EXCEPT !.pc = "truncate", !.status = s, !.copy = c]
<1>5. /\ w \in Runner /\ w.pc = "truncate" /\ w.run = runners[r].run
      /\ w.status = s /\ w.copy = c
    BY <1>1, <1>2 DEF TypeOK, Runner, PC
<1>6. runners' = [runners EXCEPT ![r] = w]
    BY <1>3 DEF TypeOK
<1> HIDE DEF w
<1>7. Becomes(r, w)
    BY <1>5, <1>6, BecomesRunner
<1> QED
    BY <1>4, <1>5, <1>7

LEMMA LoadFailsEffect ==
    ASSUME TypeOK, NEW r \in Request, LoadFails(r)
    PROVE  \E w : Becomes(r, w)
<1>1. CASE runners[r].by = "applyResult"
    <2> DEFINE w == [runners[r] EXCEPT !.by = "failLeasedTask", !.status = "failed"]
    <2>1. w \in Runner
        BY DEF TypeOK, Runner, Persister, TaskStatus
    <2>2. runners' = [runners EXCEPT ![r] = w]
        BY <1>1 DEF LoadFails, TypeOK
    <2> HIDE DEF w
    <2> QED
        BY <2>1, <2>2, BecomesRunner
<1>2. CASE runners[r].by # "applyResult"
    <2> DEFINE w == [runners[r] EXCEPT !.pc = "rejected"]
    <2>1. w \in Runner
        BY DEF TypeOK, Runner, PC
    <2>2. runners' = [runners EXCEPT ![r] = w]
        BY <1>2 DEF LoadFails, TypeOK
    <2> HIDE DEF w
    <2> QED
        BY <2>1, <2>2, BecomesRunner
<1> QED
    BY <1>1, <1>2

LEMMA TruncateEffect ==
    ASSUME TypeOK, NEW r \in Request, Truncate(r)
    PROVE  \E w : /\ Becomes(r, w) /\ w.pc = "write" /\ w.run = runners[r].run
                  /\ w.status = runners[r].status /\ w.copy = runners[r].copy
<1> DEFINE w == [runners[r] EXCEPT !.pc = "write"]
<1>1. /\ w \in Runner /\ w.pc = "write" /\ w.run = runners[r].run
      /\ w.status = runners[r].status /\ w.copy = runners[r].copy
    BY DEF TypeOK, Runner, PC
<1>2. runners' = [runners EXCEPT ![r] = w]
    BY DEF Truncate
<1> HIDE DEF w
<1> QED
    BY <1>1, <1>2, BecomesRunner

LEMMA WriteEffect ==
    ASSUME TypeOK, NEW r \in Request, Write(r)
    PROVE  /\ \E w : /\ Becomes(r, w) /\ w.pc = "done" /\ w.run = runners[r].run
                     /\ w.status = runners[r].status
           /\ file' \in [content : Content, tasks : State]
           /\ file'.tasks = runners[r].copy
           /\ file.content = "empty" => file'.content = "valid"
<1>1. NoState \in State
    BY NoneTypes
<1> DEFINE w == [runners[r] EXCEPT !.pc = "done", !.copy = NoState]
<1>2. /\ w \in Runner /\ w.pc = "done" /\ w.run = runners[r].run
      /\ w.status = runners[r].status
    BY <1>1 DEF TypeOK, Runner, PC
<1>3. runners' = [runners EXCEPT ![r] = w]
    BY DEF Write, TypeOK
<1> HIDE DEF w
<1>4. Becomes(r, w)
    BY <1>2, <1>3, BecomesRunner
<1>5. runners[r].copy \in State
    BY DEF TypeOK, Runner
<1> QED
    BY <1>2, <1>4, <1>5 DEF Write, Content

-----------------------------------------------------------------------------
(* Types.                                                                  *)

LEMMA PoolTypeInit == Init => TypeOK
<1> SUFFICES ASSUME Init PROVE TypeOK
    OBVIOUS
<1>1. file \in [content : Content, tasks : State]
    BY NoneTypes DEF Init, Content
<1>2. runners \in [Request -> Runner]
    BY NoneTypes DEF Init
<1>3. crashes \in 0 .. MaxCrashes
    BY PoolAssumption DEF Init
<1> QED
    BY <1>1, <1>2, <1>3 DEF Init, TypeOK

LEMMA PoolTypeStep ==
    ASSUME TypeOK, [Next]_vars
    PROVE  TypeOK'
<1>1. CASE StartRun
    <2>1. PICK S \in SUBSET {t \in Task : Claimable(t)} :
            LET claimed == {t \in S : HasAttemptLeft(t)}
                fresh(t) == [status |-> "in_progress",
                             attempts |-> file.tasks[t].attempts + 1,
                             lease |-> file.tasks[t].attempts + 1]
            IN  /\ file' = [file EXCEPT !.tasks = [t \in Task |->
                        IF t \in claimed THEN fresh(t)
                        ELSE IF t \in S THEN [@[t] EXCEPT !.status = "blocked", !.lease = 0]
                        ELSE @[t]]]
                /\ runners' = [r \in Request |->
                        IF r[1] \in claimed /\ r[2] = file.tasks[r[1]].attempts + 1
                        THEN [NoRunner EXCEPT !.pc = "queued", !.run = runNo + 1]
                        ELSE runners[r]]
                /\ runNo' = runNo + 1 /\ lockHeld' = TRUE /\ UNCHANGED <<poolSize, delaysFit, crashes>>
        BY <1>1 DEF StartRun
    <2> DEFINE claimed == {t \in S : HasAttemptLeft(t)}
               after(t) == IF t \in claimed
                           THEN [status |-> "in_progress",
                                 attempts |-> file.tasks[t].attempts + 1,
                                 lease |-> file.tasks[t].attempts + 1]
                           ELSE IF t \in S
                           THEN [file.tasks[t] EXCEPT !.status = "blocked", !.lease = 0]
                           ELSE file.tasks[t]
    <2>2. ASSUME NEW t \in Task
          PROVE  after(t) \in TaskState
        <3>1. file.tasks[t] \in TaskState
            BY DEF TypeOK, State
        <3>2. CASE t \in claimed
            <4>1. file.tasks[t].attempts + 1 \in 0 .. MaxAttempts
                BY <3>1, <3>2, PoolAssumption DEF HasAttemptLeft, TaskState
            <4> QED
                BY <3>2, <4>1 DEF TaskState, TaskStatus
        <3>3. CASE t \notin claimed
            <4>1. 0 \in 0 .. MaxAttempts
                BY PoolAssumption
            <4> QED
                BY <3>1, <3>3, <4>1 DEF TaskState, TaskStatus
        <3> QED
            BY <3>2, <3>3
    <2>3. file' = [file EXCEPT !.tasks = [t \in Task |-> after(t)]]
        BY <2>1 DEF TypeOK
    <2> HIDE DEF after
    <2>4. file' \in [content : Content, tasks : State]
        BY <2>2, <2>3 DEF TypeOK, State
    <2>5. [NoRunner EXCEPT !.pc = "queued", !.run = runNo + 1] \in Runner
        <3>1. runNo + 1 \in Nat
            BY DEF TypeOK
        <3> QED
            BY <3>1, NoneTypes
    <2>6. runners' \in [Request -> Runner]
        BY <2>1, <2>5 DEF TypeOK
    <2>7. runNo' \in Nat /\ lockHeld' \in BOOLEAN /\ UNCHANGED <<poolSize, delaysFit, crashes>>
        <3>1. runNo' = runNo + 1 /\ lockHeld' = TRUE /\ UNCHANGED <<poolSize, delaysFit, crashes>>
            BY <2>1
        <3>2. runNo + 1 \in Nat
            BY DEF TypeOK
        <3> QED
            BY <3>1, <3>2
    <2> QED
        BY <2>4, <2>6, <2>7 DEF TypeOK
<1>2. ASSUME NEW r \in Request, \E w : Becomes(r, w),
             UNCHANGED <<runNo, poolSize, delaysFit, crashes>>, lockHeld' \in BOOLEAN,
             file' \in [content : Content, tasks : State]
      PROVE  TypeOK'
    BY <1>2 DEF Becomes, TypeOK
<1>3. ASSUME NEW r \in Request, RunnerStep(r)
      PROVE  TypeOK'
    <2>1. CASE StartExecution(r)
        BY <1>2, <2>1, StartEffect DEF StartExecution, TypeOK
    <2>2. CASE EndExecution(r)
        BY <1>2, <2>2, EndEffect DEF EndExecution, TypeOK
    <2>3. CASE LoadState(r)
        BY <1>2, <2>3, LoadEffect DEF LoadState, TypeOK
    <2>4. CASE LoadFails(r)
        BY <1>2, <2>4, LoadFailsEffect DEF LoadFails, TypeOK
    <2>5. CASE Truncate(r)
        BY <1>2, <2>5, TruncateEffect DEF Truncate, TypeOK, Content
    <2>6. CASE Write(r)
        BY <1>2, <2>6, WriteEffect DEF Write, TypeOK
    <2> QED
        BY <1>3, <2>1, <2>2, <2>3, <2>4, <2>5, <2>6 DEF RunnerStep
<1>4. CASE EndRun
    BY <1>4 DEF EndRun, TypeOK
<1>5. CASE Crash
    <2>2. runners' \in [Request -> Runner]
        BY <1>5, NoneTypes DEF Crash, TypeOK
    <2>3. crashes' \in 0 .. MaxCrashes
        BY <1>5, PoolAssumption DEF Crash, TypeOK
    <2> QED
        BY <1>5, <2>2, <2>3 DEF Crash, TypeOK
<1>6. CASE UNCHANGED vars
    BY <1>6 DEF vars, TypeOK
<1> QED
    BY <1>1, <1>3, <1>4, <1>5, <1>6 DEF Next

-----------------------------------------------------------------------------
(* One runner.                                                             *)

LEMMA SequentialInit == Init => SequentialInv
<1> SUFFICES ASSUME Init PROVE SequentialInv
    OBVIOUS
<1>1. \A r \in Request : runners[r].pc = "none"
    BY DEF Init, NoRunner
<1>2. \A r \in Request : /\ ~ IsOpen(r) /\ ~ IsAt(r, Active) /\ ~ IsAt(r, {"rejected"})
                         /\ ~ IsStranded(r) /\ IsAt(r, {"none"})
                         /\ ~ IsAt(r, {"write"}) /\ ~ IsAt(r, {"load"})
                         /\ ~ IsAt(r, {"truncate", "write"}) /\ ~ IsAt(r, {"done"})
                         /\ ~ IsAt(r, {"truncate", "write", "done"})
    BY <1>1 DEF IsOpen, IsStranded, IsAt, Active
<1>3. file.content = "valid"
    BY DEF Init
<1> QED
    BY <1>2, <1>3
    DEF SequentialInv, SoleRunner, RequestsBegan, LeaseHeld, FileWhole, CopyFresh, StatusStays

\* A runner that goes on and leaves the tasks of the file alone.
LEMMA GoesOn ==
    ASSUME SequentialInv, NEW r \in Request, NEW w, Becomes(r, w),
           IsOpen(r), w.pc \in Active, w.run = runners[r].run,
           \A q \in Request : IsAt(q, Active) => q = r,
           file'.tasks = file.tasks, UNCHANGED <<runNo, lockHeld, delaysFit>>
    PROVE  SoleRunner' /\ RequestsBegan' /\ LeaseHeld' /\ StatusStays'
<1> USE DEF SequentialInv, Becomes, IsOpen, IsAt, Active
<1>1. SoleRunner'
    BY DEF SoleRunner, IsStranded
<1>2. RequestsBegan'
    BY DEF RequestsBegan
<1>3. LeaseHeld'
    BY DEF LeaseHeld
<1>4. StatusStays'
    BY DEF StatusStays
<1> QED
    BY <1>1, <1>2, <1>3, <1>4

\* The runner takes a request when none is under way, and no stranded one.
LEMMA OneAtATime ==
    ASSUME TypeOK, SequentialInv, poolSize = 1, NEW r \in Request, StartExecution(r)
    PROVE  IsOpen(r) /\ \A q \in Request : ~ IsAt(q, Active)
<1> DEFINE busy == RunnersOf(runners[r].run) \cap AtPC(Active \cup {"rejected"})
<1>1. Cardinality(busy) < 1
    BY DEF StartExecution
<1>2. IsFiniteSet(busy)
    <2>1. busy \subseteq Request
        BY DEF AtPC
    <2> QED
        BY <2>1, RequestFacts, FS_Subset
<1>3. busy = {}
    <2>1. Cardinality(busy) \in Nat
        BY <1>2, FS_CardinalityType
    <2>2. Cardinality(busy) = 0
        BY <1>1, <2>1
    <2> QED
        BY <1>2, <2>2, FS_EmptySet
<1>4. IsOpen(r)
    <2>1. SUFFICES ASSUME IsStranded(r) PROVE FALSE
        BY DEF IsStranded, IsAt, StartExecution
    <2>2. PICK q \in Request : IsAt(q, {"rejected"}) /\ runners[q].run = runners[r].run
        BY <2>1 DEF SequentialInv, SoleRunner
    <2>3. q \in busy
        BY <2>2 DEF RunnersOf, AtPC, IsAt
    <2> QED
        BY <1>3, <2>3
<1>5. ASSUME NEW q \in Request, IsAt(q, Active)
      PROVE  FALSE
    <2>1. runners[q].run = runNo /\ runners[r].run = runNo
        BY <1>4, <1>5 DEF SequentialInv, SoleRunner, IsOpen
    <2>2. q \in busy
        BY <1>5, <2>1 DEF RunnersOf, AtPC, IsAt, Active
    <2> QED
        BY <1>3, <2>2
<1> QED
    BY <1>4, <1>5

LEMMA StartKeeps ==
    ASSUME TypeOK, SequentialInv, poolSize = 1, NEW r \in Request, StartExecution(r)
    PROVE  SequentialInv'
<1>1. PICK w : Becomes(r, w) /\ w.pc = "executing" /\ w.run = runners[r].run
    BY StartEffect
<1>2. /\ IsOpen(r) /\ runners[r].pc = "queued" /\ UNCHANGED <<file, runNo, lockHeld, delaysFit>>
      /\ \A q \in Request : ~ IsAt(q, Active)
    BY OneAtATime DEF StartExecution
<1>3. SoleRunner' /\ RequestsBegan' /\ LeaseHeld' /\ StatusStays'
    BY <1>1, <1>2, GoesOn DEF IsAt, Active
<1>4. FileWhole'
    BY <1>1, <1>2 DEF SequentialInv, FileWhole, Becomes, IsAt
<1>5. CopyFresh'
    BY <1>1, <1>2 DEF SequentialInv, CopyFresh, Persisted, Becomes, IsAt
<1> QED
    BY <1>3, <1>4, <1>5 DEF SequentialInv

LEMMA EndKeeps ==
    ASSUME TypeOK, SequentialInv, NEW r \in Request, EndExecution(r)
    PROVE  SequentialInv'
<1>1. PICK w : /\ Becomes(r, w) /\ w.pc = "load" /\ w.run = runners[r].run
               /\ <<w.by, w.status>> \in Outcomes
    BY EndEffect
<1>2. runners[r].pc = "executing" /\ UNCHANGED <<file, runNo, lockHeld, delaysFit>>
    BY DEF EndExecution
<1>3. \A q \in Request : IsAt(q, Active) => q = r
    BY <1>2 DEF SequentialInv, SoleRunner, IsAt, Active
<1>4. SoleRunner' /\ RequestsBegan' /\ LeaseHeld' /\ StatusStays'
    BY <1>1, <1>2, <1>3, GoesOn DEF IsOpen, IsAt, Active
<1>5. FileWhole'
    BY <1>1, <1>2 DEF SequentialInv, FileWhole, Becomes, IsAt
<1>6. CopyFresh'
    BY <1>1, <1>2 DEF SequentialInv, CopyFresh, Persisted, Becomes, IsAt
<1> QED
    BY <1>4, <1>5, <1>6 DEF SequentialInv

\* The runner that loads finds its lease.
LEMMA FindsLease ==
    ASSUME SequentialInv, NEW r \in Request, runners[r].pc = "load"
    PROVE  HoldsLease(r)
<1>1. lockHeld /\ \A q \in Request : IsAt(q, Active) => q = r
    BY DEF SequentialInv, SoleRunner, IsOpen, IsAt, Active
<1>2. file.content = "valid"
    BY <1>1 DEF SequentialInv, FileWhole, IsAt, Active
<1>3. file.tasks[r[1]].status = "in_progress" /\ file.tasks[r[1]].lease = r[2]
    BY DEF SequentialInv, LeaseHeld, IsOpen, IsAt, Active
<1> QED
    BY <1>2, <1>3 DEF HoldsLease

LEMMA LoadKeeps ==
    ASSUME TypeOK, SequentialInv, NEW r \in Request, LoadState(r)
    PROVE  SequentialInv'
<1>1. PICK w : /\ Becomes(r, w) /\ w.pc = "truncate" /\ w.run = runners[r].run
               /\ w.status = PersistedStatus(r)
               /\ w.copy = [file.tasks EXCEPT ![r[1]].status = w.status, ![r[1]].lease = 0]
    BY LoadEffect
<1>2. runners[r].pc = "load" /\ UNCHANGED <<file, runNo, lockHeld, delaysFit>>
    BY DEF LoadState
<1>3. \A q \in Request : IsAt(q, Active) => q = r
    BY <1>2 DEF SequentialInv, SoleRunner, IsAt, Active
<1>4. SoleRunner' /\ RequestsBegan' /\ LeaseHeld' /\ StatusStays'
    BY <1>1, <1>2, <1>3, GoesOn DEF IsOpen, IsAt, Active
<1>5. FileWhole'
    BY <1>1, <1>2 DEF SequentialInv, FileWhole, Becomes, IsAt
<1>6. w.status \in Final /\ (w.status = "retry_wait" => r[2] < MaxAttempts)
    <2>1. <<runners[r].by, runners[r].status>> \in Outcomes
        BY <1>2 DEF SequentialInv, CopyFresh, IsAt
    <2>2. file.tasks[r[1]].attempts = r[2] /\ r[2] \in Nat
        BY <1>2, RequestFacts DEF SequentialInv, LeaseHeld, IsOpen, IsAt, Active, Attempt
    <2> QED
        BY <1>1, <2>1, <2>2, PoolAssumption DEF PersistedStatus, Outcomes, Final
<1>7. CopyFresh'
    <2> SUFFICES ASSUME NEW q \in Request
                 PROVE  (/\ IsAt(q, {"load"}) => <<runners[q].by, runners[q].status>> \in Outcomes
                         /\ IsAt(q, {"truncate", "write"}) => runners[q].copy = Persisted(q)
                         /\ IsAt(q, {"truncate", "write", "done"}) =>
                             /\ runners[q].status \in Final
                             /\ runners[q].status = "retry_wait" => q[2] < MaxAttempts)'
        BY DEF CopyFresh
    <2>1. CASE q = r
        <3>1. runners'[q] = w /\ UNCHANGED file
            BY <1>1, <1>2, <2>1 DEF Becomes
        <3>2. w.copy = [file.tasks EXCEPT ![q[1]].status = w.status, ![q[1]].lease = 0]
            BY <1>1, <2>1
        <3>3. w.status \in Final /\ (w.status = "retry_wait" => q[2] < MaxAttempts)
            BY <1>6, <2>1
        <3> QED
            BY <1>1, <3>1, <3>2, <3>3 DEF Persisted, IsAt
    <2>2. CASE q # r
        <3>1. runners'[q] = runners[q] /\ UNCHANGED file
            BY <1>1, <1>2, <2>2 DEF Becomes
        <3>2. /\ IsAt(q, {"truncate", "write"}) => runners[q].copy = Persisted(q)
              /\ IsAt(q, {"truncate", "write", "done"}) =>
                    /\ runners[q].status \in Final
                    /\ runners[q].status = "retry_wait" => q[2] < MaxAttempts
              /\ IsAt(q, {"load"}) => <<runners[q].by, runners[q].status>> \in Outcomes
            BY DEF SequentialInv, CopyFresh
        <3> QED
            BY <3>1, <3>2 DEF Persisted, IsAt
    <2> QED
        BY <2>1, <2>2
<1> QED
    BY <1>4, <1>5, <1>7 DEF SequentialInv

\* What it cannot persist is a retry whose delay cannot be computed: its run ends and
\* whatever was queued is stranded.
LEMMA ThrowKeeps ==
    ASSUME TypeOK, SequentialInv, NEW r \in Request, LoadFails(r)
    PROVE  SequentialInv'
<1>1. runners[r].pc = "load" /\ DelayThrows(r)
    BY FindsLease DEF LoadFails, CanPersist
<1>2. /\ ~ delaysFit /\ UNCHANGED <<file, runNo, delaysFit>>
      /\ runners' = [runners EXCEPT ![r].pc = "rejected"]
      /\ lockHeld' = (lockHeld /\ runners[r].run # runNo)
    BY <1>1 DEF LoadFails, DelayThrows
<1>3. /\ runners[r].run = runNo /\ lockHeld
      /\ \A q \in Request : IsAt(q, Active) => q = r
    BY <1>1 DEF SequentialInv, SoleRunner, IsAt, Active
<1>4. ~ lockHeld'
    BY <1>2, <1>3
<1>5. /\ runners'[r].pc = "rejected" /\ runners'[r].run = runNo
      /\ \A q \in Request \ {r} : runners'[q] = runners[q]
    BY <1>2, <1>3 DEF TypeOK, Runner
<1>6. \A q \in Request : ~ IsAt(q, Active)' /\ ~ IsOpen(q)'
    BY <1>3, <1>4, <1>5 DEF IsOpen, IsAt, Active
<1>7. \A q \in Request : /\ ~ IsAt(q, {"write"})' /\ ~ IsAt(q, {"load"})'
                         /\ ~ IsAt(q, {"truncate", "write"})'
    BY <1>6 DEF IsAt, Active
<1>8. SoleRunner'
    <2>1. \A q \in Request : IsAt(q, {"rejected"})' => ~ delaysFit'
        BY <1>2
    <2>2. ASSUME NEW q \in Request, IsStranded(q)'
          PROVE  \E p \in Request : IsAt(p, {"rejected"})' /\ runners'[p].run = runners'[q].run
        <3>1. q # r /\ runners'[q] = runners[q] /\ IsAt(q, {"queued"})
            BY <1>5, <2>2 DEF IsStranded, IsAt
        <3>2. CASE IsOpen(q)
            BY <1>5, <3>1, <3>2 DEF IsOpen, IsAt, Active
        <3>3. CASE ~ IsOpen(q)
            <4>1. PICK p \in Request : IsAt(p, {"rejected"}) /\ runners[p].run = runners[q].run
                BY <3>1, <3>3 DEF SequentialInv, SoleRunner, IsStranded
            <4>2. p # r
                BY <1>1, <4>1 DEF IsAt
            <4> QED
                BY <1>5, <3>1, <4>1, <4>2 DEF IsAt
        <3> QED
            BY <3>2, <3>3
    <2> QED
        BY <1>4, <1>6, <2>1, <2>2 DEF SoleRunner
<1>9. RequestsBegan'
    BY <1>1, <1>2, <1>3, <1>5 DEF SequentialInv, RequestsBegan, IsAt
<1>10. LeaseHeld' /\ FileWhole'
    BY <1>4, <1>6, <1>7 DEF LeaseHeld, FileWhole
<1>11. \A q \in Request : /\ IsAt(q, {"done"})' => IsAt(q, {"done"}) /\ runners'[q] = runners[q]
                          /\ IsAt(q, {"truncate", "write", "done"})' =>
                                /\ IsAt(q, {"truncate", "write", "done"})
                                /\ runners'[q] = runners[q]
    BY <1>5 DEF IsAt
<1>12. CopyFresh' /\ StatusStays'
    BY <1>2, <1>7, <1>11 DEF SequentialInv, CopyFresh, StatusStays
<1> QED
    BY <1>8, <1>9, <1>10, <1>12 DEF SequentialInv

LEMMA TruncateKeeps ==
    ASSUME TypeOK, SequentialInv, NEW r \in Request, Truncate(r)
    PROVE  SequentialInv'
<1>1. PICK w : /\ Becomes(r, w) /\ w.pc = "write" /\ w.run = runners[r].run
               /\ w.status = runners[r].status /\ w.copy = runners[r].copy
    BY TruncateEffect
<1>2. /\ runners[r].pc = "truncate" /\ UNCHANGED <<runNo, lockHeld, delaysFit>>
      /\ file'.tasks = file.tasks /\ file'.content = "empty"
    BY DEF Truncate, TypeOK
<1>3. \A q \in Request : IsAt(q, Active) => q = r
    BY <1>2 DEF SequentialInv, SoleRunner, IsAt, Active
<1>4. SoleRunner' /\ RequestsBegan' /\ LeaseHeld' /\ StatusStays'
    BY <1>1, <1>2, <1>3, GoesOn DEF IsOpen, IsAt, Active
<1>5. FileWhole'
    BY <1>1, <1>2 DEF FileWhole, Becomes, IsAt
<1>6. CopyFresh'
    <2>1. Persisted(r)' = Persisted(r)
        BY <1>1, <1>2 DEF Persisted, Becomes
    <2>2. /\ runners[r].copy = Persisted(r)
          /\ runners[r].status \in Final /\ (runners[r].status = "retry_wait" => r[2] < MaxAttempts)
        BY <1>2 DEF SequentialInv, CopyFresh, IsAt
    <2>3. \A q \in Request \ {r} : /\ runners'[q] = runners[q]
                                  /\ ~ IsAt(q, {"truncate", "write"})'
        BY <1>1, <1>3 DEF Becomes, IsAt, Active
    <2> QED
        BY <1>1, <2>1, <2>2, <2>3 DEF SequentialInv, CopyFresh, Becomes, IsAt
<1> QED
    BY <1>4, <1>5, <1>6 DEF SequentialInv

\* The write changes the runner's own task, to what the runner reports.
LEMMA WriteKeeps ==
    ASSUME TypeOK, SequentialInv, NEW r \in Request, Write(r)
    PROVE  SequentialInv'
<1>1. PICK w : /\ Becomes(r, w) /\ w.pc = "done" /\ w.run = runners[r].run
               /\ w.status = runners[r].status
    BY WriteEffect
<1>2. runners[r].pc = "write" /\ UNCHANGED <<runNo, lockHeld, delaysFit>>
    BY DEF Write
<1>3. \A q \in Request : IsAt(q, Active) => q = r
    BY <1>2 DEF SequentialInv, SoleRunner, IsAt, Active
<1>4. file.content = "empty" /\ file'.content = "valid"
    BY <1>2, WriteEffect DEF SequentialInv, FileWhole, IsAt
<1>5. file'.tasks = Persisted(r)
    BY <1>2, WriteEffect DEF SequentialInv, CopyFresh, IsAt
<1>6. /\ file'.tasks[r[1]].status = runners[r].status
      /\ file'.tasks[r[1]].attempts = file.tasks[r[1]].attempts
      /\ \A t \in Task \ {r[1]} : file'.tasks[t] = file.tasks[t]
    BY <1>5, RequestFacts DEF Persisted, TypeOK, State, TaskState
<1>7. file.tasks[r[1]].attempts = r[2]
    BY <1>2 DEF SequentialInv, LeaseHeld, IsOpen, IsAt, Active
<1>8. \A q \in Request \ {r} : IsOpen(q) => q[1] # r[1]
    <2>1. \A q \in Request \ {r} : q[1] = r[1] => q[2] # r[2]
        BY RequestFacts
    <2> QED
        BY <1>7, <2>1 DEF SequentialInv, LeaseHeld
<1>9. SoleRunner' /\ RequestsBegan'
    <2>1. SoleRunner'
        BY <1>1, <1>2, <1>3 DEF SequentialInv, SoleRunner, IsStranded, Becomes, IsOpen, IsAt, Active
    <2>2. \A t \in Task : file'.tasks[t].attempts = file.tasks[t].attempts
        BY <1>6
    <2>3. RequestsBegan'
        BY <1>1, <1>2, <2>2, RequestFacts DEF SequentialInv, RequestsBegan, Becomes, IsAt
    <2> QED
        BY <2>1, <2>3
<1>10. LeaseHeld'
    <2>1. SUFFICES ASSUME NEW q \in Request, IsOpen(q)'
                   PROVE  /\ file'.tasks[q[1]].status = "in_progress"
                          /\ file'.tasks[q[1]].attempts = q[2]
                          /\ file'.tasks[q[1]].lease = q[2]
        BY DEF LeaseHeld
    <2>2. q # r /\ IsOpen(q)
        BY <1>1, <1>2, <2>1 DEF Becomes, IsOpen, IsAt, Active
    <2>3. file'.tasks[q[1]] = file.tasks[q[1]]
        BY <1>6, <1>8, <2>2, RequestFacts
    <2> QED
        BY <2>2, <2>3 DEF SequentialInv, LeaseHeld
<1>11. FileWhole'
    BY <1>1, <1>2, <1>3, <1>4 DEF SequentialInv, FileWhole, Becomes, IsAt, Active
<1>12. CopyFresh'
    BY <1>1, <1>2, <1>3 DEF SequentialInv, CopyFresh, Becomes, IsAt, Active
<1>13. StatusStays'
    <2>1. SUFFICES ASSUME NEW q \in Request, IsAt(q, {"done"})', file'.tasks[q[1]].attempts = q[2]
                   PROVE  file'.tasks[q[1]].status = runners'[q].status
        BY DEF StatusStays
    <2>2. CASE q = r
        BY <1>1, <1>6, <2>2 DEF Becomes
    <2>3. CASE q # r
        <3>1. q[1] # r[1]
            BY <1>6, <1>7, <2>1, <2>3, RequestFacts
        <3> QED
            BY <1>1, <1>6, <2>1, <2>3, <3>1, RequestFacts
            DEF SequentialInv, StatusStays, Becomes, IsAt
    <2> QED
        BY <2>2, <2>3
<1> QED
    BY <1>9, <1>10, <1>11, <1>12, <1>13 DEF SequentialInv

-----------------------------------------------------------------------------
(* Runs.                                                                   *)

LEMMA RunKeeps ==
    ASSUME TypeOK, SequentialInv, StartRun
    PROVE  SequentialInv'
<1>1. PICK S \in SUBSET {t \in Task : Claimable(t)} :
        LET claimed == {t \in S : HasAttemptLeft(t)}
            fresh(t) == [status |-> "in_progress",
                         attempts |-> file.tasks[t].attempts + 1,
                         lease |-> file.tasks[t].attempts + 1]
        IN  /\ ~ lockHeld /\ file.content = "valid"
            /\ file' = [file EXCEPT !.tasks = [t \in Task |->
                    IF t \in claimed THEN fresh(t)
                    ELSE IF t \in S THEN [@[t] EXCEPT !.status = "blocked", !.lease = 0]
                    ELSE @[t]]]
            /\ runners' = [r \in Request |->
                    IF r[1] \in claimed /\ r[2] = file.tasks[r[1]].attempts + 1
                    THEN [NoRunner EXCEPT !.pc = "queued", !.run = runNo + 1]
                    ELSE runners[r]]
            /\ runNo' = runNo + 1 /\ lockHeld' = TRUE
    BY DEF StartRun
<1> DEFINE claimed == {t \in S : HasAttemptLeft(t)}
           begins(r) == r[1] \in claimed /\ r[2] = file.tasks[r[1]].attempts + 1
<1>2. file'.content = "valid" /\ runNo' = runNo + 1 /\ lockHeld'
    BY <1>1 DEF TypeOK
<1>3. \A t \in claimed : /\ file'.tasks[t].status = "in_progress"
                         /\ file'.tasks[t].attempts = file.tasks[t].attempts + 1
                         /\ file'.tasks[t].lease = file.tasks[t].attempts + 1
    BY <1>1 DEF TypeOK
<1>4. \A t \in S \ claimed : /\ file'.tasks[t].status = "blocked"
                             /\ file'.tasks[t].attempts = file.tasks[t].attempts
    BY <1>1 DEF TypeOK, State, TaskState
<1>5. \A t \in Task \ S : file'.tasks[t] = file.tasks[t]
    BY <1>1 DEF TypeOK
<1>6. \A r \in Request : begins(r) => runners'[r].pc = "queued" /\ runners'[r].run = runNo + 1
    BY <1>1 DEF NoRunner
<1>7. \A r \in Request : ~ begins(r) => runners'[r] = runners[r]
    BY <1>1
<1>8. \A r \in Request : ~ IsOpen(r) /\ ~ IsAt(r, Active)
    BY <1>1 DEF SequentialInv, SoleRunner, IsOpen, IsAt, Active
<1>9. \A r \in Request : ~ IsAt(r, {"none"}) => ~ begins(r) /\ runners[r].run # runNo + 1
    <2>1. SUFFICES ASSUME NEW r \in Request, ~ IsAt(r, {"none"})
                   PROVE  ~ begins(r) /\ runners[r].run # runNo + 1
        OBVIOUS
    <2>2. r[2] <= file.tasks[r[1]].attempts /\ runners[r].run <= runNo
        BY <2>1 DEF SequentialInv, RequestsBegan
    <2>3. /\ file.tasks[r[1]].attempts \in Int /\ r[2] \in Int
          /\ runners[r].run \in Int /\ runNo \in Int
        BY RequestFacts DEF TypeOK, State, TaskState, Runner, Attempt
    <2> HIDE DEF claimed
    <2> QED
        BY <2>2, <2>3
<1>10. \A r \in Request : /\ ~ begins(r) => ~ IsOpen(r)' /\ ~ IsAt(r, Active)'
                         /\ ~ IsAt(r, Active)'
    BY <1>2, <1>6, <1>7, <1>8, <1>9 DEF IsOpen, IsAt, Active
<1>11. SoleRunner' /\ RequestsBegan'
    <2> HIDE DEF claimed, begins
    <2>1. \A r \in Request : begins(r) => runners'[r].pc = "queued" /\ IsOpen(r)'
        BY <1>2, <1>6 DEF IsOpen, IsAt
    <2>2. ASSUME NEW r \in Request, IsAt(r, {"rejected"})'
          PROVE  IsAt(r, {"rejected"}) /\ runners'[r].run # runNo'
        <3>1. ~ begins(r)
            BY <2>1, <2>2 DEF IsAt
        <3>2. runners'[r] = runners[r]
            BY <1>7, <3>1
        <3>3. runners[r].pc = "rejected"
            BY <2>2, <3>2 DEF IsAt
        <3> QED
            BY <1>2, <1>9, <3>2, <3>3 DEF IsAt
    <2>3. ASSUME NEW r \in Request, IsStranded(r)'
          PROVE  \E q \in Request : IsAt(q, {"rejected"})' /\ runners'[q].run = runners'[r].run
        <3>1. ~ begins(r) /\ runners'[r] = runners[r] /\ IsAt(r, {"queued"})
            BY <1>7, <2>1, <2>3 DEF IsStranded, IsAt
        <3>2. PICK q \in Request : IsAt(q, {"rejected"}) /\ runners[q].run = runners[r].run
            BY <1>8, <3>1 DEF SequentialInv, SoleRunner, IsStranded
        <3>3. runners'[q] = runners[q]
            BY <1>7, <1>9, <3>2 DEF IsAt
        <3> QED
            BY <3>1, <3>2, <3>3 DEF IsAt
    <2>4. SoleRunner'
        <3>1. UNCHANGED delaysFit
            BY DEF StartRun
        <3> QED
            BY <1>10, <2>2, <2>3, <3>1 DEF SequentialInv, SoleRunner
    <2>5. ASSUME NEW r \in Request, ~ IsAt(r, {"none"})'
          PROVE  r[2] <= file'.tasks[r[1]].attempts /\ runners'[r].run <= runNo'
        <3>1. /\ r[1] \in Task /\ r[2] \in Int /\ runNo \in Int
              /\ file.tasks[r[1]].attempts \in Int /\ runners[r].run \in Int
            BY RequestFacts DEF TypeOK, State, TaskState, Runner, Attempt
        <3>2. CASE begins(r)
            <4>1. r[1] \in claimed /\ r[2] = file.tasks[r[1]].attempts + 1
                BY <3>2 DEF begins
            <4>2. file'.tasks[r[1]].attempts = r[2] /\ runners'[r].run = runNo'
                BY <1>2, <1>3, <1>6, <3>2, <4>1
            <4> QED
                BY <1>2, <3>1, <4>2
        <3>3. CASE ~ begins(r)
            <4>1. r[2] <= file.tasks[r[1]].attempts /\ runners[r].run <= runNo
                BY <1>7, <2>5, <3>3 DEF SequentialInv, RequestsBegan, IsAt
            <4>2. \/ file'.tasks[r[1]].attempts = file.tasks[r[1]].attempts
                  \/ file'.tasks[r[1]].attempts = file.tasks[r[1]].attempts + 1
                BY <1>3, <1>4, <1>5, <3>1
            <4>3. runners'[r].run = runners[r].run /\ runNo' = runNo + 1
                BY <1>2, <1>7, <3>3
            <4> QED
                BY <3>1, <4>1, <4>2, <4>3
        <3> QED
            BY <3>2, <3>3
    <2>6. RequestsBegan'
        BY <2>5 DEF RequestsBegan
    <2> QED
        BY <2>4, <2>6
<1>12. LeaseHeld'
    BY <1>3, <1>10 DEF LeaseHeld
<1>13. FileWhole'
    BY <1>2, <1>10 DEF FileWhole, IsAt, Active
<1>14. CopyFresh'
    <2>1. \A r \in Request : /\ ~ IsAt(r, {"load"})' /\ ~ IsAt(r, {"truncate", "write"})'
                             /\ IsAt(r, {"truncate", "write", "done"})' =>
                                    /\ IsAt(r, {"truncate", "write", "done"})
                                    /\ runners'[r] = runners[r]
        BY <1>6, <1>7, <1>10 DEF IsAt, Active
    <2> QED
        BY <2>1 DEF SequentialInv, CopyFresh
<1>15. StatusStays'
    <2>1. SUFFICES ASSUME NEW r \in Request, IsAt(r, {"done"})', file'.tasks[r[1]].attempts = r[2]
                   PROVE  file'.tasks[r[1]].status = runners'[r].status
        BY DEF StatusStays
    <2>2. ~ begins(r) /\ runners'[r] = runners[r] /\ runners[r].pc = "done" /\ r[1] \in Task
        BY <1>6, <1>7, <2>1, RequestFacts DEF IsAt
    <2>3. r[1] \notin claimed
        BY <1>3, <2>1, <2>2
    <2>4. file.tasks[r[1]].attempts = r[2]
        BY <1>4, <1>5, <2>1, <2>2, <2>3
    <2>5. /\ file.tasks[r[1]].status = runners[r].status /\ runners[r].status \in Final
          /\ runners[r].status = "retry_wait" => r[2] < MaxAttempts
        BY <2>2, <2>4 DEF SequentialInv, StatusStays, CopyFresh, IsAt
    <2>6. r[1] \notin S
        <3>1. SUFFICES ASSUME r[1] \in S PROVE FALSE
            OBVIOUS
        <3>2. runners[r].status = "retry_wait"
            BY <2>5, <3>1 DEF Claimable, Final
        <3> QED
            BY <2>3, <2>4, <2>5, <3>1, <3>2 DEF HasAttemptLeft
    <2> QED
        BY <1>5, <2>2, <2>5, <2>6
<1> QED
    BY <1>11, <1>12, <1>13, <1>14, <1>15 DEF SequentialInv

\* A run ends when all is done, and a crash takes what is open with it.
LEMMA EndRunKeeps ==
    ASSUME TypeOK, SequentialInv, EndRun
    PROVE  SequentialInv'
<1>1. UNCHANGED <<file, runners, runNo, delaysFit>> /\ ~ lockHeld'
    BY DEF EndRun
<1>2. \A r \in Request : ~ IsOpen(r)
    BY DEF EndRun, RunnersOf, SequentialInv, SoleRunner, IsOpen, IsAt, Active
<1>3. \A r \in Request : ~ IsOpen(r)' /\ (IsStranded(r)' => IsStranded(r))
    BY <1>1, <1>2 DEF IsOpen, IsStranded, IsAt
<1> QED
    BY <1>1, <1>2, <1>3
    DEF SequentialInv, SoleRunner, RequestsBegan, LeaseHeld, FileWhole, CopyFresh, StatusStays,
        Persisted, IsAt, IsOpen

LEMMA CrashKeeps ==
    ASSUME TypeOK, SequentialInv, Crash
    PROVE  SequentialInv'
<1>1. UNCHANGED <<file, runNo>> /\ ~ lockHeld'
    BY DEF Crash
<1>2. \A r \in Request : ~ IsOpen(r)' /\ (runners'[r] = runners[r] \/ runners'[r].pc = "none")
    BY DEF Crash, NoRunner, SequentialInv, SoleRunner, IsOpen, IsAt, Active
<1>3. \A r \in Request : /\ ~ IsAt(r, Active)' /\ ~ IsAt(r, {"write"})'
                         /\ ~ IsAt(r, {"load"})' /\ ~ IsAt(r, {"truncate", "write"})'
    BY <1>2 DEF IsOpen, IsAt, Active
<1>4. \A r \in Request : /\ IsAt(r, {"rejected"})' => IsAt(r, {"rejected"})
                         /\ IsAt(r, {"truncate", "write", "done"})' =>
                                IsAt(r, {"done"}) /\ runners'[r] = runners[r]
                         /\ IsAt(r, {"done"})' => IsAt(r, {"done"}) /\ runners'[r] = runners[r]
    BY <1>2, <1>3 DEF IsAt
<1>5. \A r \in Request : IsAt(r, {"done"}) => IsAt(r, {"truncate", "write", "done"})
    BY DEF IsAt
<1>6. SoleRunner'
    <2>1. lockHeld /\ \A r \in Request : runners[r].run # runNo => runners'[r] = runners[r]
        BY DEF Crash
    <2>2. ASSUME NEW r \in Request, IsAt(r, {"rejected"})'
          PROVE  ~ delaysFit'
        BY <1>4, <2>2 DEF SequentialInv, SoleRunner, Crash
    <2>3. ASSUME NEW r \in Request, IsStranded(r)'
          PROVE  \E q \in Request : IsAt(q, {"rejected"})' /\ runners'[q].run = runners'[r].run
        <3>1. runners'[r] = runners[r] /\ IsAt(r, {"queued"}) /\ runners[r].run # runNo
            BY <2>3 DEF Crash, NoRunner, IsStranded, IsAt
        <3>2. PICK q \in Request : IsAt(q, {"rejected"}) /\ runners[q].run = runners[r].run
            BY <3>1 DEF SequentialInv, SoleRunner, IsStranded, IsOpen, IsAt, Active
        <3> QED
            BY <2>1, <3>1, <3>2 DEF IsAt
    <2> QED
        BY <1>1, <1>3, <2>2, <2>3 DEF SoleRunner
<1>7. RequestsBegan'
    BY <1>1, <1>2 DEF SequentialInv, RequestsBegan, IsAt
<1> QED
    BY <1>1, <1>2, <1>3, <1>4, <1>5, <1>6, <1>7
    DEF SequentialInv, LeaseHeld, FileWhole, CopyFresh, StatusStays

LEMMA SequentialStep ==
    ASSUME TypeOK, SequentialInv, poolSize = 1, [Next]_vars
    PROVE  SequentialInv'
<1>1. ASSUME NEW r \in Request, RunnerStep(r)
      PROVE  SequentialInv'
    BY <1>1, StartKeeps, EndKeeps, LoadKeeps, ThrowKeeps, TruncateKeeps, WriteKeeps
    DEF RunnerStep
<1>2. CASE UNCHANGED vars
    <2>1. SoleRunner' /\ RequestsBegan'
        BY <1>2 DEF vars, SequentialInv, SoleRunner, RequestsBegan, IsOpen, IsStranded, IsAt
    <2>2. LeaseHeld' /\ FileWhole' /\ StatusStays'
        BY <1>2 DEF vars, SequentialInv, LeaseHeld, FileWhole, StatusStays, IsOpen, IsAt
    <2>3. CopyFresh'
        BY <1>2 DEF vars, SequentialInv, CopyFresh, Persisted, IsAt
    <2> QED
        BY <2>1, <2>2, <2>3 DEF SequentialInv
<1> QED
    BY <1>1, <1>2, RunKeeps, EndRunKeeps, CrashKeeps DEF Next

-----------------------------------------------------------------------------
(* The theorems.                                                           *)

\* The inductive invariant: types, and for a pool of one runner that the runner's
\* copy is the file with its own change, under its own lease, while nobody else
\* writes (dispatchRequests, the persisters, saveState).
THEOREM PoolInvariant == Spec => []PoolInv
<1>1. Init => PoolInv
    BY PoolTypeInit, SequentialInit DEF PoolInv
<1>2. PoolInv /\ [Next]_vars => PoolInv'
    <2>1. [Next]_vars => UNCHANGED poolSize
        BY DEF Next, vars, StartRun, RunnerStep, StartExecution, EndExecution, LoadState,
               LoadFails, Truncate, Write, EndRun, Crash
    <2> QED
        BY <2>1, PoolTypeStep, SequentialStep DEF PoolInv
<1> QED
    BY <1>1, <1>2, PTL DEF Spec

\* The file, the runners and their copies keep their types, whatever the pool's
\* size (dispatchRequests, saveState).
THEOREM PoolTypes == Spec => []TypeOK
<1>1. PoolInv => TypeOK
    BY DEF PoolInv
<1> QED
    BY <1>1, PoolInvariant, PTL

\* With one runner every outcome that a runner reports is the one in state.json,
\* through crashes, retries and lapsed leases, and where base_delay_ms is at most
\* max_delay_ms no failure rejects the batch (dispatchRequests, applyResult, applyProviderRetry,
\* applyPermanentProviderFailure, failLeasedTask).
THEOREM SequentialPoolIsSound == Spec => []SequentialPoolSound
<1>1. PoolInv => SequentialPoolSound
    BY DEF PoolInv, SequentialPoolSound, SequentialInv, SoleRunner, StatusStays, IsAt,
           OutcomePersisted, BatchNeverRejects, AtPC
<1> QED
    BY <1>1, PoolInvariant, PTL

\* With one runner the three steps of a save act as one: whenever the tasks in
\* state.json change, a run claims tasks, or the agent run that just ended settles
\* its own task, which is under its lease, and leaves every other task as it is; an
\* attempt is left for a retry. This is the step by which WorkflowRuntime
\* models applyResult and its siblings.
SavesAreAtomic ==
    [][poolSize = 1 /\ file'.tasks # file.tasks =>
          \/ StartRun
          \/ \E r \in Request, s \in Final :
                /\ file.tasks[r[1]].status = "in_progress" /\ file.tasks[r[1]].lease = r[2]
                /\ s = "retry_wait" => file.tasks[r[1]].attempts < MaxAttempts
                /\ file' = [content |-> "valid",
                            tasks |-> [file.tasks EXCEPT ![r[1]].status = s,
                                                         ![r[1]].lease = 0]]]_vars

\* A save is one step to everybody else while the pool has one runner, although it
\* is a load, a truncation and a write (workflow-mutator.ts, workflow-store.ts saveState).
THEOREM SequentialSavesAreAtomic == Spec => SavesAreAtomic
<1>1. ASSUME PoolInv, [Next]_vars, poolSize = 1, file'.tasks # file.tasks, ~ StartRun
      PROVE  \E r \in Request, s \in Final :
                /\ file.tasks[r[1]].status = "in_progress" /\ file.tasks[r[1]].lease = r[2]
                /\ s = "retry_wait" => file.tasks[r[1]].attempts < MaxAttempts
                /\ file' = [content |-> "valid",
                            tasks |-> [file.tasks EXCEPT ![r[1]].status = s,
                                                         ![r[1]].lease = 0]]
    <2>1. \A r \in Request : Truncate(r) => file'.tasks = file.tasks
        BY <1>1 DEF Truncate, PoolInv, TypeOK
    <2>2. PICK r \in Request : Write(r)
        BY <1>1, <2>1
        DEF Next, vars, RunnerStep, StartExecution, EndExecution, LoadState, LoadFails, EndRun, Crash
    <2>3. runners[r].pc = "write"
        BY <2>2 DEF Write
    <2>4. /\ runners[r].copy = Persisted(r) /\ file.content = "empty"
          /\ runners[r].status \in Final
          /\ runners[r].status = "retry_wait" => r[2] < MaxAttempts
        BY <1>1, <2>3 DEF PoolInv, SequentialInv, CopyFresh, FileWhole, IsAt
    <2>5. /\ file.tasks[r[1]].status = "in_progress"
          /\ file.tasks[r[1]].attempts = r[2] /\ file.tasks[r[1]].lease = r[2]
        BY <1>1, <2>3 DEF PoolInv, SequentialInv, LeaseHeld, IsOpen, IsAt, Active
    <2>6. file' = [content |-> "valid", tasks |-> runners[r].copy]
        BY <2>2, <2>4 DEF Write
    <2> QED
        BY <2>4, <2>5, <2>6 DEF Persisted
<1>2. PoolInv /\ [Next]_vars =>
        [poolSize = 1 /\ file'.tasks # file.tasks =>
          \/ StartRun
          \/ \E r \in Request, s \in Final :
                /\ file.tasks[r[1]].status = "in_progress" /\ file.tasks[r[1]].lease = r[2]
                /\ s = "retry_wait" => file.tasks[r[1]].attempts < MaxAttempts
                /\ file' = [content |-> "valid",
                            tasks |-> [file.tasks EXCEPT ![r[1]].status = s,
                                                         ![r[1]].lease = 0]]]_vars
    BY <1>1
<1> QED
    BY <1>2, PoolInvariant, PTL DEF Spec, SavesAreAtomic
=============================================================================
