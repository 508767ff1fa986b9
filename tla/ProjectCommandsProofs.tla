----------------------- MODULE ProjectCommandsProofs -----------------------
(***************************************************************************)
(* State, history and selection agree whatever commands work in a project, *)
(* one after the other or beside `amiral status`, and wherever they die.   *)
(***************************************************************************)
EXTENDS ProjectCommands, FiniteSetTheorems, TLAPS

Resolving == {"resolve", "check", "list", "adopt", "adopting"}
Saving == {"save", "saving"}
Appending == {"append", "appending"}
Pointing == {"point", "pointing"}
Unpointing == {"unpoint", "unlink"}
Evaluating == {"work", "evaluate"}

\* What a command was told to do, as far as the step it is at says so.
JobInv ==
    \A c \in Command :
        /\ at[c] \in Saving \cup Appending =>
            job[c] \in {"create", "run", "claim", "retry", "cancel"}
        /\ at[c] \in Pointing => job[c] \in {"create", "use"}
        /\ at[c] \in Unpointing => job[c] = "cancel"
        /\ at[c] \in Evaluating => job[c] = "run"
        /\ at[c] \in Resolving => job[c] \in {"run", "retry", "status"}
        /\ at[c] = "load" => job[c] \in {"run", "retry", "cancel", "status"}
        /\ at[c] \in {"body", "release", "new", "crashed"} => job[c] # "status"

IsBusy(c) == at[c] \notin {"new", "ended", "crashed"}

\* A command that is busy has the lock, unless it does without one.
HoldingInv ==
    /\ \A c \in Command : IsBusy(c) /\ job[c] # "status" => holder = {c}
    /\ \A c \in holder : c \in Command /\ IsBusy(c) /\ job[c] # "status" /\ holder = {c}

IsOne(s) == \E w \in present : s = {w}

AtOne ==
    {"check", "adopt", "adopting", "load"} \cup Saving \cup Appending \cup Pointing
        \cup Unpointing \cup Evaluating

\* A command works on one workflow, and one is selected at most.
OneInv ==
    /\ \A c \in Command : at[c] \in AtOne => IsOne(on[c])
    /\ pointer = {} \/ IsOne(pointer)
    /\ chosen = {} \/ IsOne(chosen)

\* What is to be saved may be, and what was saved was made.
SaveInv ==
    /\ \A w \in Workflow \ present : made[w] = 0 /\ history[w] = {}
    /\ \A w \in loadable : made[w] > 0
    /\ \A c \in Command : \A w \in on[c] :
        /\ at[c] \in Saving \/ (at[c] \in Appending /\ job[c] = "claim") => made[w] < MaxSaves
        /\ at[c] \in Pointing \/ (at[c] \in Appending /\ job[c] # "claim") => made[w] > 0

\* The event being written, if any, is of the last state, or for a claim of the next.
Last(c, w) == IF job[c] = "claim" THEN made[w] + 1 ELSE made[w]

Bound(w) == IF w \in early THEN made[w] + 1 ELSE made[w]

\* No event is of a state that was never saved, but for those recorded early.
BoundInv ==
    /\ \A w \in Workflow : history[w] \subseteq 1 .. Bound(w)
    /\ \A c \in Command : \A w \in on[c] :
        /\ at[c] \in Appending /\ job[c] # "claim" => w \notin early
        /\ at[c] = "appending" => memory[c] \subseteq 1 .. Last(c, w)

\* Until somebody dies the history is complete, but for what its holder is about
\* to record, has in memory or has recorded early.
CompleteInv ==
    Dead = {} =>
        /\ \A w \in Workflow :
            (\A c \in holder : ~ (w \in on[c] /\ at[c] \in Saving \cup Appending)) =>
                history[w] = 1 .. made[w]
        /\ \A c \in holder : \A w \in on[c] :
            /\ at[c] \in Saving => history[w] = 1 .. Last(c, w)
            /\ at[c] = "append" => history[w] = 1 .. Last(c, w) - 1
            /\ at[c] = "appending" => memory[c] = 1 .. Last(c, w)

\* Whoever is about to remove the selection has the one that was chosen.
UnlinkInv ==
    ~ overtaken => \A c \in Command : at[c] = "unlink" => chosen = on[c]

CommandsInv ==
    /\ TypeOK
    /\ JobInv
    /\ HoldingInv
    /\ OneInv
    /\ SaveInv
    /\ BoundInv
    /\ CompleteInv
    /\ UnlinkInv
    /\ SelectionStands

-----------------------------------------------------------------------------
(* The steps.                                                              *)

LEMMA StepCases ==
    ASSUME [Next]_vars
    PROVE  \/ \E c \in Command :
               \/ Status(c) \/ AcquireLock(c) \/ RefuseHeld(c) \/ UseStore(c)
               \/ EvaluateVisualQA(c) \/ UseServer(c) \/ ServerExits(c)
               \/ ReleaseLock(c) \/ Crash(c)
           \/ UNCHANGED vars
BY DEF Next, Work

\* What the Visual QA of a command changes.
Serves(c) ==
    /\ UNCHANGED <<holder, job, on, stateFiles, historyFiles, selection>>
    /\ \/ at' = at
       \/ at[c] \in Evaluating /\ \E s \in Evaluating : at' = [at EXCEPT ![c] = s]

LEMMA ServerServes ==
    ASSUME NEW c, EvaluateVisualQA(c) \/ UseServer(c) \/ ServerExits(c)
    PROVE  Serves(c)
BY DEF EvaluateVisualQA, UseServer, ServerExits, Serves, storeVars, Evaluating, Store!Go

\* The files and the selection stay as they are.
Files == <<stateFiles, historyFiles, selection>>

-----------------------------------------------------------------------------
(* Jobs and the lock.                                                      *)

LEMMA JobInit == Init => JobInv
BY DEF Init, Store!Init, JobInv, Saving, Appending, Pointing, Unpointing, Evaluating, Resolving

LEMMA JobStep ==
    ASSUME TypeOK, JobInv, [Next]_vars
    PROVE  JobInv'
<1> USE DEF JobInv, Saving, Appending, Pointing, Unpointing, Evaluating, Resolving, Store!Go,
            Store!End
<1>1. at \in [Command -> Store!At] /\ job \in [Command -> Store!Job]
    BY DEF TypeOK, Store!TypeOK
<1>2. ASSUME NEW c \in Command, Status(c) \/ AcquireLock(c) \/ RefuseHeld(c)
      PROVE  JobInv'
    BY <1>1, <1>2 DEF Status, AcquireLock, RefuseHeld
<1>3. ASSUME NEW c \in Command, Serves(c)
      PROVE  JobInv'
    BY <1>1, <1>3 DEF Serves
<1>4. ASSUME NEW c \in Command, ReleaseLock(c) \/ Crash(c)
      PROVE  JobInv'
    BY <1>1, <1>4 DEF ReleaseLock, Crash, Leave
<1>5. ASSUME NEW c \in Command, Store!Resolve(c)
      PROVE  JobInv'
    <2>1. CASE Store!ReadPointer(c) \/ Store!CheckActive(c) \/ Store!ListWorkflows(c)
        BY <1>1, <2>1
        DEF Store!ReadPointer, Store!CheckActive, Store!ListWorkflows, Store!commandState
    <2>2. CASE Store!AdoptTruncates(c) \/ Store!AdoptWrites(c)
        BY <1>1, <2>2 DEF Store!AdoptTruncates, Store!AdoptWrites, Store!commandState
    <2>3. CASE Store!Load(c)
        BY <1>1, <2>3 DEF Store!Load, Store!commandState
    <2> QED
        BY <1>5, <2>1, <2>2, <2>3 DEF Store!Resolve
<1>6. ASSUME NEW c \in Command, Store!Mutate(c)
      PROVE  JobInv'
    <2>1. CASE Store!CreateWorkflow(c) \/ Store!OmitWorkflow(c)
        BY <1>1, <2>1 DEF Store!CreateWorkflow, Store!OmitWorkflow
    <2>2. CASE Store!NameWorkflow(c)
        BY <1>1, <2>2 DEF Store!NameWorkflow
    <2>3. CASE Store!Change(c) \/ Store!RecordFirst(c) \/ Store!Finish(c)
        BY <1>1, <2>3 DEF Store!Change, Store!RecordFirst, Store!Finish, Store!commandState
    <2>4. CASE Store!SaveTruncates(c) \/ Store!SaveWrites(c)
        BY <1>1, <2>4 DEF Store!SaveTruncates, Store!SaveWrites, Store!commandState
    <2>5. CASE Store!AppendTruncates(c)
        BY <1>1, <2>5 DEF Store!AppendTruncates, Store!commandState
    <2>6. CASE Store!AppendWrites(c)
        <3>1. job[c] \in {"create", "run", "claim", "retry", "cancel"}
            BY <2>6 DEF Store!AppendWrites
        <3>2. \/ job[c] = "create" /\ at' = [at EXCEPT ![c] = "point"]
              \/ job[c] = "cancel" /\ at' = [at EXCEPT ![c] = "unpoint"]
              \/ job[c] = "claim" /\ at' = [at EXCEPT ![c] = "save"]
              \/ job[c] = "run" /\ at' = [at EXCEPT ![c] = "work"]
              \/ job[c] = "retry" /\ at' = [at EXCEPT ![c] = "release"]
            BY <2>6, <3>1 DEF Store!AppendWrites
        <3>3. UNCHANGED job
            BY <2>6 DEF Store!AppendWrites, Store!commandState
        <3> QED
            BY <1>1, <3>2, <3>3
    <2>7. CASE Store!PointTruncates(c)
        BY <1>1, <2>7 DEF Store!PointTruncates, Store!commandState
    <2>9. CASE Store!PointWrites(c)
        BY <1>1, <2>9 DEF Store!PointWrites, Store!commandState
    <2>8. CASE Store!Unpoint(c) \/ Store!Unlink(c)
        BY <1>1, <2>8 DEF Store!Unpoint, Store!Unlink, Store!commandState
    <2> QED
        BY <1>6, <2>1, <2>2, <2>3, <2>4, <2>5, <2>6, <2>7, <2>8, <2>9 DEF Store!Mutate
<1>7. CASE UNCHANGED vars
    BY <1>7 DEF vars, storeVars
<1> QED
    BY StepCases, ServerServes, <1>2, <1>3, <1>4, <1>5, <1>6, <1>7 DEF UseStore

\* A step of a command that keeps it busy, without the lock changing hands.
GoesOn(c) ==
    /\ UNCHANGED holder
    /\ IsBusy(c)
    /\ IsBusy(c)' \/ job[c] = "status"
    /\ job'[c] = "status" <=> job[c] = "status"
    /\ \A d \in Command \ {c} : job'[d] = job[d] /\ (IsBusy(d)' <=> IsBusy(d))

LEMMA StoreGoesOn ==
    ASSUME TypeOK, JobInv, NEW c \in Command, UseStore(c)
    PROVE  GoesOn(c)
<1> USE DEF JobInv, Saving, Appending, Pointing, Unpointing, Evaluating, Resolving, Store!Go,
            Store!End, IsBusy, GoesOn, UseStore
<1>1. at \in [Command -> Store!At] /\ job \in [Command -> Store!Job]
    BY DEF TypeOK, Store!TypeOK
<1>2. CASE Store!Resolve(c)
    <2>1. CASE Store!ReadPointer(c) \/ Store!CheckActive(c) \/ Store!ListWorkflows(c)
        BY <1>1, <2>1
        DEF Store!ReadPointer, Store!CheckActive, Store!ListWorkflows, Store!commandState
    <2>2. CASE Store!AdoptTruncates(c) \/ Store!AdoptWrites(c)
        BY <1>1, <2>2 DEF Store!AdoptTruncates, Store!AdoptWrites, Store!commandState
    <2>3. CASE Store!Load(c)
        BY <1>1, <2>3 DEF Store!Load, Store!commandState
    <2> QED
        BY <1>2, <2>1, <2>2, <2>3 DEF Store!Resolve
<1>3. CASE Store!Mutate(c)
    <2>1. CASE Store!CreateWorkflow(c) \/ Store!OmitWorkflow(c)
        BY <1>1, <2>1 DEF Store!CreateWorkflow, Store!OmitWorkflow
    <2>2. CASE Store!NameWorkflow(c)
        BY <1>1, <2>2 DEF Store!NameWorkflow
    <2>3. CASE Store!Change(c) \/ Store!RecordFirst(c) \/ Store!Finish(c)
        BY <1>1, <2>3 DEF Store!Change, Store!RecordFirst, Store!Finish, Store!commandState
    <2>4. CASE Store!SaveTruncates(c) \/ Store!SaveWrites(c)
        BY <1>1, <2>4 DEF Store!SaveTruncates, Store!SaveWrites, Store!commandState
    <2>5. CASE Store!AppendTruncates(c)
        BY <1>1, <2>5 DEF Store!AppendTruncates, Store!commandState
    <2>6. CASE Store!AppendWrites(c)
        BY <1>1, <2>6 DEF Store!AppendWrites, Store!commandState
    <2>7. CASE Store!PointTruncates(c) \/ Store!PointWrites(c)
        BY <1>1, <2>7 DEF Store!PointTruncates, Store!PointWrites, Store!commandState
    <2>8. CASE Store!Unpoint(c) \/ Store!Unlink(c)
        BY <1>1, <2>8 DEF Store!Unpoint, Store!Unlink, Store!commandState
    <2> QED
        BY <1>3, <2>1, <2>2, <2>3, <2>4, <2>5, <2>6, <2>7, <2>8 DEF Store!Mutate
<1> QED
    BY <1>2, <1>3

LEMMA HoldingInit == Init => HoldingInv
BY DEF Init, Lock!Init, Store!Init, HoldingInv, IsBusy

LEMMA HoldingStep ==
    ASSUME TypeOK, JobInv, HoldingInv, [Next]_vars
    PROVE  HoldingInv'
<1> USE DEF HoldingInv, IsBusy, Store!Go
<1>1. at \in [Command -> Store!At] /\ job \in [Command -> Store!Job]
    BY DEF TypeOK, Store!TypeOK
<1>2. ASSUME NEW c \in Command, Status(c) \/ RefuseHeld(c)
      PROVE  HoldingInv'
    BY <1>1, <1>2 DEF Status, RefuseHeld
<1>3. ASSUME NEW c \in Command, AcquireLock(c)
      PROVE  HoldingInv'
    BY <1>1, <1>3 DEF AcquireLock, Lock!Acquire, JobInv
<1>4. ASSUME NEW c \in Command, Serves(c)
      PROVE  HoldingInv'
    BY <1>1, <1>4 DEF Serves, Evaluating
<1>5. ASSUME NEW c \in Command, ReleaseLock(c)
      PROVE  HoldingInv'
    BY <1>1, <1>5 DEF ReleaseLock, Leave, Lock!Release
<1>6. ASSUME NEW c \in Command, Crash(c)
      PROVE  HoldingInv'
    BY <1>1, <1>6 DEF Crash, Leave
<1>7. ASSUME NEW c \in Command, UseStore(c)
      PROVE  HoldingInv'
    BY <1>7, StoreGoesOn DEF GoesOn
<1>8. CASE UNCHANGED vars
    BY <1>8 DEF vars, storeVars
<1> QED
    BY StepCases, ServerServes, <1>2, <1>3, <1>4, <1>5, <1>6, <1>7, <1>8

-----------------------------------------------------------------------------
(* One workflow for a command, and one selection.                          *)

LEMMA OneInit == Init => OneInv
BY DEF Init, Store!Init, OneInv, IsOne, AtOne, Saving, Appending, Pointing, Unpointing,
       Evaluating

LEMMA SameCardinality ==
    ASSUME NEW S
    PROVE  Store!Cardinality(S) = Cardinality(S)
BY DEF Store!Cardinality, Cardinality, Store!IsFiniteSet, IsFiniteSet

\* A listing that has one workflow.
LEMMA SoleWorkflow ==
    ASSUME TypeOK, Store!Cardinality(present) = 1
    PROVE  IsOne(present)
<1>1. IsFiniteSet(present)
    BY CommandsAssumption, FS_Subset DEF TypeOK, Store!TypeOK
<1>2. PICK w : present = {w}
    BY <1>1, SameCardinality, FS_Singleton
<1> QED
    BY <1>2 DEF IsOne

LEMMA OneStep ==
    ASSUME TypeOK, JobInv, OneInv, [Next]_vars
    PROVE  OneInv'
<1> USE DEF OneInv, IsOne, Store!Go, Store!End, Store!stateFiles, Store!historyFiles,
            Store!selection, Store!commandState
<1> USE DEF AtOne, Saving, Appending, Pointing, Unpointing, Evaluating
<1>1. /\ at \in [Command -> Store!At] /\ on \in [Command -> SUBSET Workflow]
      /\ loadable \subseteq present
    BY DEF TypeOK, Store!TypeOK
<1>2. ASSUME NEW c \in Command, Status(c) \/ AcquireLock(c) \/ RefuseHeld(c)
      PROVE  OneInv'
    BY <1>1, <1>2 DEF Status, AcquireLock, RefuseHeld, stateFiles, selection
<1>3. ASSUME NEW c \in Command, Serves(c)
      PROVE  OneInv'
    BY <1>1, <1>3 DEF Serves, stateFiles, selection
<1>4. ASSUME NEW c \in Command, ReleaseLock(c) \/ Crash(c)
      PROVE  OneInv'
    BY <1>1, <1>4 DEF ReleaseLock, Crash, Leave, stateFiles, selection
<1>5. ASSUME NEW c \in Command, Store!Resolve(c)
      PROVE  OneInv'
    <2>1. CASE Store!ReadPointer(c) \/ Store!CheckActive(c)
        BY <1>1, <2>1 DEF Store!ReadPointer, Store!CheckActive
    <2>2. CASE Store!ListWorkflows(c)
        <3>1. (IsOne(on'[c]) /\ at'[c] = "adopt") \/ at'[c] \notin AtOne
            BY <1>1, <2>2, SoleWorkflow DEF Store!ListWorkflows
        <3> QED
            BY <1>1, <2>2, <3>1 DEF Store!ListWorkflows
    <2>3. CASE Store!AdoptTruncates(c) \/ Store!AdoptWrites(c)
        BY <1>1, <2>3 DEF Store!AdoptTruncates, Store!AdoptWrites
    <2>4. CASE Store!Load(c)
        BY <1>1, <2>4 DEF Store!Load
    <2> QED
        BY <1>5, <2>1, <2>2, <2>3, <2>4 DEF Store!Resolve
<1>6. ASSUME NEW c \in Command, Store!Mutate(c)
      PROVE  OneInv'
    <2>1. CASE Store!CreateWorkflow(c) \/ Store!OmitWorkflow(c)
        BY <1>1, <2>1 DEF Store!CreateWorkflow, Store!OmitWorkflow
    <2>2. CASE Store!NameWorkflow(c)
        BY <1>1, <2>2 DEF Store!NameWorkflow
    <2>3. CASE Store!Change(c) \/ Store!RecordFirst(c) \/ Store!Finish(c)
        BY <1>1, <2>3 DEF Store!Change, Store!RecordFirst, Store!Finish
    <2>4. CASE Store!SaveTruncates(c) \/ Store!SaveWrites(c)
        BY <1>1, <2>4 DEF Store!SaveTruncates, Store!SaveWrites
    <2>5. CASE Store!AppendTruncates(c)
        BY <1>1, <2>5 DEF Store!AppendTruncates
    <2>6. CASE Store!AppendWrites(c)
        <3>1. job[c] \in {"create", "run", "claim", "retry", "cancel"}
            BY <2>6 DEF Store!AppendWrites, JobInv
        <3>2. \E s \in {"point", "unpoint", "save", "work", "release", "ended"} :
                at' = [at EXCEPT ![c] = s]
            BY <2>6, <3>1 DEF Store!AppendWrites
        <3>3. UNCHANGED <<on, pointer, chosen, present>> /\ at[c] = "appending"
            BY <2>6 DEF Store!AppendWrites
        <3> QED
            BY <1>1, <3>2, <3>3
    <2>7. CASE Store!PointTruncates(c) \/ Store!PointWrites(c)
        BY <1>1, <2>7 DEF Store!PointTruncates, Store!PointWrites
    <2>8. CASE Store!Unpoint(c) \/ Store!Unlink(c)
        BY <1>1, <2>8 DEF Store!Unpoint, Store!Unlink
    <2> QED
        BY <1>6, <2>1, <2>2, <2>3, <2>4, <2>5, <2>6, <2>7, <2>8
        DEF Store!Mutate
<1>7. CASE UNCHANGED vars
    BY <1>7 DEF vars, storeVars, stateFiles, selection
<1> QED
    BY StepCases, ServerServes, <1>2, <1>3, <1>4, <1>5, <1>6, <1>7 DEF UseStore

-----------------------------------------------------------------------------
(* What may be saved.                                                      *)

Locked == Saving \cup Appending \cup Pointing \cup Unpointing \cup Evaluating

\* Only the command that has the lock saves, records, selects or runs.
LEMMA Alone ==
    ASSUME JobInv, HoldingInv, NEW c \in Command, at[c] \in Locked
    PROVE  /\ holder = {c}
           /\ \A d \in Command : at[d] \in Locked => d = c
<1>1. \A d \in Command : at[d] \in Locked => job[d] # "status" /\ IsBusy(d)
    BY DEF JobInv, IsBusy, Locked, Saving, Appending, Pointing, Unpointing, Evaluating
<1> QED
    BY <1>1 DEF HoldingInv

LEMMA SaveInit == Init => SaveInv
BY CommandsAssumption
DEF Init, Store!Init, SaveInv, Saving, Appending, Pointing

LEMMA SaveStep ==
    ASSUME TypeOK, JobInv, HoldingInv, OneInv, SaveInv, [Next]_vars
    PROVE  SaveInv'
<1> USE DEF SaveInv, Store!Go, Store!End, Store!stateFiles, Store!historyFiles,
            Store!selection, Store!commandState
<1> USE DEF Saving, Appending, Pointing, Unpointing, Evaluating
<1>1. /\ at \in [Command -> Store!At] /\ on \in [Command -> SUBSET Workflow]
      /\ job \in [Command -> Store!Job] /\ loadable \subseteq present
      /\ present \subseteq Workflow /\ made \in [Workflow -> 0 .. MaxSaves]
      /\ DOMAIN history = Workflow /\ MaxSaves \in Nat \ {0}
    BY CommandsAssumption DEF TypeOK, Store!TypeOK
<1>2. ASSUME NEW c \in Command, Status(c) \/ AcquireLock(c) \/ RefuseHeld(c)
      PROVE  SaveInv'
    BY <1>1, <1>2 DEF Status, AcquireLock, RefuseHeld, stateFiles, historyFiles
<1>3. ASSUME NEW c \in Command, Serves(c)
      PROVE  SaveInv'
    BY <1>1, <1>3 DEF Serves, stateFiles, historyFiles
<1>4. ASSUME NEW c \in Command, ReleaseLock(c) \/ Crash(c)
      PROVE  SaveInv'
    BY <1>1, <1>4 DEF ReleaseLock, Crash, Leave, stateFiles
<1>5. ASSUME NEW c \in Command, Store!Resolve(c)
      PROVE  SaveInv'
    <2>1. CASE Store!ReadPointer(c)
        BY <1>1, <2>1 DEF Store!ReadPointer
    <2>2. CASE Store!CheckActive(c)
        BY <1>1, <2>2 DEF Store!CheckActive
    <2>3. CASE Store!ListWorkflows(c)
        BY <1>1, <2>3 DEF Store!ListWorkflows
    <2>4. CASE Store!AdoptTruncates(c) \/ Store!AdoptWrites(c)
        BY <1>1, <2>4 DEF Store!AdoptTruncates, Store!AdoptWrites
    <2>5. CASE Store!Load(c)
        BY <1>1, <2>5 DEF Store!Load
    <2> QED
        BY <1>5, <2>1, <2>2, <2>3, <2>4, <2>5 DEF Store!Resolve
<1>6. ASSUME NEW c \in Command, Store!Mutate(c)
      PROVE  SaveInv'
    <2>1. CASE Store!CreateWorkflow(c)
        BY <1>1, <2>1 DEF Store!CreateWorkflow
    <2>2. CASE Store!NameWorkflow(c)
        BY <1>1, <2>2 DEF Store!NameWorkflow
    <2>3. CASE Store!OmitWorkflow(c)
        BY <1>1, <2>3 DEF Store!OmitWorkflow
    <2>4. CASE Store!Change(c) \/ Store!RecordFirst(c) \/ Store!Finish(c)
        BY <1>1, <2>4, Alone DEF Store!Change, Store!RecordFirst, Store!Finish, Locked, JobInv
    <2>5. CASE Store!SaveTruncates(c)
        BY <1>1, <2>5 DEF Store!SaveTruncates
    <2>6. CASE Store!SaveWrites(c)
        <3>1. \A d \in Command : at[d] \in Locked => d = c
            BY <2>6, Alone DEF Store!SaveWrites, Locked
        <3>2. on[c] \subseteq present
            BY <1>1, <2>6 DEF OneInv, IsOne, AtOne, Store!SaveWrites
        <3>3. \A w \in on[c] : made[w] < MaxSaves /\ made'[w] = made[w] + 1
            BY <1>1, <2>6 DEF Store!SaveWrites
        <3>4. \A w \in Workflow \ on[c] : made'[w] = made[w]
            BY <1>1, <2>6 DEF Store!SaveWrites
        <3>5. (\A w \in Workflow \ present : made[w] = 0 /\ history[w] = {})'
            BY <1>1, <2>6, <3>2, <3>4 DEF Store!SaveWrites
        <3>6. (\A w \in loadable : made[w] > 0)'
            BY <1>1, <2>6, <3>3, <3>4 DEF Store!SaveWrites
        <3>7. \A d \in Command : d # c => at'[d] \notin Locked
            BY <1>1, <2>6, <3>1 DEF Store!SaveWrites
        <3>8. \/ at'[c] \in Evaluating
              \/ at'[c] \in Appending /\ job'[c] # "claim"
            BY <1>1, <2>6 DEF Store!SaveWrites
        <3>9. \A w \in on[c] : made'[w] > 0
            BY <1>1, <3>3
        <3>10. on' = on
            BY <2>6 DEF Store!SaveWrites
        <3> HIDE DEF SaveInv
        <3> QED
            BY <3>5, <3>6, <3>7, <3>8, <3>9, <3>10 DEF SaveInv, Locked
    <2>7. CASE Store!AppendTruncates(c)
        BY <1>1, <2>7 DEF Store!AppendTruncates, OneInv, IsOne, AtOne
    <2>8. CASE Store!AppendWrites(c)
        <3>1. job[c] \in {"create", "run", "claim", "retry", "cancel"}
            BY <2>8 DEF Store!AppendWrites, JobInv
        <3>2. \/ job[c] = "create" /\ at' = [at EXCEPT ![c] = "point"]
              \/ job[c] = "claim" /\ at' = [at EXCEPT ![c] = "save"]
              \/ \E s \in {"unpoint", "work", "release", "ended"} : at' = [at EXCEPT ![c] = s]
            BY <2>8, <3>1 DEF Store!AppendWrites
        <3>3. on[c] \subseteq present
            BY <2>8 DEF Store!AppendWrites, OneInv, IsOne, AtOne
        <3>4. \A w \in Workflow \ present : history'[w] = {}
            BY <1>1, <2>8, <3>3 DEF Store!AppendWrites
        <3>5. UNCHANGED <<on, job, present, loadable, made>> /\ at[c] = "appending"
            BY <2>8 DEF Store!AppendWrites
        <3> QED
            BY <1>1, <3>2, <3>4, <3>5
    <2>9. CASE Store!PointTruncates(c) \/ Store!PointWrites(c)
        BY <1>1, <2>9 DEF Store!PointTruncates, Store!PointWrites
    <2>10. CASE Store!Unpoint(c) \/ Store!Unlink(c)
        BY <1>1, <2>10 DEF Store!Unpoint, Store!Unlink
    <2> QED
        BY <1>6, <2>1, <2>2, <2>3, <2>4, <2>5, <2>6, <2>7, <2>8, <2>9, <2>10
        DEF Store!Mutate
<1>7. CASE UNCHANGED vars
    BY <1>7 DEF vars, storeVars, stateFiles, historyFiles
<1> QED
    BY StepCases, ServerServes, <1>2, <1>3, <1>4, <1>5, <1>6, <1>7 DEF UseStore

-----------------------------------------------------------------------------
(* Types.                                                                  *)

LEMMA OneSelection ==
    ASSUME OneInv
    PROVE  pointer \in SUBSET present /\ Store!Cardinality(pointer) <= 1
<1>1. CASE pointer = {}
    BY <1>1, SameCardinality, FS_EmptySet
<1>2. ASSUME NEW w \in present, pointer = {w}
      PROVE  pointer \in SUBSET present /\ Store!Cardinality(pointer) <= 1
    <2>1. Store!Cardinality(pointer) = Cardinality(pointer)
        BY SameCardinality
    <2>2. Cardinality({w}) = 1
        BY FS_Singleton
    <2> QED
        BY <1>2, <2>1, <2>2
<1> QED
    BY <1>1, <1>2 DEF OneInv, IsOne

LEMMA TypeInit == Init => TypeOK
<1> SUFFICES ASSUME Init
             PROVE  TypeOK
    OBVIOUS
<1>1. Server!TypeOK
    BY CommandsAssumption
    DEF Init, Server!Init, Server!TypeOK, Server!Stage, Server!Child
<1>2. pointer \in SUBSET present /\ Store!Cardinality(pointer) <= 1
    BY OneInit, OneSelection
<1>3. made \in [Workflow -> 0 .. MaxSaves]
    BY CommandsAssumption DEF Init, Store!Init
<1>4. history \in [Workflow -> SUBSET (1 .. MaxSaves)]
    BY <1>3, CommandsAssumption DEF Init, Store!Init
<1>5. memory \in [Command -> SUBSET (1 .. MaxSaves)]
    BY DEF Init, Store!Init
<1>6. Store!TypeOK
    BY <1>2, <1>3, <1>4, <1>5, CommandsAssumption
    DEF Init, Store!Init, Store!TypeOK, Store!At, Store!Job
<1> QED
    BY <1>1, <1>6 DEF TypeOK, Init, Lock!Init

\* What no step of the store leaves, but for the selection.
StoreTypes ==
    /\ present \subseteq Workflow
    /\ loadable \subseteq present
    /\ cancelled \subseteq present
    /\ history \in [Workflow -> SUBSET (1 .. MaxSaves)]
    /\ at \in [Command -> Store!At]
    /\ job \in [Command -> Store!Job]
    /\ on \in [Command -> SUBSET Workflow]
    /\ memory \in [Command -> SUBSET (1 .. MaxSaves)]
    /\ made \in [Workflow -> 0 .. MaxSaves]
    /\ early \subseteq present
    /\ chosen \subseteq present
    /\ adopted \subseteq present
    /\ overtaken \in BOOLEAN

LEMMA StoreTypesStep ==
    ASSUME TypeOK, JobInv, OneInv, SaveInv, [Next]_vars
    PROVE  StoreTypes'
<1> USE DEF StoreTypes, Store!Go, Store!End, Store!stateFiles, Store!historyFiles,
            Store!selection, Store!commandState
<1>1. StoreTypes /\ pointer \subseteq present
    BY DEF TypeOK, Store!TypeOK
<1>2. ASSUME NEW c \in Command, Status(c) \/ AcquireLock(c) \/ RefuseHeld(c)
      PROVE  StoreTypes'
    BY <1>1, <1>2
    DEF Status, AcquireLock, RefuseHeld, stateFiles, historyFiles, selection, Store!At, Store!Job
<1>3. ASSUME NEW c \in Command, Serves(c)
      PROVE  StoreTypes'
    BY <1>1, <1>3 DEF Serves, stateFiles, historyFiles, selection, Store!At, Evaluating
<1>4. ASSUME NEW c \in Command, ReleaseLock(c) \/ Crash(c)
      PROVE  StoreTypes'
    BY <1>1, <1>4
    DEF ReleaseLock, Crash, Leave, stateFiles, selection, Store!At, Store!Job
<1>5. ASSUME NEW c \in Command, Store!Resolve(c)
      PROVE  StoreTypes'
    <2>1. CASE Store!ReadPointer(c) \/ Store!CheckActive(c)
        BY <1>1, <2>1 DEF Store!ReadPointer, Store!CheckActive, Store!At
    <2>2. CASE Store!ListWorkflows(c)
        BY <1>1, <2>2 DEF Store!ListWorkflows, Store!At
    <2>3. CASE Store!AdoptTruncates(c)
        BY <1>1, <2>3 DEF Store!AdoptTruncates, Store!At
    <2>4. CASE Store!AdoptWrites(c)
        <3>1. on[c] \subseteq present
            BY <2>4 DEF Store!AdoptWrites, OneInv, IsOne, AtOne
        <3> QED
            BY <1>1, <2>4, <3>1 DEF Store!AdoptWrites, Store!At
    <2>5. CASE Store!Load(c)
        BY <1>1, <2>5 DEF Store!Load, Store!At
    <2> QED
        BY <1>5, <2>1, <2>2, <2>3, <2>4, <2>5 DEF Store!Resolve
<1>6. ASSUME NEW c \in Command, Store!Mutate(c)
      PROVE  StoreTypes'
    <2>a. at[c] \in AtOne => on[c] \subseteq present
        BY DEF OneInv, IsOne
    <2>1. CASE Store!CreateWorkflow(c)
        BY <1>1, <2>1 DEF Store!CreateWorkflow, Store!At, Store!Job
    <2>2. CASE Store!NameWorkflow(c)
        BY <1>1, <2>2 DEF Store!NameWorkflow, Store!At, Store!Job
    <2>3. CASE Store!OmitWorkflow(c)
        BY <1>1, <2>3 DEF Store!OmitWorkflow, Store!At, Store!Job
    <2>4. CASE Store!Change(c) \/ Store!RecordFirst(c) \/ Store!Finish(c)
        BY <1>1, <2>4
        DEF Store!Change, Store!RecordFirst, Store!Finish, Store!At, Store!Job
    <2>5. CASE Store!SaveTruncates(c)
        BY <1>1, <2>5 DEF Store!SaveTruncates, Store!At
    <2>6. CASE Store!SaveWrites(c)
        <3>1. on[c] \subseteq present
            BY <2>a, <2>6 DEF Store!SaveWrites, AtOne, Saving
        <3>2. \A w \in on[c] : made[w] < MaxSaves
            BY <2>6 DEF SaveInv, Saving, Store!SaveWrites
        <3>3. made' \in [Workflow -> 0 .. MaxSaves]
            BY <1>1, <2>6, <3>2, CommandsAssumption DEF Store!SaveWrites
        <3>4. at' \in [Command -> Store!At] /\ job' \in [Command -> Store!Job]
            BY <1>1, <2>6 DEF Store!SaveWrites, Store!At, Store!Job
        <3> QED
            BY <1>1, <2>6, <3>1, <3>3, <3>4 DEF Store!SaveWrites
    <2>7. CASE Store!AppendTruncates(c)
        <3>1. PICK w \in on[c] :
                /\ memory' = [memory EXCEPT ![c] = history[w] \cup {Store!Event(c, w)}]
                /\ history' = [history EXCEPT ![w] = {}]
            BY <2>7 DEF Store!AppendTruncates
        <3>2. Store!Event(c, w) \in 1 .. MaxSaves
            BY <1>1, <2>7, CommandsAssumption
            DEF Store!AppendTruncates, Store!Event, SaveInv, Appending
        <3> QED
            BY <1>1, <2>7, <3>1, <3>2 DEF Store!AppendTruncates, Store!At
    <2>8. CASE Store!AppendWrites(c)
        <3>1. on[c] \subseteq present
            BY <2>a, <2>8 DEF Store!AppendWrites, AtOne, Appending
        <3>2. job[c] \in {"create", "run", "claim", "retry", "cancel"}
            BY <2>8 DEF Store!AppendWrites, JobInv, Appending
        <3>3. at' \in [Command -> Store!At]
            BY <1>1, <2>8, <3>2 DEF Store!AppendWrites, Store!At
        <3> QED
            BY <1>1, <2>8, <3>1, <3>3 DEF Store!AppendWrites
    <2>9. CASE Store!PointTruncates(c)
        BY <1>1, <2>9 DEF Store!PointTruncates, Store!At
    <2>10. CASE Store!PointWrites(c)
        BY <1>1, <2>a, <2>10 DEF Store!PointWrites, Store!At, Store!Job, AtOne, Pointing
    <2>11. CASE Store!Unpoint(c) \/ Store!Unlink(c)
        BY <1>1, <2>11 DEF Store!Unpoint, Store!Unlink, Store!At
    <2> QED
        BY <1>6, <2>1, <2>2, <2>3, <2>4, <2>5, <2>6, <2>7, <2>8, <2>9, <2>10, <2>11
        DEF Store!Mutate
<1>7. CASE UNCHANGED vars
    BY <1>1, <1>7 DEF vars, storeVars, stateFiles, historyFiles, selection
<1> QED
    BY StepCases, ServerServes, <1>2, <1>3, <1>4, <1>5, <1>6, <1>7 DEF UseStore

LEMMA ServerTypesStep ==
    ASSUME TypeOK, [Next]_vars
    PROVE  Server!TypeOK'
<1> USE DEF Server!TypeOK, Server!Go, Server!Stage, Server!Child
<1>1. Server!TypeOK /\ MaxPolls \in Nat
    BY CommandsAssumption DEF TypeOK
<1>2. ASSUME UNCHANGED serverVars
      PROVE  Server!TypeOK'
    BY <1>1, <1>2 DEF serverVars
<1>3. ASSUME NEW c \in Command, UseServer(c)
      PROVE  Server!TypeOK'
    <2>1. CASE Server!ProbeFirst(c) \/ Server!GiveUp(c)
        BY <1>1, <2>1 DEF Server!ProbeFirst, Server!GiveUp
    <2>2. CASE Server!Poll(c) \/ Server!ProbeAgain(c)
        BY <1>1, <2>2 DEF Server!Poll, Server!ProbeAgain
    <2>3. CASE Server!Evaluate(c) \/ Server!Terminate(c) \/ Server!Shutdown(c)
        BY <1>1, <2>3 DEF Server!Evaluate, Server!Terminate, Server!Shutdown
    <2> QED
        BY <1>3, <2>1, <2>2, <2>3 DEF UseServer, Server!Step
<1>4. ASSUME NEW c \in Command, ServerExits(c)
      PROVE  Server!TypeOK'
    BY <1>1, <1>4 DEF ServerExits, Server!Exit
<1>5. ASSUME NEW c \in Command,
             \/ Status(c) \/ AcquireLock(c) \/ RefuseHeld(c) \/ UseStore(c)
             \/ EvaluateVisualQA(c) \/ ReleaseLock(c) \/ Crash(c)
      PROVE  UNCHANGED serverVars
    BY <1>5 DEF Status, AcquireLock, RefuseHeld, UseStore, EvaluateVisualQA, ReleaseLock,
                Crash, Leave
<1> QED
    BY StepCases, <1>2, <1>3, <1>4, <1>5 DEF vars

LEMMA TypeStep ==
    ASSUME TypeOK, JobInv, OneInv, SaveInv, OneInv', HoldingInv', [Next]_vars
    PROVE  TypeOK'
<1>1. StoreTypes'
    BY StoreTypesStep
<1>2. (pointer \in SUBSET present /\ Store!Cardinality(pointer) <= 1)'
    BY OneSelection, PTL
<1>3. Store!TypeOK'
    BY <1>1, <1>2 DEF StoreTypes, Store!TypeOK
<1>4. (holder \subseteq Command)'
    BY DEF HoldingInv
<1> QED
    BY <1>3, <1>4, ServerTypesStep DEF TypeOK

-----------------------------------------------------------------------------
(* No event without its state.                                             *)

LEMMA BoundInit == Init => BoundInv
<1> SUFFICES ASSUME Init
             PROVE  BoundInv
    OBVIOUS
<1>1. \A w \in Workflow : history[w] = 1 .. made[w] /\ made[w] \in Nat
    BY DEF Init, Store!Init
<1>2. \A w \in Workflow : history[w] \subseteq 1 .. Bound(w)
    BY <1>1 DEF Bound
<1> QED
    BY <1>2 DEF BoundInv, Init, Store!Init, Appending

\* What a step leaves that changes neither an event nor a state saved.
LEMMA BoundKept ==
    ASSUME BoundInv,
           UNCHANGED <<history, made, early>>,
           \A d \in Command : at'[d] \in Appending =>
               at[d] = at'[d] /\ on'[d] = on[d] /\ memory'[d] = memory[d] /\ job'[d] = job[d]
    PROVE  BoundInv'
<1>1. (\A w \in Workflow : history[w] \subseteq 1 .. Bound(w))'
    BY DEF BoundInv, Bound
<1>2. (\A d \in Command : \A w \in on[d] :
        /\ at[d] \in Appending /\ job[d] # "claim" => w \notin early
        /\ at[d] = "appending" => memory[d] \subseteq 1 .. Last(d, w))'
    BY DEF BoundInv, Last, Appending
<1> QED
    BY <1>1, <1>2 DEF BoundInv

LEMMA BoundStep ==
    ASSUME TypeOK, JobInv, HoldingInv, OneInv, SaveInv, BoundInv, [Next]_vars
    PROVE  BoundInv'
<1> USE DEF Store!Go, Store!End, Store!stateFiles, Store!historyFiles,
            Store!selection, Store!commandState, Appending
<1>1. /\ at \in [Command -> Store!At] /\ on \in [Command -> SUBSET Workflow]
      /\ job \in [Command -> Store!Job] /\ made \in [Workflow -> 0 .. MaxSaves]
      /\ memory \in [Command -> SUBSET (1 .. MaxSaves)]
      /\ history \in [Workflow -> SUBSET (1 .. MaxSaves)]
    BY DEF TypeOK, Store!TypeOK
<1>2. ASSUME NEW c \in Command, Status(c) \/ AcquireLock(c) \/ RefuseHeld(c)
      PROVE  BoundInv'
    BY <1>1, <1>2, BoundKept DEF Status, AcquireLock, RefuseHeld, stateFiles, historyFiles
<1>3. ASSUME NEW c \in Command, Serves(c)
      PROVE  BoundInv'
    BY <1>1, <1>3, BoundKept DEF Serves, stateFiles, historyFiles, Evaluating
<1>4. ASSUME NEW c \in Command, ReleaseLock(c) \/ Crash(c)
      PROVE  BoundInv'
    BY <1>1, <1>4, BoundKept DEF ReleaseLock, Crash, Leave, stateFiles
<1>5. ASSUME NEW c \in Command, Store!Resolve(c)
      PROVE  BoundInv'
    <2>1. CASE Store!ReadPointer(c) \/ Store!CheckActive(c) \/ Store!ListWorkflows(c)
        BY <1>1, <2>1, BoundKept
        DEF Store!ReadPointer, Store!CheckActive, Store!ListWorkflows
    <2>2. CASE Store!AdoptTruncates(c) \/ Store!AdoptWrites(c) \/ Store!Load(c)
        BY <1>1, <2>2, BoundKept DEF Store!AdoptTruncates, Store!AdoptWrites, Store!Load
    <2> QED
        BY <1>5, <2>1, <2>2 DEF Store!Resolve
<1>6. ASSUME NEW c \in Command, Store!Mutate(c)
      PROVE  BoundInv'
    <2>1. CASE Store!CreateWorkflow(c) \/ Store!NameWorkflow(c) \/ Store!OmitWorkflow(c)
        BY <1>1, <2>1, BoundKept
        DEF Store!CreateWorkflow, Store!NameWorkflow, Store!OmitWorkflow
    <2>2. CASE Store!Change(c) \/ Store!Finish(c) \/ Store!SaveTruncates(c)
        BY <1>1, <2>2, BoundKept DEF Store!Change, Store!Finish, Store!SaveTruncates
    <2>3. CASE Store!RecordFirst(c)
        BY <1>1, <2>3 DEF Store!RecordFirst, BoundInv, Bound, Last
    <2>4. CASE Store!SaveWrites(c)
        <3>1. \A d \in Command : at[d] \in Locked => d = c
            BY <2>4, Alone DEF Store!SaveWrites, Locked, Saving
        <3>2. \A w \in Workflow : Bound(w)' \in Nat /\ Bound(w) \in Nat /\ Bound(w) <= Bound(w)'
            BY <1>1, <2>4 DEF Store!SaveWrites, Bound
        <3>3. \A w \in Workflow : history'[w] \subseteq 1 .. Bound(w)'
            BY <2>4, <3>2 DEF Store!SaveWrites, BoundInv
        <3>4. \A d \in Command : at'[d] \in Appending => d = c /\ at'[d] = "append"
            BY <1>1, <2>4, <3>1 DEF Store!SaveWrites, Locked
        <3>5. on' = on /\ early' = early \ on[c]
            BY <2>4 DEF Store!SaveWrites
        <3> QED
            BY <3>3, <3>4, <3>5 DEF BoundInv
    <2>5. CASE Store!AppendTruncates(c)
        <3>1. PICK w \in on[c] :
                /\ memory' = [memory EXCEPT ![c] = history[w] \cup {Store!Event(c, w)}]
                /\ history' = [history EXCEPT ![w] = {}]
            BY <2>5 DEF Store!AppendTruncates
        <3>2. on[c] = {w} /\ w \in Workflow
            BY <1>1, <2>5, <3>1 DEF Store!AppendTruncates, OneInv, IsOne, AtOne
        <3>3. Store!Event(c, w) = Last(c, w) /\ Last(c, w) \in Nat \ {0}
            BY <1>1, <2>5, <3>1 DEF Store!AppendTruncates, Store!Event, Last, SaveInv
        <3>4. Bound(w) <= Last(c, w) /\ Bound(w) \in Nat
            BY <1>1, <2>5, <3>1, <3>2 DEF Store!AppendTruncates, Last, Bound, BoundInv
        <3>5. history[w] \subseteq 1 .. Last(c, w)
            BY <3>2, <3>3, <3>4 DEF BoundInv
        <3>6. memory'[c] \subseteq 1 .. Last(c, w)
            BY <1>1, <3>1, <3>3, <3>5
        <3>7. \A d \in Command : d # c => memory'[d] = memory[d]
            BY <1>1, <3>1
        <3>8. \A v \in Workflow : history'[v] \subseteq history[v]
            BY <1>1, <3>1
        <3>9. /\ UNCHANGED <<on, job, made, early>>
              /\ at' = [at EXCEPT ![c] = "appending"] /\ at[c] = "append"
            BY <2>5 DEF Store!AppendTruncates
        <3>10. (\A v \in Workflow : history[v] \subseteq 1 .. Bound(v))'
            BY <3>8, <3>9 DEF BoundInv, Bound
        <3>11. (\A d \in Command : \A v \in on[d] :
                  /\ at[d] \in Appending /\ job[d] # "claim" => v \notin early
                  /\ at[d] = "appending" => memory[d] \subseteq 1 .. Last(d, v))'
            BY <1>1, <3>2, <3>6, <3>7, <3>9 DEF BoundInv, Last
        <3> QED
            BY <3>10, <3>11 DEF BoundInv
    <2>6. CASE Store!AppendWrites(c)
        <3>1. \A d \in Command : at[d] \in Locked => d = c
            BY <2>6, Alone DEF Store!AppendWrites, Locked
        <3>2. job[c] \in {"create", "run", "claim", "retry", "cancel"}
            BY <2>6 DEF Store!AppendWrites, JobInv
        <3>3. \A d \in Command : at'[d] \notin Appending
            BY <1>1, <2>6, <3>1, <3>2 DEF Store!AppendWrites, Locked
        <3>4. ASSUME NEW w \in Workflow
              PROVE  history'[w] \subseteq 1 .. Bound(w)'
            <4>1. CASE w \notin on[c]
                BY <2>6, <4>1 DEF Store!AppendWrites, BoundInv, Bound
            <4>2. CASE w \in on[c]
                <5>1. memory[c] \subseteq 1 .. Last(c, w) /\ history'[w] = memory[c]
                    BY <2>6, <4>2 DEF Store!AppendWrites, BoundInv
                <5>2. Last(c, w) <= Bound(w)' /\ Last(c, w) \in Nat /\ Bound(w)' \in Nat
                    BY <1>1, <2>6, <4>2 DEF Store!AppendWrites, Last, Bound
                <5> QED
                    BY <5>1, <5>2
            <4> QED
                BY <4>1, <4>2
        <3> QED
            BY <3>3, <3>4 DEF BoundInv
    <2>7. CASE Store!PointTruncates(c) \/ Store!PointWrites(c)
        BY <1>1, <2>7, BoundKept DEF Store!PointTruncates, Store!PointWrites
    <2>8. CASE Store!Unpoint(c) \/ Store!Unlink(c)
        BY <1>1, <2>8, BoundKept DEF Store!Unpoint, Store!Unlink
    <2> QED
        BY <1>6, <2>1, <2>2, <2>3, <2>4, <2>5, <2>6, <2>7, <2>8 DEF Store!Mutate
<1>7. CASE UNCHANGED vars
    BY <1>7, BoundKept DEF vars, storeVars, stateFiles, historyFiles
<1> QED
    BY StepCases, ServerServes, <1>2, <1>3, <1>4, <1>5, <1>6, <1>7 DEF UseStore

-----------------------------------------------------------------------------
(* No event is missing until somebody dies.                                *)

Recording == Saving \cup Appending

LEMMA CompleteInit == Init => CompleteInv
<1> SUFFICES ASSUME Init
             PROVE  CompleteInv
    OBVIOUS
<1>1. \A w \in Workflow : history[w] = 1 .. made[w]
    BY DEF Init, Store!Init
<1>2. holder = {}
    BY DEF Init, Lock!Init
<1> QED
    BY <1>1, <1>2 DEF CompleteInv

\* The dead stay dead.
LEMMA DeadStay ==
    ASSUME TypeOK, JobInv, [Next]_vars
    PROVE  Dead \subseteq Dead'
<1> USE DEF Dead, Store!Go, Store!End
<1>1. at \in [Command -> Store!At]
    BY DEF TypeOK, Store!TypeOK
<1>2. ASSUME NEW c \in Command, UseStore(c), NEW d \in Command, at[d] = "crashed"
      PROVE  at'[d] = "crashed"
    <2>1. IsBusy(c) /\ (d # c => (IsBusy(d)' <=> IsBusy(d)))
        BY <1>2, StoreGoesOn DEF GoesOn
    <2>2. d # c
        BY <1>2, <2>1 DEF IsBusy
    <2>3. ASSUME Store!Resolve(c)
          PROVE  at'[d] = at[d]
        BY <1>1, <2>2, <2>3
        DEF Store!Resolve, Store!ReadPointer, Store!CheckActive, Store!ListWorkflows,
            Store!AdoptTruncates, Store!AdoptWrites, Store!Load
    <2>4. ASSUME Store!CreateWorkflow(c) \/ Store!NameWorkflow(c) \/ Store!OmitWorkflow(c)
                 \/ Store!Change(c) \/ Store!RecordFirst(c) \/ Store!Finish(c)
                 \/ Store!SaveTruncates(c) \/ Store!SaveWrites(c) \/ Store!AppendTruncates(c)
          PROVE  at'[d] = at[d]
        BY <1>1, <2>2, <2>4
        DEF Store!CreateWorkflow, Store!NameWorkflow, Store!OmitWorkflow, Store!Change,
            Store!RecordFirst, Store!Finish, Store!SaveTruncates, Store!SaveWrites,
            Store!AppendTruncates
    <2>5. ASSUME Store!AppendWrites(c)
          PROVE  at'[d] = at[d]
        <3>1. job[c] \in {"create", "run", "claim", "retry", "cancel"}
            BY <2>5 DEF Store!AppendWrites, JobInv, Appending
        <3> QED
            BY <1>1, <2>2, <2>5, <3>1 DEF Store!AppendWrites
    <2>6. ASSUME Store!PointTruncates(c) \/ Store!PointWrites(c) \/ Store!Unpoint(c)
                 \/ Store!Unlink(c)
          PROVE  at'[d] = at[d]
        BY <1>1, <1>2, <2>2, <2>6
        DEF Store!PointTruncates, Store!PointWrites, Store!Unpoint, Store!Unlink
    <2> QED
        BY <1>2, <2>3, <2>4, <2>5, <2>6 DEF UseStore, Store!Mutate
<1>3. ASSUME NEW c \in Command, Status(c) \/ AcquireLock(c) \/ RefuseHeld(c)
      PROVE  Dead \subseteq Dead'
    BY <1>1, <1>3 DEF Status, AcquireLock, RefuseHeld
<1>4. ASSUME NEW c \in Command, Serves(c)
      PROVE  Dead \subseteq Dead'
    BY <1>1, <1>4 DEF Serves, Evaluating
<1>5. ASSUME NEW c \in Command, ReleaseLock(c) \/ Crash(c)
      PROVE  Dead \subseteq Dead'
    BY <1>1, <1>5 DEF ReleaseLock, Crash, Leave
<1>6. CASE UNCHANGED vars
    BY <1>6 DEF vars, storeVars
<1> QED
    BY StepCases, ServerServes, <1>2, <1>3, <1>4, <1>5, <1>6

\* What a step leaves that neither saves nor records.
LEMMA CompleteKept ==
    ASSUME CompleteInv, Dead \subseteq Dead', UNCHANGED <<history, made>>,
           holder \subseteq Command, holder' \subseteq Command,
           \A d \in Command : d \in holder /\ at[d] \in Recording =>
               d \in holder' /\ at'[d] \in Recording,
           \A d \in Command : d \in holder' /\ at'[d] \in Recording =>
               /\ d \in holder
               /\ at[d] = at'[d] \/ (at[d] = "save" /\ at'[d] = "saving")
               /\ on'[d] = on[d] /\ memory'[d] = memory[d] /\ job'[d] = job[d]
    PROVE  CompleteInv'
<1> SUFFICES ASSUME Dead' = {}
             PROVE  CompleteInv'
    BY DEF CompleteInv
<1>1. Dead = {}
    OBVIOUS
<1>2. ASSUME NEW w \in Workflow,
             \A d \in holder' : ~ (w \in on'[d] /\ at'[d] \in Recording)
      PROVE  history'[w] = 1 .. made'[w]
    <2>1. \A d \in holder : ~ (w \in on[d] /\ at[d] \in Recording)
        BY <1>2
    <2> QED
        BY <1>1, <2>1 DEF CompleteInv, Recording
<1>3. ASSUME NEW d \in holder', NEW w \in on'[d]
      PROVE  /\ at'[d] \in Saving => history'[w] = 1 .. Last(d, w)'
             /\ at'[d] = "append" => history'[w] = 1 .. Last(d, w)' - 1
             /\ at'[d] = "appending" => memory'[d] = 1 .. Last(d, w)'
    BY <1>1, <1>3 DEF CompleteInv, Recording, Last, Saving, Appending
<1> QED
    BY <1>2, <1>3 DEF CompleteInv, Recording

LEMMA CompleteStep ==
    ASSUME TypeOK, JobInv, HoldingInv, OneInv, SaveInv, CompleteInv, [Next]_vars
    PROVE  CompleteInv'
<1> USE DEF Store!Go, Store!End, Store!stateFiles, Store!historyFiles,
            Store!selection, Store!commandState, Appending, Saving, Recording
<1>1. /\ at \in [Command -> Store!At] /\ on \in [Command -> SUBSET Workflow]
      /\ job \in [Command -> Store!Job] /\ made \in [Workflow -> 0 .. MaxSaves]
      /\ memory \in [Command -> SUBSET (1 .. MaxSaves)]
      /\ history \in [Workflow -> SUBSET (1 .. MaxSaves)]
      /\ holder \subseteq Command
    BY DEF TypeOK, Store!TypeOK
<1>a. Dead \subseteq Dead'
    BY DeadStay
<1>2. ASSUME NEW c \in Command, Status(c) \/ RefuseHeld(c)
      PROVE  CompleteInv'
    BY <1>1, <1>2, <1>a, CompleteKept DEF Status, RefuseHeld, stateFiles, historyFiles
<1>b. ASSUME NEW c \in Command, AcquireLock(c)
      PROVE  CompleteInv'
    BY <1>1, <1>b, <1>a, CompleteKept DEF AcquireLock, Lock!Acquire, stateFiles, historyFiles
<1>3. ASSUME NEW c \in Command, Serves(c)
      PROVE  CompleteInv'
    BY <1>1, <1>3, <1>a, CompleteKept DEF Serves, stateFiles, historyFiles, Evaluating
<1>4. ASSUME NEW c \in Command, ReleaseLock(c)
      PROVE  CompleteInv'
    BY <1>1, <1>4, <1>a, CompleteKept DEF ReleaseLock, Leave, Lock!Release, stateFiles
<1>c. ASSUME NEW c \in Command, Crash(c)
      PROVE  CompleteInv'
    <2>1. c \in Dead'
        BY <1>1, <1>c DEF Crash, Leave, Dead
    <2> QED
        BY <2>1 DEF CompleteInv
<1>5. ASSUME NEW c \in Command, Store!Resolve(c), UNCHANGED holder
      PROVE  CompleteInv'
    <2>1. CASE Store!ReadPointer(c) \/ Store!CheckActive(c) \/ Store!ListWorkflows(c)
        BY <1>1, <1>5, <2>1, <1>a, CompleteKept
        DEF Store!ReadPointer, Store!CheckActive, Store!ListWorkflows
    <2>2. CASE Store!AdoptTruncates(c) \/ Store!AdoptWrites(c)
        BY <1>1, <1>5, <2>2, <1>a, CompleteKept DEF Store!AdoptTruncates, Store!AdoptWrites
    <2>3. CASE Store!Load(c) /\ at'[c] # "save"
        BY <1>1, <1>5, <2>3, <1>a, CompleteKept DEF Store!Load
    <2>4. CASE Store!Load(c) /\ at'[c] = "save"
        <3>1. job[c] \in {"retry", "cancel"} /\ at[c] = "load"
            BY <1>1, <2>4 DEF Store!Load
        <3>2. holder = {c}
            BY <3>1 DEF HoldingInv, IsBusy
        <3>3. UNCHANGED <<history, made, on, job>>
            BY <2>4 DEF Store!Load
        <3> QED
            BY <1>5, <1>a, <2>4, <3>1, <3>2, <3>3, <1>1 DEF CompleteInv, Last
    <2> QED
        BY <1>5, <2>1, <2>2, <2>3, <2>4 DEF Store!Resolve
<1>6. ASSUME NEW c \in Command, Store!Mutate(c), UNCHANGED holder
      PROVE  CompleteInv'
    <2>a. at[c] = "body" \/ at[c] \in Locked => holder = {c}
        BY Alone DEF HoldingInv, IsBusy, JobInv
    <2>1. CASE Store!CreateWorkflow(c)
        <3>1. PICK w \in Workflow \ present : on' = [on EXCEPT ![c] = {w}]
            BY <2>1 DEF Store!CreateWorkflow
        <3>2. holder = {c} /\ at[c] = "body" /\ at'[c] = "save" /\ job'[c] = "create"
            BY <1>1, <2>1, <2>a DEF Store!CreateWorkflow
        <3>3. UNCHANGED <<history, made>> /\ on'[c] = {w}
            BY <1>1, <2>1, <3>1 DEF Store!CreateWorkflow
        <3> QED
            BY <1>6, <1>a, <3>2, <3>3 DEF CompleteInv, Last
    <2>2. CASE Store!NameWorkflow(c) \/ Store!OmitWorkflow(c)
        BY <1>1, <1>6, <2>2, <1>a, CompleteKept DEF Store!NameWorkflow, Store!OmitWorkflow
    <2>3. CASE Store!Change(c)
        <3>1. holder = {c} /\ at[c] = "work" /\ at'[c] = "save" /\ job[c] = "run"
            BY <1>1, <2>3, <2>a DEF Store!Change, Locked, Evaluating, JobInv
        <3>2. UNCHANGED <<history, made, on, job>>
            BY <2>3 DEF Store!Change
        <3> QED
            BY <1>1, <1>6, <1>a, <3>1, <3>2 DEF CompleteInv, Last
    <2>4. CASE Store!RecordFirst(c)
        <3>1. holder = {c} /\ at[c] = "work" /\ at'[c] = "append" /\ job'[c] = "claim"
            BY <1>1, <2>4, <2>a DEF Store!RecordFirst, Locked, Evaluating
        <3>2. UNCHANGED <<history, made, on>>
            BY <2>4 DEF Store!RecordFirst
        <3>3. \A w \in on[c] : Last(c, w)' - 1 = made[w]
            BY <1>1, <3>1, <3>2 DEF Last
        <3> QED
            BY <1>1, <1>6, <1>a, <3>1, <3>2, <3>3 DEF CompleteInv
    <2>5. CASE Store!Finish(c)
        BY <1>1, <1>6, <2>5, <1>a, CompleteKept DEF Store!Finish
    <2>6. CASE Store!SaveTruncates(c)
        BY <1>1, <1>6, <2>6, <1>a, CompleteKept DEF Store!SaveTruncates
    <2>7. CASE Store!SaveWrites(c)
        <3>1. holder = {c} /\ at[c] = "saving"
            BY <2>7, <2>a DEF Store!SaveWrites, Locked
        <3>2. UNCHANGED <<history, on, memory>>
            BY <2>7 DEF Store!SaveWrites
        <3>3. \A w \in Workflow : made'[w] = IF w \in on[c] THEN made[w] + 1 ELSE made[w]
            BY <2>7 DEF Store!SaveWrites
        <3>4. CASE job[c] = "claim"
            <4>1. at'[c] = "work"
                BY <1>1, <2>7, <3>4 DEF Store!SaveWrites
            <4>2. ASSUME Dead = {}, NEW w \in Workflow
                  PROVE  history[w] = 1 .. made'[w]
                BY <1>1, <3>1, <3>3, <3>4, <4>2 DEF CompleteInv, Last
            <4> QED
                BY <1>6, <1>a, <3>1, <3>2, <4>1, <4>2 DEF CompleteInv
        <3>5. CASE job[c] # "claim"
            <4>1. at'[c] = "append" /\ job'[c] = job[c]
                BY <1>1, <2>7, <3>5 DEF Store!SaveWrites
            <4>2. ASSUME Dead = {}, NEW w \in Workflow, w \notin on[c]
                  PROVE  history[w] = 1 .. made'[w]
                BY <3>1, <3>3, <4>2 DEF CompleteInv
            <4>3. ASSUME Dead = {}, NEW w \in on[c]
                  PROVE  history[w] = 1 .. Last(c, w)' - 1
                <5>1. w \in Workflow /\ history[w] = 1 .. made[w]
                    BY <1>1, <3>1, <3>5, <4>3 DEF CompleteInv, Last
                <5>2. Last(c, w)' - 1 = made[w]
                    BY <1>1, <3>3, <3>5, <4>1, <4>3, <5>1 DEF Last
                <5> QED
                    BY <5>1, <5>2
            <4> QED
                BY <1>6, <1>a, <3>1, <3>2, <4>1, <4>2, <4>3 DEF CompleteInv
        <3> QED
            BY <3>4, <3>5
    <2>8. CASE Store!AppendTruncates(c)
        <3>1. PICK w \in on[c] :
                /\ memory' = [memory EXCEPT ![c] = history[w] \cup {Store!Event(c, w)}]
                /\ history' = [history EXCEPT ![w] = {}]
            BY <2>8 DEF Store!AppendTruncates
        <3>2. on[c] = {w} /\ w \in Workflow
            BY <1>1, <2>8, <3>1 DEF Store!AppendTruncates, OneInv, IsOne, AtOne
        <3>3. Store!Event(c, w) = Last(c, w) /\ Last(c, w) \in Nat \ {0}
            BY <1>1, <2>8, <3>1 DEF Store!AppendTruncates, Store!Event, Last, SaveInv
        <3>4. holder = {c} /\ at[c] = "append" /\ at'[c] = "appending"
            BY <1>1, <2>8, <2>a DEF Store!AppendTruncates, Locked
        <3>5. UNCHANGED <<on, job, made>>
            BY <2>8 DEF Store!AppendTruncates
        <3>6. ASSUME Dead = {}
              PROVE  memory'[c] = 1 .. Last(c, w)
            <4>1. history[w] = 1 .. Last(c, w) - 1
                BY <3>2, <3>4, <3>6 DEF CompleteInv
            <4>2. memory'[c] = history[w] \cup {Last(c, w)}
                BY <1>1, <3>1, <3>3
            <4> QED
                BY <3>3, <4>1, <4>2
        <3>7. ASSUME Dead = {}, NEW v \in Workflow, v # w
              PROVE  history'[v] = 1 .. made'[v]
            BY <1>1, <3>1, <3>2, <3>4, <3>5, <3>7 DEF CompleteInv
        <3>8. Last(c, w)' = Last(c, w) /\ on'[c] = {w}
            BY <3>2, <3>5 DEF Last
        <3> QED
            BY <1>6, <1>a, <3>4, <3>6, <3>7, <3>8 DEF CompleteInv
    <2>9. CASE Store!AppendWrites(c)
        <3>1. job[c] \in {"create", "run", "claim", "retry", "cancel"}
            BY <2>9 DEF Store!AppendWrites, JobInv
        <3>2. /\ job[c] = "claim" => at'[c] = "save"
              /\ job[c] # "claim" => at'[c] \notin Recording
            BY <1>1, <2>9, <3>1 DEF Store!AppendWrites
        <3>3. holder = {c} /\ at[c] = "appending" /\ UNCHANGED <<on, job, made>>
            BY <2>9, <2>a DEF Store!AppendWrites, Locked
        <3>4. \A w \in Workflow : history'[w] = IF w \in on[c] THEN memory[c] ELSE history[w]
            BY <2>9 DEF Store!AppendWrites
        <3>5. ASSUME Dead = {}, NEW w \in Workflow, w \notin on[c]
              PROVE  history'[w] = 1 .. made[w]
            BY <3>3, <3>4, <3>5 DEF CompleteInv
        <3>6. ASSUME Dead = {}, NEW w \in on[c]
              PROVE  history'[w] = 1 .. Last(c, w)
            BY <1>1, <3>3, <3>4, <3>6 DEF CompleteInv
        <3>7. \A w : Last(c, w)' = Last(c, w)
            BY <3>3 DEF Last
        <3>8. job[c] # "claim" => \A w : Last(c, w) = made[w]
            BY DEF Last
        <3> QED
            BY <1>6, <1>a, <3>2, <3>3, <3>5, <3>6, <3>7, <3>8 DEF CompleteInv
    <2>10. CASE Store!PointTruncates(c) \/ Store!PointWrites(c)
        BY <1>1, <1>6, <2>10, <1>a, CompleteKept DEF Store!PointTruncates, Store!PointWrites
    <2>11. CASE Store!Unpoint(c) \/ Store!Unlink(c)
        BY <1>1, <1>6, <2>11, <1>a, CompleteKept DEF Store!Unpoint, Store!Unlink
    <2> QED
        BY <1>6, <2>1, <2>2, <2>3, <2>4, <2>5, <2>6, <2>7, <2>8, <2>9, <2>10, <2>11
        DEF Store!Mutate
<1>7. CASE UNCHANGED vars
    BY <1>1, <1>7, <1>a, CompleteKept DEF vars, storeVars, stateFiles, historyFiles
<1> QED
    BY StepCases, ServerServes, <1>2, <1>b, <1>3, <1>4, <1>c, <1>5, <1>6, <1>7
    DEF UseStore

-----------------------------------------------------------------------------
(* The selection.                                                          *)

LEMMA SelectionInit == Init => UnlinkInv /\ SelectionStands
<1> SUFFICES ASSUME Init
             PROVE  UnlinkInv /\ SelectionStands
    OBVIOUS
<1>1. \A w \in pointer : made[w] > 0
    BY CommandsAssumption DEF Init, Store!Init
<1>2. pointer = chosen /\ \A c \in Command : at[c] = "new"
    BY DEF Init, Store!Init
<1> QED
    BY <1>1, <1>2 DEF UnlinkInv, SelectionStands

\* What a step leaves that does not touch the selection.
LEMMA SelectionKept ==
    ASSUME UnlinkInv, SelectionStands, Dead \subseteq Dead',
           UNCHANGED selection,
           \A w \in pointer : made[w] > 0 => made'[w] > 0,
           \A d \in Command : at'[d] = "unlink" =>
               \/ at[d] = "unlink" /\ on'[d] = on[d]
               \/ pointer = chosen /\ pointer = on'[d],
           Dead' = {} => \A d \in Command : Writes(d) => Writes(d)'
    PROVE  UnlinkInv' /\ SelectionStands'
<1> USE DEF selection
<1>1. UnlinkInv'
    BY DEF UnlinkInv
<1>2. ASSUME ~ overtaken'
      PROVE  /\ pointer' \subseteq chosen'
             /\ \A w \in pointer' : made'[w] > 0 \/ w \in adopted'
    BY <1>2 DEF SelectionStands
<1>3. ASSUME ~ overtaken', Dead' = {}, \A d \in Command : ~ Writes(d)'
      PROVE  pointer' = chosen'
    BY <1>3 DEF SelectionStands
<1> QED
    BY <1>1, <1>2, <1>3 DEF SelectionStands

LEMMA SelectionStep ==
    ASSUME TypeOK, JobInv, HoldingInv, OneInv, SaveInv, UnlinkInv, SelectionStands, [Next]_vars
    PROVE  UnlinkInv' /\ SelectionStands'
<1> USE DEF Store!Go, Store!End, Store!stateFiles, Store!historyFiles,
            Store!selection, Store!commandState, Writes, selection
<1>1. /\ at \in [Command -> Store!At] /\ on \in [Command -> SUBSET Workflow]
      /\ job \in [Command -> Store!Job] /\ made \in [Workflow -> 0 .. MaxSaves]
      /\ pointer \subseteq present /\ chosen \subseteq present /\ present \subseteq Workflow
    BY DEF TypeOK, Store!TypeOK
<1>a. Dead \subseteq Dead'
    BY DeadStay
<1>2. ASSUME NEW c \in Command, Status(c) \/ AcquireLock(c) \/ RefuseHeld(c)
      PROVE  UnlinkInv' /\ SelectionStands'
    BY <1>1, <1>2, <1>a, SelectionKept DEF Status, AcquireLock, RefuseHeld, stateFiles
<1>3. ASSUME NEW c \in Command, Serves(c)
      PROVE  UnlinkInv' /\ SelectionStands'
    BY <1>1, <1>3, <1>a, SelectionKept DEF Serves, stateFiles, Evaluating
<1>4. ASSUME NEW c \in Command, ReleaseLock(c)
      PROVE  UnlinkInv' /\ SelectionStands'
    BY <1>1, <1>4, <1>a, SelectionKept DEF ReleaseLock, Leave, stateFiles
<1>b. ASSUME NEW c \in Command, Crash(c)
      PROVE  UnlinkInv' /\ SelectionStands'
    <2>1. c \in Dead'
        BY <1>1, <1>b DEF Crash, Leave, Dead
    <2> QED
        BY <1>1, <1>b, <2>1, <1>a, SelectionKept DEF Crash, Leave, stateFiles
<1>5. ASSUME NEW c \in Command, Store!Resolve(c)
      PROVE  UnlinkInv' /\ SelectionStands'
    <2>1. CASE Store!ReadPointer(c) \/ Store!CheckActive(c) \/ Store!ListWorkflows(c)
        BY <1>1, <2>1, <1>a, SelectionKept
        DEF Store!ReadPointer, Store!CheckActive, Store!ListWorkflows
    <2>2. CASE Store!Load(c)
        BY <1>1, <2>2, <1>a, SelectionKept DEF Store!Load
    <2>3. CASE Store!AdoptTruncates(c)
        <3>1. /\ pointer' = {} /\ at' = [at EXCEPT ![c] = "adopting"] /\ at[c] = "adopt"
              /\ UNCHANGED <<chosen, on, overtaken>>
            BY <2>3 DEF Store!AdoptTruncates
        <3>2. Writes(c)'
            BY <1>1, <3>1
        <3>3. UnlinkInv'
            BY <1>1, <3>1 DEF UnlinkInv
        <3> QED
            BY <3>1, <3>2, <3>3 DEF SelectionStands
    <2>4. CASE Store!AdoptWrites(c)
        <3>1. /\ pointer' = on[c] /\ at' = [at EXCEPT ![c] = "load"] /\ at[c] = "adopting"
              /\ chosen' = IF chosen = {} THEN on[c] ELSE chosen
              /\ adopted' = adopted \cup on[c]
              /\ overtaken' = (overtaken \/ present # on[c])
              /\ UNCHANGED <<on, made>>
            BY <2>4 DEF Store!AdoptWrites
        <3>2. IsOne(on[c])
            BY <3>1 DEF OneInv, AtOne
        <3>3. ~ overtaken' => ~ overtaken /\ chosen' = on[c]
            BY <1>1, <3>1, <3>2 DEF IsOne
        <3>4. UnlinkInv'
            <4>1. ASSUME NEW d \in Command, at'[d] = "unlink", ~ overtaken
                  PROVE  chosen' = on'[d]
                <5>1. at[d] = "unlink"
                    BY <1>1, <3>1, <4>1
                <5>2. IsOne(on[d]) /\ chosen = on[d]
                    BY <4>1, <5>1 DEF OneInv, AtOne, Unpointing, UnlinkInv
                <5> QED
                    BY <3>1, <5>2 DEF IsOne
            <4> QED
                BY <3>3, <4>1 DEF UnlinkInv
        <3> QED
            BY <3>1, <3>3, <3>4 DEF SelectionStands
    <2> QED
        BY <1>5, <2>1, <2>2, <2>3, <2>4 DEF Store!Resolve
<1>6. ASSUME NEW c \in Command, Store!Mutate(c)
      PROVE  UnlinkInv' /\ SelectionStands'
    <2>1. CASE Store!CreateWorkflow(c) \/ Store!NameWorkflow(c) \/ Store!OmitWorkflow(c)
        BY <1>1, <2>1, <1>a, SelectionKept
        DEF Store!CreateWorkflow, Store!NameWorkflow, Store!OmitWorkflow
    <2>2. CASE Store!Change(c) \/ Store!RecordFirst(c) \/ Store!Finish(c)
               \/ Store!SaveTruncates(c) \/ Store!AppendTruncates(c)
        BY <1>1, <2>2, <1>a, SelectionKept
        DEF Store!Change, Store!RecordFirst, Store!Finish, Store!SaveTruncates,
            Store!AppendTruncates
    <2>3. CASE Store!SaveWrites(c)
        BY <1>1, <2>3, <1>a, SelectionKept DEF Store!SaveWrites
    <2>4. CASE Store!AppendWrites(c)
        <3>1. job[c] \in {"create", "run", "claim", "retry", "cancel"}
            BY <2>4 DEF Store!AppendWrites, JobInv, Appending
        <3>2. \E s \in {"point", "unpoint", "save", "work", "release", "ended"} :
                at' = [at EXCEPT ![c] = s]
            BY <2>4, <3>1 DEF Store!AppendWrites
        <3>3. UNCHANGED <<on, made, selection>> /\ at[c] = "appending"
            BY <2>4 DEF Store!AppendWrites
        <3> QED
            BY <1>1, <1>a, <3>2, <3>3, SelectionKept
    <2>5. CASE Store!PointTruncates(c)
        <3>1. /\ pointer' = {} /\ at' = [at EXCEPT ![c] = "pointing"] /\ at[c] = "point"
              /\ UNCHANGED <<chosen, on, overtaken>>
            BY <2>5 DEF Store!PointTruncates
        <3>2. Writes(c)'
            BY <1>1, <3>1
        <3>3. UnlinkInv'
            BY <1>1, <3>1 DEF UnlinkInv
        <3> QED
            BY <3>1, <3>2, <3>3 DEF SelectionStands
    <2>6. CASE Store!PointWrites(c)
        <3>1. /\ at[c] = "pointing" /\ pointer' = on[c] /\ chosen' = on[c]
              /\ UNCHANGED made
            BY <2>6 DEF Store!PointWrites
        <3>2. \A d \in Command : at[d] # "unlink"
            BY <3>1, Alone DEF Locked, Pointing, Unpointing
        <3>3. \A d \in Command : at'[d] # "unlink"
            BY <1>1, <2>6, <3>2 DEF Store!PointWrites
        <3>4. \A w \in on[c] : made[w] > 0
            BY <3>1 DEF SaveInv, Pointing
        <3> QED
            BY <3>1, <3>3, <3>4 DEF UnlinkInv, SelectionStands
    <2>7. CASE Store!Unpoint(c)
        <3>1. ASSUME at'[c] = "unlink", ~ overtaken
              PROVE  pointer = on[c] /\ pointer = chosen
            <4>1. at[c] = "unpoint" /\ pointer = on[c]
                BY <1>1, <2>7, <3>1 DEF Store!Unpoint
            <4>2. IsOne(pointer) /\ (chosen = {} \/ IsOne(chosen)) /\ pointer \subseteq chosen
                BY <3>1, <4>1 DEF OneInv, AtOne, Unpointing, SelectionStands
            <4> QED
                BY <4>1, <4>2 DEF IsOne
        <3>2. /\ \E s \in {"unlink", "release", "ended"} : at' = [at EXCEPT ![c] = s]
              /\ at[c] = "unpoint" /\ UNCHANGED <<on, made, selection>>
            BY <2>7 DEF Store!Unpoint
        <3>3. CASE overtaken
            BY <3>2, <3>3 DEF UnlinkInv, SelectionStands
        <3>4. CASE ~ overtaken
            BY <1>1, <1>a, <3>1, <3>2, <3>4, SelectionKept
        <3> QED
            BY <3>3, <3>4
    <2>8. CASE Store!Unlink(c)
        <3>1. at[c] = "unlink" /\ pointer' = {} /\ chosen' = chosen \ on[c]
              /\ UNCHANGED overtaken
            BY <2>8 DEF Store!Unlink
        <3>2. \A d \in Command : at'[d] # "unlink"
            <4>1. \A d \in Command : at[d] = "unlink" => d = c
                BY <3>1, Alone DEF Locked, Unpointing
            <4> QED
                BY <4>1, <2>8 DEF Store!Unlink
        <3>3. ~ overtaken => chosen' = {}
            BY <3>1 DEF UnlinkInv
        <3> QED
            BY <3>1, <3>2, <3>3 DEF UnlinkInv, SelectionStands
    <2> QED
        BY <1>6, <2>1, <2>2, <2>3, <2>4, <2>5, <2>6, <2>7, <2>8 DEF Store!Mutate
<1>7. CASE UNCHANGED vars
    BY <1>1, <1>7, <1>a, SelectionKept DEF vars, storeVars, stateFiles
<1> QED
    BY StepCases, ServerServes, <1>2, <1>3, <1>4, <1>b, <1>5, <1>6, <1>7 DEF UseStore

-----------------------------------------------------------------------------
(* The theorems.                                                           *)

LEMMA CommandsInit == Init => CommandsInv
BY TypeInit, JobInit, HoldingInit, OneInit, SaveInit, BoundInit, CompleteInit, SelectionInit
DEF CommandsInv

LEMMA CommandsStep ==
    ASSUME CommandsInv, [Next]_vars
    PROVE  CommandsInv'
<1> USE DEF CommandsInv
<1>1. JobInv' /\ OneInv' /\ HoldingInv'
    BY JobStep, OneStep, HoldingStep
<1>2. TypeOK'
    BY <1>1, TypeStep
<1>3. SaveInv' /\ BoundInv' /\ CompleteInv'
    BY SaveStep, BoundStep, CompleteStep
<1>4. UnlinkInv' /\ SelectionStands'
    BY SelectionStep
<1> QED
    BY <1>1, <1>2, <1>3, <1>4

\* What state, history and selection rely on, whatever commands are started, at
\* whatever steps they interleave and die (workflow-store.ts, workflow-mutator.ts,
\* workflow-admin-service.ts, runtime-lock.ts withProjectLock).
THEOREM CommandsInvariant == Spec => []CommandsInv
<1>1. Init => CommandsInv
    BY CommandsInit
<1>2. CommandsInv /\ [Next]_vars => CommandsInv'
    BY CommandsStep
<1> QED
    BY <1>1, <1>2, PTL DEF Spec

\* Every variable keeps its type: in particular .active-workflow names one existing
\* directory at most, and no state is saved more often than it was allowed to.
THEOREM CommandsTypes == Spec => []TypeOK
<1>1. CommandsInv => TypeOK
    BY DEF CommandsInv
<1> QED
    BY <1>1, CommandsInvariant, PTL

\* history.json and state.json tell the same story: save and append are two steps
\* (workflow-mutator.ts appendFixTasks, dispatcher-service.ts), but both are
\* under the project lock, so nobody else finds them apart unless a command dies.
THEOREM HistoriesAgree == Spec => []HistoryAgrees
<1>1. CommandsInv => HistoryAgrees
    <2> SUFFICES ASSUME CommandsInv, NEW w \in Workflow
                 PROVE  /\ history[w] \subseteq
                             1 .. (IF w \in early THEN made[w] + 1 ELSE made[w])
                        /\ holder = {} /\ Dead = {} => history[w] = 1 .. made[w]
        BY DEF HistoryAgrees
    <2>1. history[w] \subseteq 1 .. Bound(w)
        BY DEF CommandsInv, BoundInv
    <2>2. holder = {} /\ Dead = {} => history[w] = 1 .. made[w]
        BY DEF CommandsInv, CompleteInv
    <2> QED
        BY <2>1, <2>2 DEF Bound
<1> QED
    BY <1>1, CommandsInvariant, PTL

\* .active-workflow says what was last selected, although resolveWorkflowId writes
\* it without the lock when `amiral status` finds a single workflow.
THEOREM SelectionHolds == Spec => []SelectionStands
<1>1. CommandsInv => SelectionStands
    BY DEF CommandsInv
<1> QED
    BY <1>1, CommandsInvariant, PTL

-----------------------------------------------------------------------------
(* What a command changes of the others.                                   *)

\* A step of a command in the files: the others stay where they are, and so does
\* every state.json, unless the command creates or saves one.
LEMMA StoreMoves ==
    ASSUME TypeOK, JobInv, NEW c \in Command, UseStore(c)
    PROVE  /\ at[c] \notin {"new", "ended", "crashed", "evaluate"}
           /\ at'[c] \notin {"crashed", "evaluate"}
           /\ \A d \in Command \ {c} :
                /\ on'[d] = on[d]
                /\ at'[d] = at[d] \/ (at[d] = "adopting" /\ at'[d] = "load")
           /\ \/ Store!CreateWorkflow(c) \/ Store!SaveTruncates(c) \/ Store!SaveWrites(c)
              \/ UNCHANGED <<present, loadable>> /\ at[c] \notin Saving
<1> USE DEF Store!Go, Store!End, Store!stateFiles, Store!commandState, Saving
<1>1. /\ at \in [Command -> Store!At] /\ on \in [Command -> SUBSET Workflow]
      /\ job \in [Command -> Store!Job]
    BY DEF TypeOK, Store!TypeOK
<1>2. CASE Store!Resolve(c)
    <2>1. CASE Store!ReadPointer(c) \/ Store!CheckActive(c) \/ Store!ListWorkflows(c)
        BY <1>1, <2>1 DEF Store!ReadPointer, Store!CheckActive, Store!ListWorkflows
    <2>2. CASE Store!AdoptTruncates(c) \/ Store!AdoptWrites(c)
        BY <1>1, <2>2 DEF Store!AdoptTruncates, Store!AdoptWrites
    <2>3. CASE Store!Load(c)
        BY <1>1, <2>3 DEF Store!Load
    <2> QED
        BY <1>2, <2>1, <2>2, <2>3 DEF Store!Resolve
<1>3. CASE Store!Mutate(c)
    <2>1. CASE Store!CreateWorkflow(c) \/ Store!OmitWorkflow(c)
        BY <1>1, <2>1 DEF Store!CreateWorkflow, Store!OmitWorkflow
    <2>2. CASE Store!NameWorkflow(c)
        BY <1>1, <2>2 DEF Store!NameWorkflow
    <2>3. CASE Store!Change(c) \/ Store!RecordFirst(c) \/ Store!Finish(c)
        BY <1>1, <2>3 DEF Store!Change, Store!RecordFirst, Store!Finish
    <2>4. CASE Store!SaveTruncates(c) \/ Store!SaveWrites(c)
        BY <1>1, <2>4 DEF Store!SaveTruncates, Store!SaveWrites
    <2>5. CASE Store!AppendTruncates(c)
        BY <1>1, <2>5 DEF Store!AppendTruncates
    <2>6. CASE Store!AppendWrites(c)
        <3>1. job[c] \in {"create", "run", "claim", "retry", "cancel"}
            BY <2>6 DEF Store!AppendWrites, JobInv, Appending
        <3>2. \E s \in {"point", "unpoint", "save", "work", "release"} :
                at' = [at EXCEPT ![c] = s]
            BY <2>6, <3>1 DEF Store!AppendWrites
        <3>3. UNCHANGED <<on, present, loadable>> /\ at[c] = "appending"
            BY <2>6 DEF Store!AppendWrites
        <3> QED
            BY <1>1, <3>2, <3>3
    <2>7. CASE Store!PointTruncates(c) \/ Store!PointWrites(c)
        BY <1>1, <2>7 DEF Store!PointTruncates, Store!PointWrites
    <2>8. CASE Store!Unpoint(c) \/ Store!Unlink(c)
        BY <1>1, <2>8 DEF Store!Unpoint, Store!Unlink
    <2> QED
        BY <1>3, <2>1, <2>2, <2>3, <2>4, <2>5, <2>6, <2>7, <2>8 DEF Store!Mutate
<1> QED
    BY <1>2, <1>3 DEF UseStore

-----------------------------------------------------------------------------
(* The development servers.                                                *)

\* An evaluation under way is its command's, unless that died, and when it is over
\* the process is not left running.
ServerInv ==
    /\ \A c \in Command : at[c] = "evaluate" => c \in Evaluator
    /\ \A c \in Evaluator :
        /\ stage[c] = "probe" => child[c] = "none"
        /\ stage[c] \notin {"probe", "done"} => at[c] \in {"evaluate", "crashed"}
        /\ stage[c] = "shutdown" => child[c] # "running"
        /\ stage[c] = "done" => child[c] \in {"none", "killed", "exited"}

\* A process that runs and was not killed is watched by the command that launched it,
\* which has the project lock: two commands never have a server each, and none is
\* left behind by an evaluation that is over, but by a command that died.
ServersAreWatched ==
    \A c \in Evaluator :
        Server!IsRunning(c) =>
            \/ child[c] = "killed"
            \/ c \in Dead
            \/ at[c] = "evaluate" /\ holder = {c}

\* A step that leaves the servers alone and moves nobody out of an evaluation.
LEMMA ServerKept ==
    ASSUME ServerInv, UNCHANGED serverVars,
           \A d \in Command :
                /\ at[d] \in {"evaluate", "crashed"} => at'[d] \in {"evaluate", "crashed"}
                /\ at'[d] = "evaluate" => at[d] = "evaluate" \/ d \in Evaluator
    PROVE  ServerInv'
BY CommandsAssumption DEF ServerInv, serverVars

LEMMA ServerStep ==
    ASSUME TypeOK, JobInv, ServerInv, [Next]_vars
    PROVE  ServerInv'
<1> USE DEF Store!Go
<1>1. /\ at \in [Command -> Store!At] /\ Evaluator \subseteq Command
      /\ stage \in [Evaluator -> Server!Stage] /\ child \in [Evaluator -> Server!Child]
    BY CommandsAssumption DEF TypeOK, Store!TypeOK, Server!TypeOK
<1>2. ASSUME NEW c \in Command, Status(c) \/ AcquireLock(c) \/ RefuseHeld(c)
      PROVE  ServerInv'
    BY <1>1, <1>2, ServerKept DEF Status, AcquireLock, RefuseHeld
<1>3. ASSUME NEW c \in Command, UseStore(c)
      PROVE  ServerInv'
    <2>1. UNCHANGED serverVars
        BY <1>3 DEF UseStore
    <2> QED
        BY <1>3, <2>1, StoreMoves, ServerKept
<1>4. ASSUME NEW c \in Command, EvaluateVisualQA(c)
      PROVE  ServerInv'
    BY <1>1, <1>4, ServerKept DEF EvaluateVisualQA
<1>5. ASSUME NEW c \in Command, UseServer(c)
      PROVE  ServerInv'
    <2>1. c \in Evaluator /\ at[c] = "evaluate" /\ Server!Step(c)
        BY <1>5 DEF UseServer, ServerInv
    <2>2. /\ stage'[c] \in Server!Stage /\ child'[c] \in Server!Child
          /\ \A d \in Evaluator \ {c} : stage'[d] = stage[d] /\ child'[d] = child[d]
          /\ stage'[c] # "probe"
          /\ stage'[c] = "shutdown" => child'[c] # "running"
          /\ stage'[c] = "done" => child'[c] \in {"none", "killed", "exited"}
        <3> USE DEF Server!Go, Server!Stage, Server!Child
        <3>1. CASE Server!ProbeFirst(c) \/ Server!GiveUp(c)
            BY <1>1, <2>1, <3>1 DEF Server!ProbeFirst, Server!GiveUp
        <3>2. CASE Server!Poll(c) \/ Server!ProbeAgain(c)
            BY <1>1, <2>1, <3>2 DEF Server!Poll, Server!ProbeAgain
        <3>3. CASE Server!Evaluate(c) \/ Server!Terminate(c)
            BY <1>1, <2>1, <3>3 DEF Server!Evaluate, Server!Terminate
        <3>4. CASE Server!Shutdown(c)
            BY <1>1, <2>1, <3>4 DEF Server!Shutdown, ServerInv
        <3> QED
            BY <2>1, <3>1, <3>2, <3>3, <3>4 DEF Server!Step
    <2>3. /\ stage'[c] # "done" => at'[c] = "evaluate"
          /\ \A d \in Evaluator \ {c} : at'[d] = at[d]
        BY <1>1, <1>5, <2>1 DEF UseServer
    <2>4. \A d \in Command : at'[d] = "evaluate" => at[d] = "evaluate"
        BY <1>1, <1>5, <2>1 DEF UseServer
    <2> QED
        BY <2>1, <2>2, <2>3, <2>4 DEF ServerInv
<1>6. ASSUME NEW c \in Command, ServerExits(c)
      PROVE  ServerInv'
    BY <1>1, <1>6 DEF ServerExits, Server!Exit, Server!IsRunning, ServerInv, storeVars
<1>7. ASSUME NEW c \in Command, ReleaseLock(c) \/ Crash(c)
      PROVE  ServerInv'
    BY <1>1, <1>7, ServerKept DEF ReleaseLock, Crash, Leave
<1>8. CASE UNCHANGED vars
    BY <1>8, ServerKept DEF vars, storeVars
<1> QED
    BY StepCases, <1>2, <1>3, <1>4, <1>5, <1>6, <1>7, <1>8

\* Visual QA stops the server it started, however its evaluation ends, and at most
\* one server is under way at any time (visual-qa.ts DevelopmentServerManager.start,
\* VisualQAService.evaluate, runtime-lock.ts withProjectLock). That a process that
\* was killed exits is left to the operating system.
THEOREM ServersHaveTheirCommand == Spec => []ServersAreWatched
<1>1. Init => ServerInv
    BY CommandsAssumption DEF Init, Server!Init, Store!Init, ServerInv
<1>2. CommandsInv /\ ServerInv /\ [Next]_vars => ServerInv'
    BY ServerStep DEF CommandsInv
<1>3. CommandsInv /\ ServerInv => ServersAreWatched
    <2> SUFFICES ASSUME CommandsInv, ServerInv,
                        NEW c \in Evaluator, Server!IsRunning(c),
                        child[c] # "killed", c \notin Dead
                 PROVE  at[c] = "evaluate" /\ holder = {c}
        BY DEF ServersAreWatched
    <2>1. c \in Command /\ stage[c] \in Server!Stage
        BY CommandsAssumption DEF CommandsInv, TypeOK, Server!TypeOK
    <2>2. at[c] = "evaluate"
        BY <2>1 DEF ServerInv, Server!IsRunning, Dead
    <2>3. holder = {c}
        BY <2>1, <2>2, Alone DEF CommandsInv, Locked, Evaluating
    <2> QED
        BY <2>2, <2>3
<1> QED
    BY <1>1, <1>2, <1>3, CommandsInvariant, PTL DEF Spec

-----------------------------------------------------------------------------
(* What loads.                                                             *)

\* Until somebody dies a workflow does not load only while the command that has the
\* project lock is saving it.
StatesAreReadable ==
    Dead = {} =>
        \A w \in present \ loadable : \E c \in holder : w \in on[c] /\ at[c] \in Saving

\* A step that changes no state.json, and whose command is not at saving one.
LEMMA ReadableKept ==
    ASSUME StatesAreReadable, UNCHANGED <<present, loadable, holder>>,
           Dead' = {} => Dead = {},
           \A d \in holder : at[d] \in Saving => at'[d] \in Saving /\ on'[d] = on[d]
    PROVE  StatesAreReadable'
BY DEF StatesAreReadable

\* While the command that has the lock does not save, or nobody has it, all load.
LEMMA AllLoad ==
    ASSUME StatesAreReadable, Dead = {}, \A d \in holder : at[d] \notin Saving
    PROVE  present \subseteq loadable
BY DEF StatesAreReadable

LEMMA ReadableStep ==
    ASSUME TypeOK, JobInv, HoldingInv, OneInv, StatesAreReadable, [Next]_vars
    PROVE  StatesAreReadable'
<1> USE DEF Store!Go
<1>1. /\ at \in [Command -> Store!At] /\ on \in [Command -> SUBSET Workflow]
      /\ job \in [Command -> Store!Job] /\ holder \subseteq Command
    BY DEF TypeOK, Store!TypeOK
<1>2. ASSUME NEW c \in Command, Status(c) \/ RefuseHeld(c)
      PROVE  StatesAreReadable'
    BY <1>1, <1>2, ReadableKept DEF Status, RefuseHeld, stateFiles, Dead, Saving
<1>3. ASSUME NEW c \in Command, AcquireLock(c)
      PROVE  StatesAreReadable'
    <2>1. holder = {} /\ UNCHANGED <<present, loadable>> /\ (Dead' = {} => Dead = {})
        BY <1>1, <1>3 DEF AcquireLock, Lock!Acquire, stateFiles, Dead
    <2> QED
        BY <2>1, AllLoad DEF StatesAreReadable
<1>4. ASSUME NEW c \in Command, Serves(c)
      PROVE  StatesAreReadable'
    BY <1>1, <1>4, ReadableKept DEF Serves, stateFiles, Dead, Saving, Evaluating
<1>5. ASSUME NEW c \in Command, ReleaseLock(c)
      PROVE  StatesAreReadable'
    <2>1. at[c] = "release" /\ UNCHANGED <<present, loadable>> /\ (Dead' = {} => Dead = {})
        BY <1>1, <1>5 DEF ReleaseLock, Leave, stateFiles, Dead
    <2>2. c \in holder
        BY <1>5 DEF ReleaseLock, Lock!Release
    <2>3. \A d \in holder : at[d] \notin Saving
        BY <2>1, <2>2 DEF HoldingInv, Saving
    <2> QED
        BY <2>1, <2>3, AllLoad DEF StatesAreReadable
<1>6. ASSUME NEW c \in Command, Crash(c)
      PROVE  StatesAreReadable'
    <2>1. c \in Dead'
        BY <1>1, <1>6 DEF Crash, Leave, Dead
    <2> QED
        BY <2>1 DEF StatesAreReadable
<1>7. ASSUME NEW c \in Command, UseStore(c)
      PROVE  StatesAreReadable'
    <2>1. UNCHANGED holder /\ (Dead' = {} => Dead = {})
        BY <1>1, <1>7, StoreMoves DEF UseStore, Dead
    <2>2. CASE UNCHANGED <<present, loadable>> /\ at[c] \notin Saving
        <3>1. \A d \in holder : at[d] \in Saving => at'[d] \in Saving /\ on'[d] = on[d]
            BY <1>1, <1>7, <2>2, StoreMoves DEF Saving
        <3> QED
            BY <2>1, <2>2, <3>1, ReadableKept
    <2>3. CASE Store!CreateWorkflow(c)
        <3>1. PICK w \in Workflow \ present :
                present' = present \cup {w} /\ on' = [on EXCEPT ![c] = {w}]
            BY <2>3 DEF Store!CreateWorkflow
        <3>2. at[c] = "body" /\ at'[c] = "save" /\ UNCHANGED loadable
            BY <1>1, <2>3 DEF Store!CreateWorkflow
        <3>3. holder = {c}
            BY <3>2 DEF HoldingInv, IsBusy, JobInv
        <3>4. Dead = {} => present \subseteq loadable
            BY <3>2, <3>3, AllLoad DEF Saving
        <3> QED
            BY <1>1, <2>1, <3>1, <3>2, <3>3, <3>4 DEF StatesAreReadable, Saving
    <2>4. CASE Store!SaveTruncates(c)
        <3>1. /\ at[c] = "save" /\ at'[c] = "saving"
              /\ loadable' = loadable \ on[c] /\ UNCHANGED <<present, on>>
            BY <1>1, <2>4 DEF Store!SaveTruncates, Store!commandState
        <3>2. holder = {c}
            BY <3>1, Alone DEF Locked, Saving
        <3> QED
            BY <2>1, <3>1, <3>2 DEF StatesAreReadable, Saving
    <2>5. CASE Store!SaveWrites(c)
        <3>1. /\ at[c] = "saving" /\ loadable' = loadable \cup on[c]
              /\ UNCHANGED present
            BY <2>5 DEF Store!SaveWrites
        <3>2. holder = {c}
            BY <3>1, Alone DEF Locked, Saving
        <3>3. Dead = {} => present \subseteq loadable'
            BY <3>1, <3>2 DEF StatesAreReadable
        <3> QED
            BY <2>1, <3>1, <3>3 DEF StatesAreReadable
    <2> QED
        BY <1>7, <2>2, <2>3, <2>4, <2>5, StoreMoves
<1>8. CASE UNCHANGED vars
    BY <1>8, ReadableKept DEF vars, storeVars, stateFiles, Dead
<1> QED
    BY StepCases, ServerServes, <1>2, <1>3, <1>4, <1>5, <1>6, <1>7, <1>8

\* A state.json is written in place, but whoever has the project lock finds all of
\* them whole when it starts: a workflow that does not load is being saved by the
\* holder, or somebody died over it (workflow-store.ts saveState, runtime-lock.ts
\* withProjectLock). Only those that read without the lock may find one unreadable.
THEOREM StatesLoad == Spec => []StatesAreReadable
<1>1. Init => StatesAreReadable
    BY DEF Init, Store!Init, StatesAreReadable
<1>2. CommandsInv /\ StatesAreReadable /\ [Next]_vars => StatesAreReadable'
    BY ReadableStep DEF CommandsInv
<1> QED
    BY <1>1, <1>2, CommandsInvariant, PTL DEF Spec
=============================================================================
