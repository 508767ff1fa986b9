-------------------------- MODULE ProjectCommands --------------------------
(***************************************************************************)
(* The commands of one project: those that change it hold the project lock *)
(* for their whole duration, `amiral status` resolves the active workflow  *)
(* without it. A run may have the Visual QA of its workflow evaluated, and *)
(* any command may die between two steps, its files and its development    *)
(* server staying behind.                                                  *)
(***************************************************************************)
EXTENDS Naturals, FiniteSets

CONSTANTS
    Command,        \* the commands started in the project
    Reader,         \* those that are `amiral status` or `workflow history`
    Evaluator,      \* those that may run a workflow with tasks for the UI
    Workflow,       \* the ids of workflows
    Earlier,        \* those a workflow may have got before
    StartCommand,   \* whether ui.server.start_command is configured
    MaxSaves,       \* bound: how often the state of a workflow is saved
    MaxPolls,       \* bound: how often an evaluation polls before its deadline
    MaxCrashes      \* bound: how many commands die before their end

ASSUME CommandsAssumption ==
    /\ Reader \subseteq Command
    /\ Evaluator \subseteq Command \ Reader
    /\ IsFiniteSet(Workflow) /\ Earlier \subseteq Workflow
    /\ StartCommand \in BOOLEAN
    /\ MaxSaves \in Nat \ {0}
    /\ MaxPolls \in Nat
    /\ MaxCrashes \in Nat

VARIABLES
    holder,                                     \* see ProjectLock
    present, loadable, cancelled, history,      \* see WorkflowStore
    pointer, at, job, on, memory, made, early,
    chosen, adopted, overtaken,
    stage, polls, child                         \* see DevelopmentServer

Lock == INSTANCE ProjectLock
Store == INSTANCE WorkflowStore
Server == INSTANCE DevelopmentServer WITH Command <- Evaluator

stateFiles == <<present, loadable, cancelled, made>>
historyFiles == <<history, memory, early>>
selection == <<pointer, chosen, adopted, overtaken>>
storeVars == <<stateFiles, historyFiles, selection, at, job, on>>
serverVars == <<stage, polls, child>>
vars == <<holder, storeVars, serverVars>>

Init == Lock!Init /\ Store!Init /\ Server!Init

Dead == {c \in Command : at[c] = "crashed"}

-----------------------------------------------------------------------------
Status(c) ==
    /\ c \in Reader
    /\ at[c] = "new"
    /\ job' = [job EXCEPT ![c] = "status"]
    /\ Store!Go(c, "resolve")
    /\ UNCHANGED <<holder, on, stateFiles, historyFiles, selection, serverVars>>

AcquireLock(c) ==
    /\ c \notin Reader
    /\ at[c] = "new"
    /\ Lock!Acquire(c)
    /\ Store!Go(c, "body")
    /\ UNCHANGED <<job, on, stateFiles, historyFiles, selection, serverVars>>

RefuseHeld(c) ==
    /\ c \notin Reader
    /\ at[c] = "new"
    /\ holder # {}
    /\ Store!Go(c, "ended")
    /\ UNCHANGED <<holder, job, on, stateFiles, historyFiles, selection, serverVars>>

\* Without the lock at[c] is a step of the resolution.
UseStore(c) ==
    /\ Store!Resolve(c) \/ Store!Mutate(c)
    /\ UNCHANGED <<holder, serverVars>>

EvaluateVisualQA(c) ==
    /\ c \in Evaluator
    /\ at[c] = "work"
    /\ stage[c] = "probe"
    /\ Store!Go(c, "evaluate")
    /\ UNCHANGED <<holder, job, on, stateFiles, historyFiles, selection, serverVars>>

UseServer(c) ==
    /\ at[c] = "evaluate"
    /\ Server!Step(c)
    /\ at' = IF stage'[c] = "done" THEN [at EXCEPT ![c] = "work"] ELSE at
    /\ UNCHANGED <<holder, job, on, stateFiles, historyFiles, selection>>

\* The command forgets what it worked on.
Leave(c, step) ==
    /\ Store!Go(c, step)
    /\ job' = [job EXCEPT ![c] = "none"]
    /\ on' = [on EXCEPT ![c] = {}]
    /\ memory' = [memory EXCEPT ![c] = {}]
    /\ UNCHANGED <<history, early, stateFiles, selection, serverVars>>

ReleaseLock(c) ==
    /\ at[c] = "release"
    /\ Lock!Release(c)
    /\ Leave(c, "ended")

\* A process is killed, or a second signal ends it at once. Its lock is stale then.
Crash(c) ==
    /\ at[c] \notin {"new", "ended", "crashed"}
    /\ Cardinality(Dead) < MaxCrashes
    /\ holder' = holder \ {c}
    /\ Leave(c, "crashed")

ServerExits(c) ==
    /\ c \in Evaluator
    /\ Server!Exit(c)
    /\ UNCHANGED <<holder, storeVars>>

-----------------------------------------------------------------------------
Work(c) == AcquireLock(c) \/ UseStore(c) \/ UseServer(c) \/ ReleaseLock(c)

Next ==
    \/ \E c \in Command :
        \/ Status(c)
        \/ Work(c)
        \/ RefuseHeld(c)
        \/ EvaluateVisualQA(c)
        \/ Crash(c)
        \/ ServerExits(c)

Spec == Init /\ [][Next]_vars

KilledExits(c) == child[c] = "killed" /\ ServerExits(c)

\* A command goes on, its evaluation comes back, and a killed process exits.
FairSpec ==
    /\ Spec
    /\ \A c \in Command : WF_vars(Work(c))
    /\ \A c \in Evaluator : WF_vars(KilledExits(c))

-----------------------------------------------------------------------------
TypeOK ==
    /\ Store!TypeOK
    /\ Server!TypeOK
    /\ holder \subseteq Command

Writes(c) == at[c] \in {"adopting", "pointing"}

\* .active-workflow says what was last selected: by creating a workflow, by
\* `workflow use` or, for want of a selection, because there was no other
\* (workflow-store.ts resolveWorkflowId). Cancelling one workflow does not take
\* the selection from another, and what is selected was created completely or was
\* the only directory there. It takes a command that dies while it writes the file,
\* or an `amiral status` that adopts a workflow from a listing of before others
\* were created, to get it wrong.
SelectionStands ==
    ~ overtaken =>
        /\ pointer \subseteq chosen
        /\ Dead = {} /\ (\A c \in Command : ~ Writes(c)) => pointer = chosen
        /\ \A w \in pointer : made[w] > 0 \/ w \in adopted

\* history.json and state.json tell the same story: no event is of a state that was
\* never saved, but for what a run records before its save and died over
\* (workflow-mutator.ts appendFixTasks, scheduling-service.ts), and while nobody works
\* and nobody died no event is missing. That is with a pool of one runner:
\* DispatchPool is about the others.
HistoryAgrees ==
    \A w \in Workflow :
        /\ history[w] \subseteq 1 .. (IF w \in early THEN made[w] + 1 ELSE made[w])
        /\ holder = {} /\ Dead = {} => history[w] = 1 .. made[w]

\* Visual QA stops the server it started, however the evaluation ends: in the end
\* its process has exited, unless the command died first (visual-qa.ts
\* DevelopmentServerManager.start, VisualQAService.evaluate).
OwnServerStops ==
    \A c \in Evaluator : Server!IsRunning(c) ~> (~ Server!IsRunning(c) \/ c \in Dead)
=============================================================================
