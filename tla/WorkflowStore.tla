--------------------------- MODULE WorkflowStore ---------------------------
(***************************************************************************)
(* The files under tasks/: a directory for each workflow with its          *)
(* state.json and history.json, and .active-workflow, the selection that   *)
(* commands without an id act on. A file is written in place, truncation   *)
(* and content one after the other, and whoever reads it in between finds  *)
(* a workflow that does not load, an empty history or no selection.        *)
(*                                                                         *)
(* The actions are the steps of one command c. ProjectCommands says which  *)
(* commands may take them at the same time.                                *)
(***************************************************************************)
EXTENDS Integers, FiniteSets

CONSTANTS
    Command,    \* the commands started in the project
    Workflow,   \* the ids of workflows
    Earlier,    \* those a workflow may have got before
    MaxSaves    \* bound: how often the state of a workflow is saved

VARIABLES
    present,    \* the workflows that have a directory
    loadable,   \* those whose state.json can be read
    cancelled,  \* those whose status is cancelled
    history,    \* history[w]: the events in history.json; none if it is unreadable
    pointer,    \* .active-workflow: the workflow it names, if any
    at,         \* at[c]: the step c is at
    job,        \* job[c]: what c was told to do
    on,         \* on[c]: the workflow c works on
    memory,     \* memory[c]: the history that c is writing
    made,       \* history: how many states of w were saved; event n is of the nth
    early,      \* history: workflows with an event whose state is still to be saved
    chosen,     \* history: the workflow that was last selected
    adopted,    \* history: workflows selected because there was no other
    overtaken   \* history: whether one of those had become one of several

At ==
    {"new", "body", "resolve", "check", "list", "adopt", "adopting", "load", "save",
     "saving", "append", "appending", "point", "pointing", "unpoint", "unlink", "work",
     "evaluate", "release", "ended", "crashed"}

Job == {"none", "create", "use", "run", "claim", "retry", "cancel", "status"}

vars ==
    <<present, loadable, cancelled, history, pointer, at, job, on, memory, made, early,
      chosen, adopted, overtaken>>

stateFiles == <<present, loadable, cancelled, made>>
historyFiles == <<history, memory, early>>
selection == <<pointer, chosen, adopted, overtaken>>
commandState == <<job, on>>

\* Some workflows may have been created before, and one of them be selected.
Init ==
    /\ present \in SUBSET Earlier
    /\ loadable = present
    /\ cancelled = {}
    /\ made = [w \in Workflow |-> IF w \in present THEN 1 ELSE 0]
    /\ history = [w \in Workflow |-> 1 .. made[w]]
    /\ pointer \in {{}} \cup {{w} : w \in present}
    /\ at = [c \in Command |-> "new"]
    /\ job = [c \in Command |-> "none"]
    /\ on = [c \in Command |-> {}]
    /\ memory = [c \in Command |-> {}]
    /\ early = {}
    /\ chosen = pointer
    /\ adopted = {}
    /\ overtaken = FALSE

Go(c, step) == at' = [at EXCEPT ![c] = step]

\* `amiral status` and `workflow history` have no lock to release.
End(c) == Go(c, IF job[c] = "status" THEN "ended" ELSE "release")

-----------------------------------------------------------------------------
\* What a command may be told to do.

\* createWorkflowFromGraph makes the directory and writes the graph, which no
\* resolution looks at.
CreateWorkflow(c) ==
    /\ at[c] = "body"
    /\ \E w \in Workflow \ present :
        /\ present' = present \cup {w}
        /\ on' = [on EXCEPT ![c] = {w}]
    /\ job' = [job EXCEPT ![c] = "create"]
    /\ Go(c, "save")
    /\ UNCHANGED <<loadable, cancelled, made, historyFiles, selection>>

\* Mutant: an id is taken without looking whether it is a workflow's.
NameAnything(c) ==
    /\ at[c] = "body"
    /\ \E w \in Workflow, j \in {"use", "run", "retry", "cancel"} :
        /\ job' = [job EXCEPT ![c] = j]
        /\ on' = [on EXCEPT ![c] = {w}]
        /\ Go(c, IF j = "use" THEN "point" ELSE "load")
    /\ UNCHANGED <<stateFiles, historyFiles, selection>>

\* A command with an id: it must load.
NameWorkflow(c) ==
    /\ at[c] = "body"
    /\ \E w \in Workflow, j \in {"use", "run", "retry", "cancel"} :
        /\ job' = [job EXCEPT ![c] = j]
        /\ on' = [on EXCEPT ![c] = {w}]
        /\ Go(c, IF w \notin loadable THEN "release"
                 ELSE IF j = "use" THEN "point" ELSE "load")
    /\ UNCHANGED <<stateFiles, historyFiles, selection>>

\* A command without an id.
OmitWorkflow(c) ==
    /\ at[c] = "body"
    /\ \E j \in {"run", "retry"} : job' = [job EXCEPT ![c] = j]
    /\ Go(c, "resolve")
    /\ UNCHANGED <<on, stateFiles, historyFiles, selection>>

-----------------------------------------------------------------------------
\* resolveWorkflowId, one step per file it reads or writes.

ReadPointer(c) ==
    /\ at[c] = "resolve"
    /\ on' = [on EXCEPT ![c] = pointer]
    /\ Go(c, IF pointer = {} THEN "list" ELSE "check")
    /\ UNCHANGED <<job, stateFiles, historyFiles, selection>>

CheckActive(c) ==
    /\ at[c] = "check"
    /\ Go(c, IF on[c] \subseteq loadable THEN "load" ELSE "list")
    /\ UNCHANGED <<commandState, stateFiles, historyFiles, selection>>

\* A directory counts, whatever is in it.
ListWorkflows(c) ==
    /\ at[c] = "list"
    /\ IF Cardinality(present) = 1
       THEN on' = [on EXCEPT ![c] = present] /\ Go(c, "adopt")
       ELSE on' = [on EXCEPT ![c] = {}] /\ End(c)
    /\ UNCHANGED <<job, stateFiles, historyFiles, selection>>

AdoptTruncates(c) ==
    /\ at[c] = "adopt"
    /\ pointer' = {}
    /\ Go(c, "adopting")
    /\ UNCHANGED <<commandState, stateFiles, historyFiles, chosen, adopted, overtaken>>

AdoptWrites(c) ==
    /\ at[c] = "adopting"
    /\ pointer' = on[c]
    /\ chosen' = IF chosen = {} THEN on[c] ELSE chosen
    /\ adopted' = adopted \cup on[c]
    /\ overtaken' = (overtaken \/ present # on[c])
    /\ Go(c, "load")
    /\ UNCHANGED <<commandState, stateFiles, historyFiles>>

-----------------------------------------------------------------------------
\* The work on a workflow.

\* A refusal of retry or cancel (a task that may not be reset, a completed or
\* cancelled workflow) ends the command, and so does a file that does not load.
Load(c) ==
    /\ at[c] = "load"
    /\ \/ End(c)
       \/ /\ on[c] \subseteq loadable
          /\ \/ job[c] = "run" /\ on[c] \cap cancelled = {} /\ Go(c, "work")
             \/ /\ \/ job[c] = "retry"
                   \/ job[c] = "cancel" /\ on[c] \cap cancelled = {}
                /\ \A w \in on[c] : made[w] < MaxSaves
                /\ Go(c, "save")
    /\ UNCHANGED <<commandState, stateFiles, historyFiles, selection>>

\* A run saves an outcome and then records it ...
Change(c) ==
    /\ at[c] = "work"
    /\ \A w \in on[c] : made[w] < MaxSaves
    /\ Go(c, "save")
    /\ UNCHANGED <<commandState, stateFiles, historyFiles, selection>>

\* ... but claims, lapsed leases, due retries and fix tasks it records before the
\* save.
RecordFirst(c) ==
    /\ at[c] = "work"
    /\ \A w \in on[c] : made[w] < MaxSaves
    /\ job' = [job EXCEPT ![c] = "claim"]
    /\ Go(c, "append")
    /\ UNCHANGED <<on, stateFiles, historyFiles, selection>>

Finish(c) ==
    /\ at[c] = "work"
    /\ End(c)
    /\ UNCHANGED <<commandState, stateFiles, historyFiles, selection>>

SaveTruncates(c) ==
    /\ at[c] = "save"
    /\ loadable' = loadable \ on[c]
    /\ Go(c, "saving")
    /\ UNCHANGED <<commandState, present, cancelled, made, historyFiles, selection>>

\* A retry derives the status afresh, and a cancellation is gone.
SaveWrites(c) ==
    /\ at[c] = "saving"
    /\ loadable' = loadable \cup on[c]
    /\ cancelled' = IF job[c] = "cancel" THEN cancelled \cup on[c] ELSE cancelled \ on[c]
    /\ made' = [w \in Workflow |-> IF w \in on[c] THEN made[w] + 1 ELSE made[w]]
    /\ early' = early \ on[c]
    /\ job' = [job EXCEPT ![c] = IF job[c] = "claim" THEN "run" ELSE job[c]]
    /\ Go(c, IF job[c] = "claim" THEN "work" ELSE "append")
    /\ UNCHANGED <<on, present, history, memory, selection>>

\* The event is of the state just saved, or of the one to be saved next.
Event(c, w) == IF job[c] = "claim" THEN made[w] + 1 ELSE made[w]

\* Mutant: the history is written anew instead of extended.
AppendAnew(c) ==
    /\ at[c] = "append"
    /\ \E w \in on[c] :
        /\ memory' = [memory EXCEPT ![c] = {Event(c, w)}]
        /\ history' = [history EXCEPT ![w] = {}]
    /\ Go(c, "appending")
    /\ UNCHANGED <<commandState, stateFiles, early, selection>>

AppendTruncates(c) ==
    /\ at[c] = "append"
    /\ \E w \in on[c] :
        /\ memory' = [memory EXCEPT ![c] = history[w] \cup {Event(c, w)}]
        /\ history' = [history EXCEPT ![w] = {}]
    /\ Go(c, "appending")
    /\ UNCHANGED <<commandState, stateFiles, early, selection>>

AppendWrites(c) ==
    /\ at[c] = "appending"
    /\ history' = [w \in Workflow |-> IF w \in on[c] THEN memory[c] ELSE history[w]]
    /\ memory' = [memory EXCEPT ![c] = {}]
    /\ early' = IF job[c] = "claim" THEN early \cup on[c] ELSE early
    /\ CASE job[c] = "create" -> Go(c, "point")
         [] job[c] = "cancel" -> Go(c, "unpoint")
         [] job[c] = "claim" -> Go(c, "save")
         [] job[c] = "run" -> Go(c, "work")
         [] job[c] = "retry" -> End(c)
    /\ UNCHANGED <<commandState, stateFiles, selection>>

-----------------------------------------------------------------------------
\* The selection by the operator.

PointTruncates(c) ==
    /\ at[c] = "point"
    /\ pointer' = {}
    /\ Go(c, "pointing")
    /\ UNCHANGED <<commandState, stateFiles, historyFiles, chosen, adopted, overtaken>>

\* A workflow that was created for a run is then executed.
PointWrites(c) ==
    /\ at[c] = "pointing"
    /\ pointer' = on[c]
    /\ chosen' = on[c]
    /\ IF job[c] = "create"
       THEN job' = [job EXCEPT ![c] = "run"] /\ Go(c, "work")
       ELSE UNCHANGED job /\ End(c)
    /\ UNCHANGED <<on, stateFiles, historyFiles, adopted, overtaken>>

\* Mutant: a cancellation clears the selection, whatever is selected.
UnpointAny(c) ==
    /\ at[c] = "unpoint"
    /\ Go(c, "unlink")
    /\ UNCHANGED <<commandState, stateFiles, historyFiles, selection>>

\* cancelWorkflow looks whether its workflow is selected ...
Unpoint(c) ==
    /\ at[c] = "unpoint"
    /\ IF pointer = on[c] THEN Go(c, "unlink") ELSE End(c)
    /\ UNCHANGED <<commandState, stateFiles, historyFiles, selection>>

\* ... and then removes the file; a write to it that is under way is lost with it.
Unlink(c) ==
    /\ at[c] = "unlink"
    /\ pointer' = {}
    /\ chosen' = chosen \ on[c]
    /\ at' = [d \in Command |-> IF d = c THEN "release"
                                ELSE IF at[d] = "adopting" THEN "load" ELSE at[d]]
    /\ UNCHANGED <<commandState, stateFiles, historyFiles, adopted, overtaken>>

-----------------------------------------------------------------------------
\* The steps of `amiral status`, which other commands take as well, and the rest.
Resolve(c) ==
    \/ ReadPointer(c)
    \/ CheckActive(c)
    \/ ListWorkflows(c)
    \/ AdoptTruncates(c)
    \/ AdoptWrites(c)
    \/ Load(c)

Mutate(c) ==
    \/ CreateWorkflow(c)
    \/ NameWorkflow(c)
    \/ OmitWorkflow(c)
    \/ Change(c)
    \/ RecordFirst(c)
    \/ Finish(c)
    \/ SaveTruncates(c)
    \/ SaveWrites(c)
    \/ AppendTruncates(c)
    \/ AppendWrites(c)
    \/ PointTruncates(c)
    \/ PointWrites(c)
    \/ Unpoint(c)
    \/ Unlink(c)

-----------------------------------------------------------------------------
TypeOK ==
    /\ present \subseteq Workflow
    /\ loadable \subseteq present
    /\ cancelled \subseteq present
    /\ history \in [Workflow -> SUBSET (1 .. MaxSaves)]
    /\ pointer \in SUBSET present /\ Cardinality(pointer) <= 1
    /\ at \in [Command -> At]
    /\ job \in [Command -> Job]
    /\ on \in [Command -> SUBSET Workflow]
    /\ memory \in [Command -> SUBSET (1 .. MaxSaves)]
    /\ made \in [Workflow -> 0 .. MaxSaves]
    /\ early \subseteq present
    /\ chosen \subseteq present
    /\ adopted \subseteq present
    /\ overtaken \in BOOLEAN
=============================================================================
