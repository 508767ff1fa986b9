-------------------------- MODULE GraphValidation --------------------------
(***************************************************************************)
(* validateTaskGraphSemantics: what makes a list of tasks a graph the      *)
(* runtime accepts. The checks of ids and dependencies are conditions on   *)
(* the list; the cycle search is the depth first search of                 *)
(* assertNoDependencyCycles, one step per call and per return of `visit`.  *)
(*                                                                         *)
(* The call stack is `stack`: each frame is a task and the dependency its  *)
(* loop has come to. The source's sets `visiting` and `visited` are the    *)
(* tasks on the stack and the sequence in which calls returned.            *)
(***************************************************************************)
EXTENDS Naturals, Sequences

CONSTANT Graphs     \* the task lists that may be validated

IsList(s) == Len(s) \in Nat /\ DOMAIN s = 1 .. Len(s)

\* A task has at least an id and a list of dependencies.
ASSUME GraphsAssumption ==
    \A ts \in Graphs : IsList(ts) /\ \A i \in DOMAIN ts : IsList(ts[i].deps)

VARIABLES
    tasks,      \* the list that is validated
    root,       \* the task the outer loop has come to
    stack,      \* the frames of visit
    visited,    \* the tasks whose visit returned, in that order
    verdict     \* what validation has found so far

search == <<tasks, root, stack, visited, verdict>>

Verdict == {"idle", "running", "accepted", "malformed", "cycle"}

Ids(ts) == {ts[i].id : i \in DOMAIN ts}

\* byId.get(id).dependencies
DepsOf(ts, id) == ts[CHOOSE i \in DOMAIN ts : ts[i].id = id].deps

DependsOn(ts, id) == {DepsOf(ts, id)[j] : j \in DOMAIN DepsOf(ts, id)}

HasUniqueIds(ts) == \A i, j \in DOMAIN ts : ts[i].id = ts[j].id => i = j

\* No dependency on itself, on an unknown task, or twice on the same.
DependenciesExist(ts) ==
    \A i \in DOMAIN ts : \A j \in DOMAIN ts[i].deps :
        /\ ts[i].deps[j] # ts[i].id
        /\ ts[i].deps[j] \in Ids(ts)
        /\ \A k \in DOMAIN ts[i].deps : ts[i].deps[k] = ts[i].deps[j] => k = j

IsWellFormed(ts) == Len(ts) > 0 /\ HasUniqueIds(ts) /\ DependenciesExist(ts)

-----------------------------------------------------------------------------
\* The cycle search.

Frame(id) == [id |-> id, next |-> 1]

Top == stack[Len(stack)]

Visiting == {stack[i].id : i \in DOMAIN stack}

\* Mutant: a task counts as visited as soon as its visit begins.
VisitedEarly == {visited[i] : i \in DOMAIN visited} \cup Visiting

Visited == {visited[i] : i \in DOMAIN visited}

Dependency == DepsOf(tasks, Top.id)[Top.next]

Begin(ts) ==
    /\ verdict # "running"
    /\ tasks' = ts
    /\ root' = 1
    /\ stack' = <<>>
    /\ visited' = <<>>
    /\ verdict' = IF IsWellFormed(ts) THEN "running" ELSE "malformed"

VisitRoot ==
    /\ verdict = "running"
    /\ stack = <<>>
    /\ root <= Len(tasks)
    /\ root' = root + 1
    /\ stack' = IF tasks[root].id \in Visited THEN <<>> ELSE <<Frame(tasks[root].id)>>
    /\ UNCHANGED <<tasks, visited, verdict>>

\* The loop of the topmost call moves on to its next dependency.
Advanced == [stack EXCEPT ![Len(stack)].next = @ + 1]

VisitDependency ==
    /\ verdict = "running"
    /\ stack # <<>>
    /\ Top.next <= Len(DepsOf(tasks, Top.id))
    /\ Dependency \notin Visiting \/ Dependency \in Visited
    /\ stack' = IF Dependency \in Visited
                THEN Advanced
                ELSE Append(Advanced, Frame(Dependency))
    /\ UNCHANGED <<tasks, root, visited, verdict>>

\* Mutant: `visiting` keeps the tasks whose visit has returned and is asked first.
FindSharedAsCycle ==
    /\ verdict = "running"
    /\ stack # <<>>
    /\ Top.next <= Len(DepsOf(tasks, Top.id))
    /\ Dependency \in Visiting \cup Visited
    /\ verdict' = "cycle"
    /\ UNCHANGED <<tasks, root, stack, visited>>

FindCycle ==
    /\ verdict = "running"
    /\ stack # <<>>
    /\ Top.next <= Len(DepsOf(tasks, Top.id))
    /\ Dependency \in Visiting \ Visited
    /\ verdict' = "cycle"
    /\ UNCHANGED <<tasks, root, stack, visited>>

Return ==
    /\ verdict = "running"
    /\ stack # <<>>
    /\ Top.next > Len(DepsOf(tasks, Top.id))
    /\ stack' = SubSeq(stack, 1, Len(stack) - 1)
    /\ visited' = Append(visited, Top.id)
    /\ UNCHANGED <<tasks, root, verdict>>

Accept ==
    /\ verdict = "running"
    /\ stack = <<>>
    /\ root > Len(tasks)
    /\ verdict' = "accepted"
    /\ UNCHANGED <<tasks, root, stack, visited>>

Search == VisitRoot \/ VisitDependency \/ FindCycle \/ Return \/ Accept

NothingValidated ==
    /\ tasks = <<>>
    /\ root = 1
    /\ stack = <<>>
    /\ visited = <<>>
    /\ verdict = "idle"

\* The validator, whoever calls it and however often.
Validation ==
    NothingValidated /\ [][(\E ts \in Graphs : Begin(ts)) \/ Search]_search

-----------------------------------------------------------------------------
\* What a verdict promises.

\* seq lists every task of ts after all of its dependencies.
ListsDependenciesFirst(seq, ts) ==
    \A id \in Ids(ts) : \E k \in DOMAIN seq :
        /\ seq[k] = id
        /\ \A d \in DependsOn(ts, id) : \E j \in 1 .. k - 1 : seq[j] = d

\* An accepted graph can be worked off: the order in which the search returned
\* from its tasks is one in which every dependency comes first, for the list in
\* any order (assertNoDependencyCycles). A search that marks a task as visited
\* too early accepts a cycle.
AcceptedIsOrdered ==
    verdict = "accepted" => IsWellFormed(tasks) /\ ListsDependenciesFirst(visited, tasks)

\* From some frame on, the stack is a chain of dependencies that the dependency
\* the search came to closes.
ClosesCycle ==
    \E i \in DOMAIN stack :
        /\ stack[i].id = Dependency
        /\ \A k \in i .. Len(stack) - 1 : stack[k + 1].id \in DependsOn(tasks, stack[k].id)
        /\ Dependency \in DependsOn(tasks, Top.id)

\* "Circular dependency detected" is never said of a graph without one: the
\* tasks from the repeated one to the top of the stack depend on each other in
\* a circle. A search that kept a task in `visiting` after its visit returned
\* would refuse two tasks that share a dependency.
CycleIsReal == verdict = "cycle" => ClosesCycle

\* The search misses no cycle and invents none.
VerdictIsRight == AcceptedIsOrdered /\ CycleIsReal
=============================================================================
