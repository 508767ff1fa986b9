--------------------------- MODULE GraphAnalysis ---------------------------
(***************************************************************************)
(* analyzeTaskGraph: what `amiral plan` reports of an accepted graph. The  *)
(* lists of the report that only filter tasks by a field are left out.     *)
(***************************************************************************)
EXTENDS GraphValidation, FiniteSets, FiniteSetsExt

\* getTransitiveDependencies: what is in every set that holds the dependencies
\* of id and, with a task, the task's own.
Ancestors(ts, id) ==
    LET Closed(A) == \A a \in A \cap Ids(ts) : DependsOn(ts, a) \subseteq A
        Known == UNION {DependsOn(ts, i) : i \in Ids(ts)}
    IN {a \in Known :
          \A A \in SUBSET Known : DependsOn(ts, id) \subseteq A /\ Closed(A) => a \in A}

AreIndependent(ts, a, b) ==
    a # b /\ b \notin Ancestors(ts, a) /\ a \notin Ancestors(ts, b)

\* The pairs, in list order, that no dependency orders though they share a domain.
ConflictWarnings(ts) ==
    LET Pairs == {p \in (DOMAIN ts) \X (DOMAIN ts) :
                     p[1] < p[2] /\ AreIndependent(ts, ts[p[1]].id, ts[p[2]].id)}
        Shared(p) == {<<ts[p[1]].id, ts[p[2]].id, d>> : d \in ts[p[1]].domains \cap ts[p[2]].domains}
    IN UNION {Shared(p) : p \in Pairs}

\* Mutant: the shortest chain of dependencies.
DepthsShortest(ts) ==
    LET depth[id \in Ids(ts)] ==
            IF DependsOn(ts, id) = {} THEN 0 ELSE Min({depth[d] + 1 : d \in DependsOn(ts, id)})
    IN depth

\* computeDependencyDepth, for graphs without cycles.
Depths(ts) ==
    LET depth[id \in Ids(ts)] == Max({0} \cup {depth[d] + 1 : d \in DependsOn(ts, id)})
    IN depth

\* The fields of TaskGraphAnalysis that relate tasks to each other; a parallel
\* group is the set of the tasks of one level.
AnalyzeTaskGraph(ts) ==
    LET depth == Depths(ts)
        maxDepth == Max({depth[id] : id \in Ids(ts)})
    IN [roots    |-> {id \in Ids(ts) : DependsOn(ts, id) = {}},
        leaves   |-> {id \in Ids(ts) : \A t \in Ids(ts) : id \notin DependsOn(ts, t)},
        edges    |-> Cardinality({e \in Ids(ts) \X Ids(ts) : e[2] \in DependsOn(ts, e[1])}),
        maxDepth |-> maxDepth,
        groups   |-> [level \in 0 .. maxDepth |-> {id \in Ids(ts) : depth[id] = level}],
        warnings |-> ConflictWarnings(ts)]

\* Level by level, the groups are a schedule: every task is in one of them, its
\* dependencies are in earlier ones, and tasks of one group may run together,
\* which is what `parallelGroups` claims. Two of them that share a domain, and
\* would be held apart by the scheduler, are named in a warning.
IsSchedule(analysis, ts) ==
    /\ UNION {analysis.groups[l] : l \in DOMAIN analysis.groups} = Ids(ts)
    /\ analysis.groups[0] = analysis.roots
    /\ \A l \in DOMAIN analysis.groups : \A a \in analysis.groups[l] :
         /\ DependsOn(ts, a) \subseteq UNION {analysis.groups[k] : k \in 0 .. l - 1}
         /\ \A b \in analysis.groups[l] \ {a} : AreIndependent(ts, a, b)
    /\ \A i, j \in DOMAIN ts, l \in DOMAIN analysis.groups :
         i < j /\ {ts[i].id, ts[j].id} \subseteq analysis.groups[l] =>
           \A d \in ts[i].domains \cap ts[j].domains :
             <<ts[i].id, ts[j].id, d>> \in analysis.warnings
=============================================================================
