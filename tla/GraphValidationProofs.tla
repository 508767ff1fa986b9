----------------------- MODULE GraphValidationProofs -----------------------
(***************************************************************************)
(* The cycle search is right for every task list: an accepted graph has an *)
(* order, and a refused one a cycle. The invariant says of the search what *)
(* a reader of its recursion would: the tasks whose visit returned are     *)
(* listed after their dependencies; a frame has its earlier dependencies   *)
(* behind it, and the one it came to last is the task of the next frame.   *)
(***************************************************************************)
EXTENDS GraphValidation, SequenceTheorems, TLAPS

Searching == verdict \in {"running", "accepted", "cycle"}

SearchTypes ==
    /\ verdict \in Verdict
    /\ root \in Nat \ {0}
    /\ visited \in Seq(Ids(tasks))
    /\ stack \in Seq([id : Ids(tasks), next : Nat \ {0}])
    /\ Searching => tasks \in Graphs /\ IsWellFormed(tasks)

\* visited is in order.
OrderInv ==
    \A k \in DOMAIN visited : \A d \in DependsOn(tasks, visited[k]) :
        \E j \in 1 .. k - 1 : visited[j] = d

\* The outer loop has no task left behind.
RootInv ==
    \A i \in DOMAIN tasks : i < root => tasks[i].id \in Visited \cup Visiting

\* The last dependency a frame came to is the task of the frame above, and all
\* before it are visited.
FrameInv(k) ==
    /\ \A j \in 1 .. stack[k].next - 1 :
         /\ j \in DOMAIN DepsOf(tasks, stack[k].id)
         /\ \/ DepsOf(tasks, stack[k].id)[j] \in Visited
            \/ k < Len(stack) /\ j = stack[k].next - 1
    /\ k < Len(stack) =>
         /\ stack[k].next >= 2
         /\ stack[k + 1].id = DepsOf(tasks, stack[k].id)[stack[k].next - 1]

StackInv == Searching => \A k \in DOMAIN stack : FrameInv(k)

VerdictInv ==
    /\ verdict = "accepted" => stack = <<>> /\ root > Len(tasks)
    /\ verdict = "cycle" =>
         /\ stack # <<>>
         /\ Top.next <= Len(DepsOf(tasks, Top.id))
         /\ Dependency \in Visiting

SearchInv ==
    SearchTypes /\ OrderInv /\ RootInv /\ StackInv /\ VerdictInv

-----------------------------------------------------------------------------
\* The dependencies of a task of a well-formed list are a list of its tasks.
LEMMA DependenciesAreTasks ==
    ASSUME NEW ts \in Graphs, NEW id \in Ids(ts), IsWellFormed(ts)
    PROVE  /\ IsList(DepsOf(ts, id))
           /\ DependsOn(ts, id) \subseteq Ids(ts)
<1> DEFINE i == CHOOSE i \in DOMAIN ts : ts[i].id = id
<1>1. i \in DOMAIN ts /\ ts[i].id = id
  BY DEF Ids
<1>2. IsList(ts[i].deps)
  BY <1>1, GraphsAssumption
<1>3. \A j \in DOMAIN ts[i].deps : ts[i].deps[j] \in Ids(ts)
  BY <1>1 DEF IsWellFormed, DependenciesExist
<1> QED BY <1>2, <1>3 DEF DepsOf, DependsOn

\* A search begins with nothing visited.
LEMMA BeginEstablishes ==
    ASSUME NEW ts \in Graphs, Begin(ts)
    PROVE  SearchInv'
<1> USE DEF Begin
<1>1. SearchTypes'
  BY DEF SearchTypes, Searching, Verdict
<1>2. OrderInv' /\ StackInv' /\ VerdictInv'
  BY DEF OrderInv, StackInv, VerdictInv, Searching
<1>3. RootInv'
  <2>1. DOMAIN ts = 1 .. Len(ts) /\ Len(ts) \in Nat
    BY GraphsAssumption DEF IsList
  <2> QED BY <2>1 DEF RootInv
<1> QED BY <1>1, <1>2, <1>3 DEF SearchInv

\* The outer loop takes its next task, and visits it unless it was visited.
LEMMA VisitRootKeeps ==
    ASSUME SearchInv, VisitRoot
    PROVE  SearchInv'
<1> DEFINE id == tasks[root].id
<1>0. /\ tasks \in Graphs /\ IsWellFormed(tasks) /\ stack = <<>>
      /\ root \in DOMAIN tasks /\ id \in Ids(tasks)
      /\ DOMAIN tasks = 1 .. Len(tasks) /\ Len(tasks) \in Nat
  BY GraphsAssumption DEF VisitRoot, SearchInv, SearchTypes, Searching, IsList, Ids
<1>1. (stack' = <<>> /\ id \in Visited) \/ stack' = <<Frame(id)>>
  BY DEF VisitRoot
<1>2. SearchTypes'
  <2>1. Frame(id) \in [id : Ids(tasks), next : Nat \ {0}]
    BY <1>0 DEF Frame
  <2>2. <<Frame(id)>> \in Seq([id : Ids(tasks), next : Nat \ {0}])
    BY <2>1, SeqDef
  <2>3. stack' \in Seq([id : Ids(tasks), next : Nat \ {0}])
    BY <1>0, <1>1, <2>2 DEF SearchInv, SearchTypes
  <2> QED BY <2>3 DEF VisitRoot, SearchInv, SearchTypes, Searching
<1>3. OrderInv'
  BY DEF VisitRoot, SearchInv, OrderInv
<1>4. RootInv'
  <2>1. Visited' = Visited /\ tasks' = tasks /\ root' = root + 1
    BY DEF VisitRoot, Visited
  <2>2. ASSUME NEW i \in DOMAIN tasks, i < root
        PROVE  tasks[i].id \in Visited
    BY <1>0, <2>2 DEF SearchInv, RootInv, Visiting
  <2>3. id \in Visited' \cup Visiting'
    BY <1>1, <2>1 DEF Visiting, Frame
  <2>4. root \in Nat
    BY DEF SearchInv, SearchTypes
  <2> QED BY <1>0, <2>1, <2>2, <2>3, <2>4 DEF RootInv
<1>5. StackInv'
  <2>1. CASE stack' = <<>>
    BY <2>1 DEF StackInv
  <2>2. CASE stack' = <<Frame(id)>>
    <3>1. DOMAIN stack' = {1} /\ Len(stack') = 1 /\ stack'[1].next = 1
      BY <2>2 DEF Frame
    <3> QED BY <3>1 DEF StackInv, FrameInv
  <2> QED BY <1>1, <2>1, <2>2
<1>6. VerdictInv'
  BY DEF VisitRoot, VerdictInv
<1> QED BY <1>2, <1>3, <1>4, <1>5, <1>6 DEF SearchInv

Frames == [id : Ids(tasks), next : Nat \ {0}]

\* When the topmost loop moves on, every frame keeps its task and only the
\* topmost one its dependency.
LEMMA AdvancedFrames ==
    ASSUME stack \in Seq(Frames), stack # <<>>
    PROVE  /\ Advanced \in Seq(Frames)
           /\ Len(Advanced) = Len(stack)
           /\ \A k \in 1 .. Len(stack) :
                /\ Advanced[k].id = stack[k].id
                /\ k < Len(stack) => Advanced[k] = stack[k]
           /\ Advanced[Len(stack)].next = Top.next + 1
<1> DEFINE n == Len(stack)
           f == [id |-> Top.id, next |-> Top.next + 1]
<1>1. n \in 1 .. Len(stack) /\ n \in Nat
  BY EmptySeq, LenProperties
<1>2. Top \in Frames
  BY <1>1, ElementOfSeq DEF Top
<1>3. f \in Frames
  BY <1>2 DEF Frames
<1>4. Advanced = [stack EXCEPT ![n] = f]
  <2>1. Top = [id |-> Top.id, next |-> Top.next]
    BY <1>2 DEF Frames
  <2>2. [Top EXCEPT !.next = Top.next + 1] = f
    BY <2>1
  <2> QED BY <2>2 DEF Advanced, Top
<1>5. f.id = Top.id /\ f.next = Top.next + 1
  OBVIOUS
<1> HIDE DEF f
<1>6. /\ Advanced \in Seq(Frames)
      /\ Len(Advanced) = n
      /\ \A k \in 1 .. n : Advanced[k] = IF k = n THEN f ELSE stack[k]
  BY <1>1, <1>3, <1>4, ExceptSeq
<1>7. \A k \in 1 .. n : k < n => k # n
  BY <1>1
<1> QED BY <1>1, <1>5, <1>6, <1>7 DEF Top

\* The facts about the topmost frame that every step of its loop starts from.
LEMMA TopFrame ==
    ASSUME SearchInv, verdict = "running", stack # <<>>
    PROVE  /\ tasks \in Graphs /\ IsWellFormed(tasks)
           /\ stack \in Seq(Frames) /\ Len(stack) \in Nat \ {0}
           /\ DOMAIN stack = 1 .. Len(stack)
           /\ Top \in Frames
           /\ IsList(DepsOf(tasks, Top.id))
           /\ DependsOn(tasks, Top.id) \subseteq Ids(tasks)
           /\ visited \in Seq(Ids(tasks)) /\ Len(visited) \in Nat
           /\ DOMAIN visited = 1 .. Len(visited)
           /\ \A k \in 1 .. Len(stack) : FrameInv(k)
<1>1. tasks \in Graphs /\ IsWellFormed(tasks) /\ stack \in Seq(Frames)
  BY DEF SearchInv, SearchTypes, Searching, Frames
<1>2. Len(stack) \in Nat \ {0} /\ DOMAIN stack = 1 .. Len(stack)
  BY <1>1, EmptySeq, LenProperties
<1>3. Top \in Frames
  BY <1>1, <1>2, ElementOfSeq DEF Top
<1>4. Top.id \in Ids(tasks)
  BY <1>3 DEF Frames
<1>5. visited \in Seq(Ids(tasks))
  BY DEF SearchInv, SearchTypes
<1>6. \A k \in 1 .. Len(stack) : FrameInv(k)
  BY <1>2 DEF SearchInv, StackInv, Searching
<1> QED BY <1>1, <1>2, <1>3, <1>4, <1>5, <1>6, DependenciesAreTasks, LenProperties

-----------------------------------------------------------------------------
\* The topmost loop's dependency was visited before: the loop moves on.
LEMMA SkipDependencyKeeps ==
    ASSUME SearchInv, VisitDependency, Dependency \in Visited
    PROVE  SearchInv'
<1> DEFINE n == Len(stack)
<1>0. /\ verdict = "running" /\ stack # <<>> /\ stack' = Advanced
      /\ Top.next <= Len(DepsOf(tasks, Top.id))
      /\ tasks' = tasks /\ root' = root /\ visited' = visited /\ verdict' = verdict
  BY DEF VisitDependency
<1>1. /\ tasks \in Graphs /\ IsWellFormed(tasks)
      /\ stack \in Seq(Frames) /\ n \in Nat \ {0}
      /\ DOMAIN stack = 1 .. n
      /\ Top \in Frames
      /\ IsList(DepsOf(tasks, Top.id))
      /\ \A k \in 1 .. n : FrameInv(k)
  BY <1>0, TopFrame
<1>2. /\ stack' \in Seq(Frames)
      /\ Len(stack') = n
      /\ \A k \in 1 .. n :
           /\ stack'[k].id = stack[k].id
           /\ k < n => stack'[k] = stack[k]
      /\ stack'[n].next = Top.next + 1
  BY <1>0, <1>1, AdvancedFrames
<1>3. DOMAIN stack' = 1 .. n
  BY <1>2, LenProperties
<1>4. Visited' = Visited /\ Visiting' = Visiting
  BY <1>0, <1>1, <1>2, <1>3 DEF Visited, Visiting
<1>5. SearchTypes'
  BY <1>0, <1>2 DEF SearchInv, SearchTypes, Searching, Frames
<1>6. OrderInv'
  BY <1>0 DEF SearchInv, OrderInv
<1>7. RootInv'
  BY <1>0, <1>4 DEF SearchInv, RootInv
<1>8. ASSUME NEW k \in 1 .. n
      PROVE  FrameInv(k)'
  <2>1. CASE k < n
    <3>1. FrameInv(k) /\ k + 1 \in 1 .. n
      BY <1>1, <2>1
    <3> QED BY <1>0, <1>2, <1>4, <2>1, <3>1 DEF FrameInv
  <2>2. CASE k = n
    <3>1. /\ Top.next \in Nat \ {0} /\ Top.next \in DOMAIN DepsOf(tasks, Top.id)
          /\ stack[n] = Top /\ ~(n < n)
      BY <1>0, <1>1 DEF IsList, Frames, Top
    <3>2. \A j \in 1 .. Top.next - 1 :
            j \in DOMAIN DepsOf(tasks, Top.id) /\ DepsOf(tasks, Top.id)[j] \in Visited
      BY <1>1, <3>1 DEF FrameInv
    <3>3. \A j \in 1 .. Top.next + 1 - 1 :
            j \in DOMAIN DepsOf(tasks, Top.id) /\ DepsOf(tasks, Top.id)[j] \in Visited
      BY <3>1, <3>2 DEF Dependency
    <3> QED BY <1>0, <1>2, <1>4, <2>2, <3>1, <3>3 DEF FrameInv
  <2>3. k < n \/ k = n
    <3>1. n \in Nat /\ k \in Int
      BY <1>1, <1>8
    <3> HIDE DEF n
    <3> QED BY <3>1, <1>8
  <2> QED BY <2>1, <2>2, <2>3
<1>9. StackInv'
  BY <1>3, <1>8 DEF StackInv
<1>10. VerdictInv'
  BY <1>0 DEF VerdictInv
<1> QED BY <1>5, <1>6, <1>7, <1>9, <1>10 DEF SearchInv

\* It was not: its visit begins.
LEMMA PushDependencyKeeps ==
    ASSUME SearchInv, VisitDependency, Dependency \notin Visited
    PROVE  SearchInv'
<1> DEFINE n == Len(stack)
           d == Dependency
<1>0. /\ verdict = "running" /\ stack # <<>> /\ stack' = Append(Advanced, Frame(d))
      /\ Top.next <= Len(DepsOf(tasks, Top.id))
      /\ tasks' = tasks /\ root' = root /\ visited' = visited /\ verdict' = verdict
  BY DEF VisitDependency
<1>1. /\ tasks \in Graphs /\ IsWellFormed(tasks)
      /\ stack \in Seq(Frames) /\ n \in Nat \ {0}
      /\ DOMAIN stack = 1 .. n
      /\ Top \in Frames
      /\ IsList(DepsOf(tasks, Top.id))
      /\ DependsOn(tasks, Top.id) \subseteq Ids(tasks)
      /\ \A k \in 1 .. n : FrameInv(k)
  BY <1>0, TopFrame
<1>2. Top.next \in Nat \ {0} /\ Top.next \in DOMAIN DepsOf(tasks, Top.id) /\ stack[n] = Top
  BY <1>0, <1>1 DEF IsList, Frames, Top
<1>3. d \in Ids(tasks) /\ d = DepsOf(tasks, Top.id)[Top.next]
  BY <1>1, <1>2 DEF Dependency, DependsOn
<1>4. Frame(d) \in Frames /\ Frame(d).id = d /\ Frame(d).next = 1
  BY <1>3 DEF Frame, Frames
<1>5. /\ Advanced \in Seq(Frames)
      /\ Len(Advanced) = n
      /\ \A k \in 1 .. n :
           /\ Advanced[k].id = stack[k].id
           /\ k < n => Advanced[k] = stack[k]
      /\ Advanced[n].next = Top.next + 1
  BY <1>0, <1>1, AdvancedFrames
<1>6. /\ stack' \in Seq(Frames)
      /\ Len(stack') = n + 1
      /\ \A k \in 1 .. n : stack'[k] = Advanced[k]
      /\ stack'[n + 1] = Frame(d)
  BY <1>0, <1>4, <1>5, AppendProperties
<1>7. DOMAIN stack' = 1 .. n + 1
  BY <1>6, LenProperties
<1>8. Visited' = Visited /\ Visiting \subseteq Visiting'
  BY <1>0, <1>1, <1>5, <1>6, <1>7 DEF Visited, Visiting
<1>9. SearchTypes'
  BY <1>0, <1>6 DEF SearchInv, SearchTypes, Searching, Frames
<1>10. OrderInv'
  BY <1>0 DEF SearchInv, OrderInv
<1>11. RootInv'
  BY <1>0, <1>8 DEF SearchInv, RootInv
<1>12. ASSUME NEW k \in 1 .. n + 1
       PROVE  FrameInv(k)'
  <2>1. CASE k < n
    <3>1. FrameInv(k) /\ k \in 1 .. n /\ k + 1 \in 1 .. n /\ k < n + 1
      BY <1>1, <2>1
    <3>2. stack'[k] = stack[k] /\ stack'[k + 1].id = stack[k + 1].id
      BY <1>5, <1>6, <2>1, <3>1
    <3> QED BY <1>0, <1>6, <1>8, <2>1, <3>1, <3>2 DEF FrameInv
  <2>2. CASE k = n
    <3>1. n \in 1 .. n /\ ~(n < n) /\ n < n + 1
      BY <1>1
    <3>2. \A j \in 1 .. Top.next - 1 :
            j \in DOMAIN DepsOf(tasks, Top.id) /\ DepsOf(tasks, Top.id)[j] \in Visited
      BY <1>1, <1>2, <3>1 DEF FrameInv
    <3>3. stack'[n].id = Top.id /\ stack'[n].next = Top.next + 1 /\ stack'[n + 1].id = d
      BY <1>2, <1>4, <1>5, <1>6, <3>1
    <3>4. /\ \A j \in 1 .. Top.next + 1 - 1 :
               /\ j \in DOMAIN DepsOf(tasks, Top.id)
               /\ DepsOf(tasks, Top.id)[j] \in Visited \/ j = Top.next + 1 - 1
          /\ Top.next + 1 >= 2
          /\ d = DepsOf(tasks, Top.id)[Top.next + 1 - 1]
      BY <1>2, <1>3, <3>2
    <3>5. DepsOf(tasks', stack'[n].id) = DepsOf(tasks, Top.id)
      BY <1>0, <3>3
    <3>6. Len(stack') = n + 1 /\ Visited' = Visited
      BY <1>6, <1>8
    <3> HIDE DEF n, d
    <3>7. \A j \in 1 .. stack'[n].next - 1 :
            /\ j \in DOMAIN DepsOf(tasks', stack'[n].id)
            /\ \/ DepsOf(tasks', stack'[n].id)[j] \in Visited'
               \/ n < Len(stack') /\ j = stack'[n].next - 1
      BY <1>2, <3>1, <3>3, <3>4, <3>5, <3>6
    <3>8. /\ stack'[n].next >= 2
          /\ stack'[n + 1].id = DepsOf(tasks', stack'[n].id)[stack'[n].next - 1]
      BY <1>2, <3>3, <3>4, <3>5
    <3> QED BY <2>2, <3>7, <3>8 DEF FrameInv
  <2>3. CASE k = n + 1
    BY <1>1, <1>4, <1>6, <2>3 DEF FrameInv
  <2>4. k < n \/ k = n \/ k = n + 1
    <3>1. n \in Nat /\ k \in Int
      BY <1>1, <1>12
    <3> HIDE DEF n
    <3> QED BY <3>1, <1>12
  <2> QED BY <2>1, <2>2, <2>3, <2>4
<1>13. StackInv'
  BY <1>7, <1>12 DEF StackInv
<1>14. VerdictInv'
  BY <1>0 DEF VerdictInv
<1> QED BY <1>9, <1>10, <1>11, <1>13, <1>14 DEF SearchInv

\* A dependency on the stack ends the search.
LEMMA FindCycleKeeps ==
    ASSUME SearchInv, FindCycle
    PROVE  SearchInv'
<1>1. /\ stack # <<>> /\ verdict = "running" /\ verdict' = "cycle"
      /\ Top.next <= Len(DepsOf(tasks, Top.id)) /\ Dependency \in Visiting
      /\ tasks' = tasks /\ root' = root /\ visited' = visited /\ stack' = stack
  BY DEF FindCycle
<1>2. SearchTypes'
  BY <1>1 DEF SearchInv, SearchTypes, Searching, Verdict
<1>3. OrderInv' /\ RootInv'
  BY <1>1 DEF SearchInv, OrderInv, RootInv, Visited, Visiting
<1>4. StackInv'
  BY <1>1 DEF SearchInv, StackInv, Searching, FrameInv, Visited
<1>5. VerdictInv'
  BY <1>1 DEF VerdictInv, Top, Dependency, Visiting
<1> QED BY <1>2, <1>3, <1>4, <1>5 DEF SearchInv

\* The outer loop has no task left.
LEMMA AcceptKeeps ==
    ASSUME SearchInv, Accept
    PROVE  SearchInv'
<1>1. /\ stack = <<>> /\ verdict = "running" /\ verdict' = "accepted" /\ root > Len(tasks)
      /\ tasks' = tasks /\ root' = root /\ visited' = visited /\ stack' = stack
  BY DEF Accept
<1>2. SearchTypes'
  BY <1>1 DEF SearchInv, SearchTypes, Searching, Verdict
<1>3. OrderInv' /\ RootInv'
  BY <1>1 DEF SearchInv, OrderInv, RootInv, Visited, Visiting
<1>4. StackInv'
  BY <1>1 DEF SearchInv, StackInv, Searching, FrameInv, Visited
<1>5. VerdictInv'
  BY <1>1 DEF VerdictInv
<1> QED BY <1>2, <1>3, <1>4, <1>5 DEF SearchInv

\* The topmost visit returns: its task has all its dependencies in visited and
\* is listed after them.
LEMMA ReturnKeeps ==
    ASSUME SearchInv, Return
    PROVE  SearchInv'
<1> DEFINE n == Len(stack)
           v == Len(visited)
<1>0. /\ verdict = "running" /\ stack # <<>>
      /\ stack' = SubSeq(stack, 1, n - 1)
      /\ Top.next > Len(DepsOf(tasks, Top.id))
      /\ visited' = Append(visited, Top.id)
      /\ tasks' = tasks /\ root' = root /\ verdict' = verdict
  BY DEF Return
<1>1. /\ tasks \in Graphs /\ IsWellFormed(tasks)
      /\ stack \in Seq(Frames) /\ n \in Nat \ {0}
      /\ DOMAIN stack = 1 .. n
      /\ Top \in Frames
      /\ IsList(DepsOf(tasks, Top.id))
      /\ visited \in Seq(Ids(tasks)) /\ v \in Nat
      /\ DOMAIN visited = 1 .. v
      /\ \A k \in 1 .. n : FrameInv(k)
  BY <1>0, TopFrame
<1>2. Top.next \in Nat \ {0} /\ Top.id \in Ids(tasks) /\ stack[n] = Top
  BY <1>1 DEF Frames, Top
<1>3. /\ stack' \in Seq(Frames)
      /\ Len(stack') = n - 1
      /\ \A k \in 1 .. n - 1 : stack'[k] = stack[k]
  <2>1. 1 \in 1 .. n /\ n - 1 \in 0 .. n
    BY <1>1
  <2> QED BY <1>0, <1>1, <2>1, SubSeqProperties
<1>4. DOMAIN stack' = 1 .. n - 1
  BY <1>3, LenProperties
<1>5. /\ visited' \in Seq(Ids(tasks))
      /\ Len(visited') = v + 1
      /\ \A k \in 1 .. v : visited'[k] = visited[k]
      /\ visited'[v + 1] = Top.id
      /\ DOMAIN visited' = 1 .. v + 1
  BY <1>0, <1>1, <1>2, AppendProperties, LenProperties
<1>6. Visited' = Visited \cup {Top.id}
  <2>1. Visited = {visited[k] : k \in 1 .. v} /\ Visited' = {visited'[k] : k \in 1 .. v + 1}
    BY <1>1, <1>5 DEF Visited
  <2>2. \A k \in 1 .. v + 1 : k \in 1 .. v \/ k = v + 1
    BY <1>1
  <2>3. 1 .. v \subseteq 1 .. v + 1 /\ v + 1 \in 1 .. v + 1
    BY <1>1
  <2> QED BY <1>5, <2>1, <2>2, <2>3, Zenon
<1>7. Visiting \subseteq Visiting' \cup {Top.id}
  BY <1>1, <1>2, <1>3, <1>4 DEF Visiting
<1>8. SearchTypes'
  BY <1>0, <1>3, <1>5 DEF SearchInv, SearchTypes, Searching, Frames
<1>9. OrderInv'
  <2>1. \A j \in DOMAIN DepsOf(tasks, Top.id) : DepsOf(tasks, Top.id)[j] \in Visited
    <3>1. FrameInv(n) /\ ~(n < n)
      BY <1>1
    <3>2. \A j \in DOMAIN DepsOf(tasks, Top.id) : j \in 1 .. Top.next - 1
      BY <1>0, <1>1, <1>2 DEF IsList
    <3> QED BY <1>2, <3>1, <3>2 DEF FrameInv
  <2>2. \A d \in DependsOn(tasks, Top.id) : \E j \in 1 .. v : visited[j] = d
    BY <1>1, <2>1 DEF DependsOn, Visited
  <2>3. ASSUME NEW k \in 1 .. v + 1, NEW d \in DependsOn(tasks, visited'[k])
        PROVE  \E j \in 1 .. k - 1 : visited'[j] = d
    <3>1. CASE k = v + 1
      BY <1>1, <1>5, <2>2, <3>1
    <3>2. CASE k \in 1 .. v
      <4>1. PICK j \in 1 .. k - 1 : visited[j] = d
        BY <1>1, <1>5, <3>2 DEF SearchInv, OrderInv
      <4>2. j \in 1 .. v
        BY <1>1, <3>2, <4>1
      <4> QED BY <1>5, <4>1, <4>2
    <3> QED BY <1>1, <3>1, <3>2
  <2> QED BY <1>0, <1>5, <2>3 DEF OrderInv
<1>10. RootInv'
  BY <1>0, <1>6, <1>7 DEF SearchInv, RootInv
<1>11. ASSUME NEW k \in 1 .. n - 1
       PROVE  FrameInv(k)'
  <2>1. /\ FrameInv(k) /\ k \in Nat /\ k < n /\ k + 1 \in 1 .. n
        /\ stack'[k] = stack[k]
    BY <1>1, <1>3
  <2>2. CASE k < n - 1
    <3>1. k + 1 \in 1 .. n - 1
      BY <1>1, <2>2
    <3> QED BY <1>0, <1>3, <1>6, <2>1, <2>2, <3>1 DEF FrameInv
  <2>3. CASE k = n - 1
    <3>1. k + 1 = n /\ ~(k < n - 1)
      BY <1>1, <2>3
    <3>2. DepsOf(tasks, stack[k].id)[stack[k].next - 1] = Top.id
      BY <1>2, <2>1, <3>1 DEF FrameInv
    <3>3. \A j \in 1 .. stack[k].next - 1 :
            /\ j \in DOMAIN DepsOf(tasks, stack[k].id)
            /\ DepsOf(tasks, stack[k].id)[j] \in Visited \cup {Top.id}
      BY <2>1, <3>2 DEF FrameInv
    <3> QED BY <1>0, <1>3, <1>6, <2>1, <3>1, <3>3 DEF FrameInv
  <2>4. k < n - 1 \/ k = n - 1
    <3>1. n \in Nat /\ k \in Int
      BY <1>1, <1>11
    <3> HIDE DEF n
    <3> QED BY <3>1, <1>11
  <2> QED BY <2>2, <2>3, <2>4
<1>12. StackInv'
  BY <1>4, <1>11 DEF StackInv
<1>13. VerdictInv'
  BY <1>0 DEF VerdictInv
<1> QED BY <1>8, <1>9, <1>10, <1>12, <1>13 DEF SearchInv

-----------------------------------------------------------------------------
\* The invariant holds of every behaviour of the validator.
THEOREM SearchIsSound == Validation => []SearchInv
<1>1. NothingValidated => SearchInv
  <2> SUFFICES ASSUME NothingValidated PROVE SearchInv
    OBVIOUS
  <2> USE DEF NothingValidated
  <2>1. SearchTypes
    BY DEF SearchTypes, Searching, Verdict
  <2>2. OrderInv /\ RootInv
    BY DEF OrderInv, RootInv
  <2>3. StackInv /\ VerdictInv
    BY DEF StackInv, VerdictInv, Searching
  <2> QED BY <2>1, <2>2, <2>3 DEF SearchInv
<1>2. SearchInv /\ [(\E ts \in Graphs : Begin(ts)) \/ Search]_search => SearchInv'
  <2> SUFFICES ASSUME SearchInv, [(\E ts \in Graphs : Begin(ts)) \/ Search]_search
               PROVE  SearchInv'
    OBVIOUS
  <2>1. CASE \E ts \in Graphs : Begin(ts)
    BY <2>1, BeginEstablishes
  <2>2. CASE VisitRoot
    BY <2>2, VisitRootKeeps
  <2>3. CASE VisitDependency
    BY <2>3, SkipDependencyKeeps, PushDependencyKeeps
  <2>4. CASE FindCycle
    BY <2>4, FindCycleKeeps
  <2>5. CASE Return
    BY <2>5, ReturnKeeps
  <2>6. CASE Accept
    BY <2>6, AcceptKeeps
  <2>7. CASE UNCHANGED search
    <3>1. /\ tasks' = tasks /\ root' = root /\ stack' = stack
          /\ visited' = visited /\ verdict' = verdict
      BY <2>7 DEF search
    <3>2. SearchTypes' /\ OrderInv' /\ RootInv'
      BY <3>1 DEF SearchInv, SearchTypes, Searching, OrderInv, RootInv, Visited, Visiting
    <3>3. StackInv' /\ VerdictInv'
      BY <3>1 DEF SearchInv, StackInv, Searching, FrameInv, VerdictInv, Visited, Visiting,
                  Top, Dependency
    <3> QED BY <3>2, <3>3 DEF SearchInv
  <2> QED BY <2>1, <2>2, <2>3, <2>4, <2>5, <2>6, <2>7 DEF Search
<1> QED BY <1>1, <1>2, PTL DEF Validation

\* Every accepted task list has an order in which all dependencies come first
\* (assertNoDependencyCycles accepts no cycle, of any length).
THEOREM AcceptedGraphsAreOrdered == Validation => []AcceptedIsOrdered
<1>1. SearchInv => AcceptedIsOrdered
  <2> SUFFICES ASSUME SearchInv, verdict = "accepted"
               PROVE  IsWellFormed(tasks) /\ ListsDependenciesFirst(visited, tasks)
    BY DEF AcceptedIsOrdered
  <2>1. /\ tasks \in Graphs /\ IsWellFormed(tasks)
        /\ stack = <<>> /\ root > Len(tasks) /\ root \in Nat
    BY DEF SearchInv, SearchTypes, Searching, VerdictInv
  <2>2. DOMAIN tasks = 1 .. Len(tasks) /\ Len(tasks) \in Nat
    BY <2>1, GraphsAssumption DEF IsList
  <2>3. \A id \in Ids(tasks) : id \in Visited
    BY <2>1, <2>2 DEF SearchInv, RootInv, Visiting, Ids
  <2>4. ListsDependenciesFirst(visited, tasks)
    BY <2>3 DEF ListsDependenciesFirst, Visited, SearchInv, OrderInv
  <2> QED BY <2>1, <2>4
<1> QED BY <1>1, SearchIsSound, PTL

\* "Circular dependency detected" is only said of a list in which tasks depend
\* on each other in a circle.
THEOREM RefusedGraphsAreCyclic == Validation => []CycleIsReal
<1>1. SearchInv => CycleIsReal
  <2> SUFFICES ASSUME SearchInv, verdict = "cycle"
               PROVE  ClosesCycle
    BY DEF CycleIsReal
  <2>1. /\ tasks \in Graphs /\ IsWellFormed(tasks)
        /\ stack \in Seq(Frames) /\ stack # <<>>
        /\ Top.next <= Len(DepsOf(tasks, Top.id)) /\ Dependency \in Visiting
        /\ \A k \in DOMAIN stack : FrameInv(k)
    BY DEF SearchInv, SearchTypes, Searching, StackInv, VerdictInv, Frames
  <2>2. DOMAIN stack = 1 .. Len(stack) /\ Len(stack) \in Nat \ {0}
    BY <2>1, EmptySeq, LenProperties
  <2>3. \A k \in DOMAIN stack : stack[k] \in Frames
    BY <2>1, <2>2, ElementOfSeq
  <2>4. Dependency \in DependsOn(tasks, Top.id)
    <3>1. Top \in Frames
      BY <2>2, <2>3 DEF Top
    <3>2. Top.next \in DOMAIN DepsOf(tasks, Top.id)
      BY <2>1, <3>1, DependenciesAreTasks DEF IsList, Frames
    <3> QED BY <3>2 DEF Dependency, DependsOn
  <2>5. PICK i \in DOMAIN stack : stack[i].id = Dependency
    BY <2>1 DEF Visiting
  <2>6. ASSUME NEW k \in i .. Len(stack) - 1
        PROVE  stack[k + 1].id \in DependsOn(tasks, stack[k].id)
    <3>1. k \in DOMAIN stack /\ k < Len(stack)
      BY <2>2, <2>6
    <3>2. stack[k].next \in Nat /\ stack[k].next >= 2
      BY <2>1, <2>3, <3>1 DEF FrameInv, Frames
    <3>3. stack[k].next - 1 \in 1 .. stack[k].next - 1
      BY <3>2
    <3>4. /\ stack[k].next - 1 \in DOMAIN DepsOf(tasks, stack[k].id)
          /\ stack[k + 1].id = DepsOf(tasks, stack[k].id)[stack[k].next - 1]
      BY <2>1, <3>1, <3>3 DEF FrameInv
    <3> QED BY <3>4 DEF DependsOn
  <2> QED BY <2>4, <2>5, <2>6 DEF ClosesCycle
<1> QED BY <1>1, SearchIsSound, PTL

\* Whatever list it is given, of any length, the validator's verdict is right: it accepts
\* no cycle and refuses nothing but cycles (assertNoDependencyCycles).
THEOREM VerdictsAreRight == Validation => []VerdictIsRight
BY AcceptedGraphsAreOrdered, RefusedGraphsAreCyclic, PTL DEF VerdictIsRight

-----------------------------------------------------------------------------
(* Every search ends, of a list with a cycle as of one without.            *)

\* The tasks the search has come to.
Seen == Visited \cup Visiting

\* The outer loop is a task further; or a task more was come to; or a visit has
\* returned; or the loop of the topmost visit is a dependency further. None of these
\* can happen for ever unless one named before it happens.
SearchCloser ==
    /\ tasks' = tasks
    /\ Seen' \subseteq Ids(tasks)
    /\ \/ root' \in root + 1 .. Len(tasks) + 1
       \/ root' = root /\ Seen \subseteq Seen' /\ Seen' # Seen
       \/ root' = root /\ Seen' = Seen /\ Len(stack') < Len(stack)
       \/ /\ root' = root /\ Seen' = Seen /\ Len(stack') = Len(stack)
          /\ Top'.id = Top.id
          /\ Top'.next \in Top.next + 1 .. Len(DepsOf(tasks, Top.id)) + 1

\* While the search has no verdict, every step brings it closer to one.
SearchesRunDown ==
    [][verdict = "running" => verdict' # "running" \/ SearchCloser]_search

LEMMA SeenAreTasks == SearchInv => Seen \subseteq Ids(tasks)
<1> SUFFICES ASSUME SearchInv PROVE Seen \subseteq Ids(tasks)
  OBVIOUS
<1>1. visited \in Seq(Ids(tasks)) /\ stack \in Seq(Frames)
  BY DEF SearchInv, SearchTypes, Frames
<1>2. \A k \in DOMAIN visited : visited[k] \in Ids(tasks)
  BY <1>1, ElementOfSeq
<1>3. \A k \in DOMAIN stack : stack[k] \in Frames
  BY <1>1, ElementOfSeq
<1> QED BY <1>2, <1>3 DEF Seen, Visited, Visiting, Frames

LEMMA SeenStayTasks == (SearchInv => Seen \subseteq Ids(tasks))'
BY SeenAreTasks, PTL

\* The loop of the topmost visit passes over what was visited.
LEMMA SkippingIsCloser ==
    ASSUME SearchInv, VisitDependency, Dependency \in Visited
    PROVE  SearchCloser
<1> DEFINE n == Len(stack)
<1>0. /\ verdict = "running" /\ stack # <<>> /\ stack' = Advanced
      /\ Top.next <= Len(DepsOf(tasks, Top.id))
      /\ tasks' = tasks /\ root' = root /\ visited' = visited
  BY DEF VisitDependency
<1>1. /\ stack \in Seq(Frames) /\ n \in Nat \ {0}
      /\ DOMAIN stack = 1 .. n
      /\ Top \in Frames
      /\ IsList(DepsOf(tasks, Top.id))
  BY <1>0, TopFrame
<1>2. /\ stack' \in Seq(Frames)
      /\ Len(stack') = n
      /\ \A k \in 1 .. n : stack'[k].id = stack[k].id
      /\ stack'[n].next = Top.next + 1
  BY <1>0, <1>1, AdvancedFrames
<1>3. DOMAIN stack' = 1 .. n
  BY <1>2, LenProperties
<1>4. Seen' = Seen
  BY <1>0, <1>1, <1>2, <1>3 DEF Seen, Visited, Visiting
<1>5. Top'.id = Top.id /\ Top'.next = Top.next + 1
  BY <1>1, <1>2 DEF Top
<1>6. Top.next + 1 \in Top.next + 1 .. Len(DepsOf(tasks, Top.id)) + 1
  BY <1>0, <1>1 DEF IsList, Frames
<1> QED BY <1>0, <1>2, <1>4, <1>5, <1>6, SeenAreTasks DEF SearchCloser

\* A visit begins: of a task the search had not come to.
LEMMA PushingIsCloser ==
    ASSUME SearchInv, VisitDependency, Dependency \notin Visited
    PROVE  SearchCloser
<1> DEFINE n == Len(stack)
           d == Dependency
<1>0. /\ verdict = "running" /\ stack # <<>> /\ stack' = Append(Advanced, Frame(d))
      /\ d \notin Visiting
      /\ tasks' = tasks /\ root' = root /\ visited' = visited
  BY DEF VisitDependency
<1>1. /\ stack \in Seq(Frames) /\ n \in Nat \ {0}
      /\ DOMAIN stack = 1 .. n
  BY <1>0, TopFrame
<1>2. /\ Advanced \in Seq(Frames) /\ Len(Advanced) = n
      /\ \A k \in 1 .. n : Advanced[k].id = stack[k].id
  BY <1>0, <1>1, AdvancedFrames
<1>3. SearchInv'
  BY PushDependencyKeeps
<1>4. Seen' \subseteq Ids(tasks)
  BY <1>0, <1>3, SeenStayTasks
<1>5. stack' \in Seq(Frames \cup {Frame(d)})
  BY <1>0, <1>2, AppendProperties
<1>6. /\ Len(stack') = n + 1
      /\ \A k \in 1 .. n : stack'[k] = Advanced[k]
      /\ stack'[n + 1] = Frame(d)
  BY <1>0, <1>2, AppendProperties
<1>7. DOMAIN stack' = 1 .. n + 1
  BY <1>5, <1>6, LenProperties
<1>8. Frame(d).id = d
  BY DEF Frame
<1>9. Visiting \subseteq Visiting' /\ d \in Visiting'
  <2>1. \A k \in 1 .. n : k \in 1 .. n + 1 /\ stack'[k].id = stack[k].id
    BY <1>1, <1>2, <1>6
  <2>2. n + 1 \in 1 .. n + 1 /\ stack'[n + 1].id = d
    BY <1>1, <1>6, <1>8
  <2> QED BY <1>1, <1>7, <2>1, <2>2 DEF Visiting
<1>10. Seen \subseteq Seen' /\ d \in Seen' /\ d \notin Seen
  BY <1>0, <1>9 DEF Seen, Visited
<1> QED BY <1>0, <1>4, <1>10 DEF SearchCloser

\* A visit returns, and its task stays seen.
LEMMA ReturningIsCloser ==
    ASSUME SearchInv, Return
    PROVE  SearchCloser
<1> DEFINE n == Len(stack)
           v == Len(visited)
<1>0. /\ verdict = "running" /\ stack # <<>>
      /\ stack' = SubSeq(stack, 1, n - 1)
      /\ visited' = Append(visited, Top.id)
      /\ tasks' = tasks /\ root' = root
  BY DEF Return
<1>1. /\ stack \in Seq(Frames) /\ n \in Nat \ {0}
      /\ DOMAIN stack = 1 .. n
      /\ Top \in Frames
      /\ visited \in Seq(Ids(tasks)) /\ v \in Nat
      /\ DOMAIN visited = 1 .. v
  BY <1>0, TopFrame
<1>2. /\ stack' \in Seq(Frames)
      /\ Len(stack') = n - 1
      /\ \A k \in 1 .. n - 1 : stack'[k] = stack[k]
  <2>1. 1 \in 1 .. n /\ n - 1 \in 0 .. n
    BY <1>1
  <2> QED BY <1>0, <1>1, <2>1, SubSeqProperties
<1>3. DOMAIN stack' = 1 .. n - 1
  BY <1>2, LenProperties
<1>4. /\ Len(visited') = v + 1
      /\ \A k \in 1 .. v : visited'[k] = visited[k]
      /\ visited'[v + 1] = Top.id
      /\ DOMAIN visited' = 1 .. v + 1
  <2>1. Top.id \in Ids(tasks)
    BY <1>1 DEF Frames
  <2> QED BY <1>0, <1>1, <2>1, AppendProperties, LenProperties
<1>5. Visited' = Visited \cup {Top.id}
  <2>1. Visited = {visited[k] : k \in 1 .. v} /\ Visited' = {visited'[k] : k \in 1 .. v + 1}
    BY <1>1, <1>4 DEF Visited
  <2>2. \A k \in 1 .. v + 1 : k \in 1 .. v \/ k = v + 1
    BY <1>1
  <2>3. 1 .. v \subseteq 1 .. v + 1 /\ v + 1 \in 1 .. v + 1
    BY <1>1
  <2> QED BY <1>4, <2>1, <2>2, <2>3, Zenon
<1>6. Visiting = Visiting' \cup {Top.id}
  <2>1. Visiting = {stack[k].id : k \in 1 .. n} /\ Visiting' = {stack'[k].id : k \in 1 .. n - 1}
    BY <1>1, <1>3 DEF Visiting
  <2>2. \A k \in 1 .. n : k \in 1 .. n - 1 \/ k = n
    <3>1. \A m \in Nat \ {0} : \A k \in 1 .. m : k \in 1 .. m - 1 \/ k = m
      OBVIOUS
    <3> QED BY <1>1, <3>1, Zenon
  <2>3. 1 .. n - 1 \subseteq 1 .. n /\ n \in 1 .. n /\ stack[n].id = Top.id
    BY <1>1 DEF Top
  <2> QED BY <1>2, <2>1, <2>2, <2>3, Zenon
<1>7. Seen' = Seen
  BY <1>5, <1>6 DEF Seen
<1>8. Len(stack') < Len(stack)
  BY <1>1, <1>2
<1> QED BY <1>0, <1>7, <1>8, SeenAreTasks DEF SearchCloser

LEMMA SearchComesCloser ==
    ASSUME SearchInv, Search
    PROVE  verdict' # "running" \/ SearchCloser
<1>1. CASE VisitRoot
  <2>1. SearchInv'
    BY <1>1, VisitRootKeeps
  <2>2. tasks' = tasks /\ root' = root + 1 /\ root <= Len(tasks)
    BY <1>1 DEF VisitRoot
  <2>3. Seen' \subseteq Ids(tasks)
    BY <2>1, <2>2, SeenStayTasks
  <2>4. root \in Nat /\ Len(tasks) \in Nat
    BY <1>1, GraphsAssumption DEF VisitRoot, SearchInv, SearchTypes, Searching, IsList
  <2>5. root' \in root + 1 .. Len(tasks) + 1
    BY <2>2, <2>4
  <2> QED BY <2>2, <2>3, <2>5 DEF SearchCloser
<1>2. CASE VisitDependency
  BY <1>2, SkippingIsCloser, PushingIsCloser
<1>3. CASE FindCycle \/ Accept
  BY <1>3 DEF FindCycle, Accept
<1>4. CASE Return
  BY <1>4, ReturningIsCloser
<1> QED BY <1>1, <1>2, <1>3, <1>4 DEF Search

\* assertNoDependencyCycles returns or throws for every task list, however its
\* dependencies are tangled: no path of its recursion is endless.
THEOREM SearchesEnd == Validation => SearchesRunDown
<1>1. SearchInv /\ [(\E ts \in Graphs : Begin(ts)) \/ Search]_search
        => [verdict = "running" => verdict' # "running" \/ SearchCloser]_search
  BY SearchComesCloser DEF Begin
<1> QED BY <1>1, SearchIsSound, PTL DEF Validation, SearchesRunDown
=============================================================================
