--------------------------- MODULE DeliveryProofs ---------------------------
(***************************************************************************)
(* No recorded work is lost on its way through git, and what passes QA has *)
(* all of it, for any number of tasks, leases, agents, mishaps and         *)
(* clean-up policies.                                                      *)
(***************************************************************************)
EXTENDS Delivery, WellFoundedInduction, TLAPS

Executes == run \in {"worktree", "artifacts", "agent", "finalize", "apply"}

\* Where a run is, it has a task in progress, that task's worktree and a result of
\* its lease; tasks are merged by a run that merges, and a completed workflow is
\* not run.
RunInv ==
    /\ Executes =>
        current \in Task /\ status[current] = "in_progress" /\ lease[current] > 0
    /\ ~ Executes => current = NoTask
    /\ Executes /\ run # "worktree" => worktree[current] \in Worktree
    /\ run \in {"finalize", "apply"} => result \in Result /\ result.lease = lease[current]
    /\ run # "merge" => toMerge = {}
    /\ workflow = "completed" => run = "idle"

\* What the agent changed is in the worktree until it is committed.
EditInv ==
    /\ run \in {"worktree", "artifacts"} => ~ edited
    /\ edited /\ run \in {"agent", "finalize"} =>
        <<current, lease[current]>> \in worktree[current].edits
    /\ edited /\ run = "apply" /\ result.status = "completed" =>
        <<current, lease[current]>> \in branch[current]

\* No worktree has a copy among its edits.
NoCopiesInv ==
    /\ \A t, u \in Task : worktree[t] # Nothing => <<u, 0>> \notin worktree[t].edits
    /\ CopiesStayOut

\* A fix task's branch starts from what was integrated when the fix was asked for.
FixInv ==
    /\ \A t \in Task : status[t] = "absent" => branch[t] = Nothing
    /\ \A f \in FixTasks :
        /\ reviewed[f] \subseteq History(integration)
        /\ branch[f] # Nothing => reviewed[f] \subseteq branch[f]

\* A task is routed once: the choice among the agents does not depend on the last.
RoutingInv ==
    \A t \in Task :
        /\ agent[t] = FirstAgent[t] \/ agent[t] \in SelectAgent(FirstAgent[t], Routing[t])
        /\ lease[t] > 0 => agent[t] \in SelectAgent(FirstAgent[t], Routing[t])
        /\ status[t] \in {"in_progress", "completed"} => lease[t] > 0

Integrated == run \in {"merge", "gates"} \/ workflow = "completed"

\* All completed work that no gate's agent did is integrated, or is still to be.
MergeInv ==
    /\ Integrated => integration \in SUBSET Edit
    /\ Integrated =>
        \A t \in Task : status[t] = "completed" /\ ~ IsGateTask(t) /\ t \notin toMerge =>
            reported[t] \ discarded \subseteq History(integration)
    /\ \A t \in toMerge : status[t] = "completed" /\ ~ IsGateTask(t)

\* A task with work that is not integrated, which integration will come to.
IsAwaited(t) ==
    /\ branch[t] # Nothing /\ ~ IsMerged(t)
    /\ status[t] # "absent" /\ ~ IsGateTask(t) /\ lease[t] > 0
    /\ run = "merge" => t \in toMerge

\* A merge that is half way is of a branch that integration will come to again.
HalfInv ==
    halfMerged /\ discarded = {} =>
        /\ integration \in SUBSET Edit
        /\ run # "gates" /\ workflow # "completed"
        /\ \E t \in Task : IsAwaited(t)

DeliveryInv ==
    /\ TypeOK
    /\ RunInv
    /\ EditInv
    /\ NoCopiesInv
    /\ FixInv
    /\ RoutingInv
    /\ CompletedIsKept
    /\ MergeInv
    /\ HalfInv

-----------------------------------------------------------------------------
(* The least element of a set, and the choices that rest on it.            *)

Less == {p \in Nat \X Nat : p[1] < p[2]}

LEMMA LeastExists ==
    ASSUME NEW S, S \subseteq Nat, S # {}
    PROVE  \E m \in S : \A k \in S : m <= k
<1>1. Less = OpToRel(<, Nat)
    BY DEF Less, OpToRel
<1>2. IsWellFoundedOn(Less, Nat)
    BY <1>1, NatLessThanWellFounded, Zenon
<1>3. PICK m \in S : \A k \in S : <<k, m>> \notin Less
    BY <1>2, WFMin
<1>4. \A k \in S : ~ (k < m)
    BY <1>3 DEF Less
<1> QED
    BY <1>4

LEMMA NextIsToMerge ==
    ASSUME TypeOK, toMerge # {}
    PROVE  NextToMerge \in toMerge
<1>1. toMerge \subseteq Nat
    BY DEF TypeOK, Task
<1>2. \E t \in toMerge : \A u \in toMerge : t <= u
    BY <1>1, LeastExists
<1> QED
    BY <1>2 DEF NextToMerge

LEMMA ScoreType ==
    ASSUME NEW a \in Agent, NEW preferred \in Seq(Agent)
    PROVE  Score(a, preferred) \in Int
<1>1. Priority[a] \in Int
    BY AgentAssumption
<1>2. CASE \E i \in DOMAIN preferred : preferred[i] = a
    <2> DEFINE places == {i \in DOMAIN preferred : preferred[i] = a}
    <2>1. places \subseteq Nat /\ places # {}
        BY <1>2
    <2>2. PICK m \in places : \A k \in places : m <= k
        BY <2>1, LeastExists
    <2>3. \A j \in 1 .. m - 1 : preferred[j] # a
        <3>1. \A j \in 1 .. m - 1 : j \in DOMAIN preferred /\ ~ (m <= j)
            OBVIOUS
        <3> QED
            BY <2>2, <3>1
    <2> DEFINE place == CHOOSE i \in DOMAIN preferred :
                            preferred[i] = a /\ \A j \in 1 .. i - 1 : preferred[j] # a
    <2>4. place \in DOMAIN preferred
        BY <2>2, <2>3
    <2>5. place \in Int
        BY <2>4
    <2>6. Preference(a, preferred) =
            IF 25 - 5 * (place - 1) > 1 THEN 25 - 5 * (place - 1) ELSE 1
        BY <1>2 DEF Preference
    <2> HIDE DEF place
    <2>7. Preference(a, preferred) \in Int
        BY <2>5, <2>6
    <2> QED
        BY <1>1, <2>7 DEF Score
<1>3. CASE ~ \E i \in DOMAIN preferred : preferred[i] = a
    <2>1. Preference(a, preferred) = 0
        BY <1>3 DEF Preference
    <2> QED
        BY <1>1, <2>1 DEF Score
<1> QED
    BY <1>2, <1>3

\* The order that selectAgentForTask sorts the agents by.
IsBefore(a, b, preferred) ==
    \/ Score(a, preferred) > Score(b, preferred)
    \/ Score(a, preferred) = Score(b, preferred) /\ a <= b

\* Of agents that score differently, or are ordered, some is before all others.
LEMMA BestExists ==
    ASSUME NEW preferred \in Seq(Agent), NEW C, C \subseteq Agent, C # {}
    PROVE  \E a \in C : \A b \in C : IsBefore(a, b, preferred)
<1> DEFINE First(n) == {a \in C : a <= n}
           HasBest(n) == First(n) # {} =>
               \E a \in First(n) : \A b \in First(n) : IsBefore(a, b, preferred)
           Bad == {n \in 0 .. NumAgents : ~ HasBest(n)}
<1>0. /\ NumAgents \in Nat
      /\ \A a \in Agent : a \in 1 .. NumAgents /\ Score(a, preferred) \in Int
    BY AgentAssumption, ScoreType DEF Agent
<1>1. Bad = {}
    <2> SUFFICES ASSUME Bad # {} PROVE FALSE
        OBVIOUS
    <2>1. Bad \subseteq Nat
        BY <1>0
    <2>2. PICK n \in Bad : \A k \in Bad : n <= k
        BY <2>1, LeastExists
    <2>3. First(0) = {}
        BY <1>0
    <2>4. n \in 1 .. NumAgents
        BY <1>0, <2>2, <2>3
    <2>5. n - 1 \in 0 .. NumAgents /\ ~ (n <= n - 1)
        BY <1>0, <2>4
    <2>6. HasBest(n - 1)
        BY <2>2, <2>5
    <2>7. \A a \in C : a <= n <=> a <= n - 1 \/ a = n
        <3>1. \A i, j \in Int : i <= j <=> i <= j - 1 \/ i = j
            OBVIOUS
        <3>2. n \in Int /\ \A a \in C : a \in Int
            BY <1>0, <2>4
        <3> QED
            BY <3>1, <3>2, Zenon
    <2>8. First(n) = First(n - 1) \cup (IF n \in C THEN {n} ELSE {})
        BY <1>0, <2>4, <2>7
    <2> DEFINE F == First(n - 1)
    <2>9. First(n) = F \cup (IF n \in C THEN {n} ELSE {}) /\ F \subseteq C
        BY <2>8
    <2>10. F # {} => \E a \in F : \A b \in F : IsBefore(a, b, preferred)
        BY <2>6
    <2>11. First(n) # {} /\ ~ \E a \in First(n) : \A b \in First(n) : IsBefore(a, b, preferred)
        BY <2>2
    <2> HIDE DEF First, F
    <2>12. n \in C
        BY <2>9, <2>10, <2>11
    <2>13. IsBefore(n, n, preferred)
        BY <1>0, <2>12 DEF IsBefore
    <2>14. F # {}
        BY <2>9, <2>11, <2>12, <2>13
    <2>15. PICK a \in F : \A b \in F : IsBefore(a, b, preferred)
        BY <2>10, <2>14
    <2>16. IsBefore(a, n, preferred) \/ IsBefore(n, a, preferred)
        BY <1>0, <2>9, <2>12 DEF IsBefore
    <2>17. IsBefore(n, a, preferred) => \A b \in F : IsBefore(n, b, preferred)
        BY <1>0, <2>9, <2>12, <2>15 DEF IsBefore
    <2> QED
        BY <2>9, <2>11, <2>12, <2>13, <2>15, <2>16, <2>17
<1>2. HasBest(NumAgents)
    <2>1. NumAgents \in 0 .. NumAgents
        BY <1>0
    <2> HIDE DEF HasBest
    <2> QED
        BY <1>1, <2>1
<1>3. First(NumAgents) = C
    BY <1>0
<1> QED
    BY <1>2, <1>3

\* Whatever agent a routed task was given before, the choice is the same, and there
\* is exactly one: of the agents that have all the capabilities the task requires, none
\* of which scores higher (selectAgentForTask). It is an error exactly if nobody has
\* them, and that error ends the round of every task (routeReadyTasks).
THEOREM RoutingChoosesOne ==
    ASSUME NEW t \in Task, NEW a \in Agent, IsRouted(Routing[t])
    PROVE  LET routing == Routing[t]
               capable == {b \in Agent : routing.required \subseteq Capabilities[b]}
           IN  /\ capable = {} => SelectAgent(a, routing) = {}
               /\ capable # {} =>
                      \E b \in capable :
                          /\ SelectAgent(a, routing) = {b}
                          /\ \A c \in capable :
                                 Score(c, routing.preferred) <= Score(b, routing.preferred)
<1> DEFINE routing == Routing[t]
           capable == {b \in Agent : routing.required \subseteq Capabilities[b]}
<1>1. SelectAgent(a, routing) =
          {b \in capable : \A c \in capable : IsBefore(b, c, routing.preferred)}
    BY DEF SelectAgent, Candidates, IsBefore
<1>2. routing.preferred \in Seq(Agent)
    BY DeliveryAssumption
<1>3. \A b \in Agent : b \in Int /\ Score(b, routing.preferred) \in Int
    BY <1>2, ScoreType, AgentAssumption DEF Agent
<1>4. capable \subseteq Agent
    OBVIOUS
<1> DEFINE preferred == routing.preferred
<1> HIDE DEF capable, preferred
<1>5. ASSUME capable # {}
      PROVE  \E b \in capable : /\ SelectAgent(a, routing) = {b}
                                /\ \A c \in capable : Score(c, preferred) <= Score(b, preferred)
    <2>1. PICK b \in capable : \A c \in capable : IsBefore(b, c, preferred)
        BY <1>2, <1>4, <1>5, BestExists DEF preferred
    <2>2. \A c \in capable : IsBefore(c, b, preferred) => c = b
        BY <1>3, <1>4, <2>1 DEF IsBefore, preferred
    <2>3. SelectAgent(a, routing) = {b}
        BY <1>1, <2>1, <2>2 DEF preferred
    <2>4. \A c \in capable : Score(c, preferred) <= Score(b, preferred)
        BY <1>3, <1>4, <2>1 DEF IsBefore, preferred
    <2> QED
        BY <2>3, <2>4
<1>6. capable = {} => SelectAgent(a, routing) = {}
    BY <1>1
<1> QED
    BY <1>5, <1>6 DEF capable, preferred

\* Routing a task once more chooses the same agent.
LEMMA RoutedOnce ==
    ASSUME NEW t \in Task, NEW a,
           NEW b \in SelectAgent(a, Routing[t]), NEW c \in SelectAgent(b, Routing[t])
    PROVE  c = b /\ c \in SelectAgent(a, Routing[t])
<1> DEFINE routing == Routing[t]
           Beats(x, y) == \/ Score(x, routing.preferred) > Score(y, routing.preferred)
                          \/ /\ Score(x, routing.preferred) = Score(y, routing.preferred)
                             /\ x <= y
<1>1. CASE ~ IsRouted(routing)
    BY <1>1 DEF SelectAgent
<1>2. CASE IsRouted(routing)
    <2>1. /\ b \in Candidates(routing.required) /\ c \in Candidates(routing.required)
          /\ \A x \in Candidates(routing.required) : Beats(b, x) /\ Beats(c, x)
        BY <1>2 DEF SelectAgent
    <2>2. /\ b \in Agent /\ c \in Agent
          /\ Beats(b, c) /\ Beats(c, b)
        BY <2>1 DEF Candidates
    <2>3. routing.preferred \in Seq(Agent)
        BY DeliveryAssumption
    <2>4. /\ Score(b, routing.preferred) \in Int
          /\ Score(c, routing.preferred) \in Int
        BY <2>2, <2>3, ScoreType
    <2>5. b <= c /\ c <= b
        BY <2>2, <2>4
    <2>6. c = b
        BY <2>2, <2>5, AgentAssumption DEF Agent
    <2> QED
        BY <2>6
<1> QED
    BY <1>1, <1>2

LEMMA RoutedToAgent ==
    ASSUME NEW t \in Task, NEW a \in Agent
    PROVE  SelectAgent(a, Routing[t]) \subseteq Agent
BY DEF SelectAgent, Candidates

-----------------------------------------------------------------------------
(* Types.                                                                  *)

LEMMA NextCases ==
    ASSUME [Next]_vars
    PROVE  \/ StartRun \/ RunPauses \/ Crash
           \/ \E t \in Task : RecoverLease(t)
           \/ \E t \in Task : Claim(t)
           \/ \E t \in Task : Retry(t)
           \/ ReuseWorktree \/ CreateWorktree \/ WorktreeFails \/ MaterializeArtifacts
           \/ AgentEdits \/ AgentEnds \/ ProviderFails \/ FinalizeTask \/ FinalizeFails
           \/ ApplyResult
           \/ StartIntegration \/ MergeNext \/ StartGates \/ GatesAskForFixes \/ GatesPass
           \/ \E policy \in Policies : Clean(policy)
           \/ UNCHANGED vars
BY DEF Next, Ended

LEMMA Histories ==
    /\ \A h \in (SUBSET Edit) \cup {Nothing} : History(h) \in SUBSET Edit
    /\ \A h \in SUBSET Edit : History(h) = h /\ h # Nothing
BY NothingAssumption DEF History

LEMMA EditOfLease ==
    ASSUME TypeOK, current \in Task
    PROVE  <<current, lease[current]>> \in Edit
<1>1. /\ lease[current] \in Nat /\ lease[current] <= MaxLeases[current]
      /\ MaxLeases[current] \in Nat
    BY DeliveryAssumption DEF TypeOK
<1>2. <<current, lease[current]>> \in {current} \X (0 .. MaxLeases[current])
    BY <1>1
<1> QED
    BY <1>2 DEF Edit

\* Only the worktree of the current task is changed, to w.
Replaces(w) ==
    /\ w \in Worktree
    /\ worktree' \in [Task -> Worktree \cup {Nothing}]
    /\ worktree'[current] = w
    /\ \A t \in Task \ {current} : worktree'[t] = worktree[t]

LEMMA CopiesReplace ==
    ASSUME TypeOK, current \in Task, worktree[current] \in Worktree,
           NEW b \in BOOLEAN, SetCopies(b)
    PROVE  \E w : Replaces(w) /\ w.edits = worktree[current].edits
<1> DEFINE w == [worktree[current] EXCEPT !.copies = b]
<1>1. w \in Worktree /\ w.edits = worktree[current].edits
    BY DEF Worktree
<1>2. worktree' = [worktree EXCEPT ![current] = w]
    BY DEF SetCopies
<1> HIDE DEF w
<1>3. Replaces(w)
    BY <1>1, <1>2 DEF TypeOK, Replaces
<1> QED
    BY <1>1, <1>3

LEMMA EditReplaces ==
    ASSUME TypeOK, RunInv, AgentEdits
    PROVE  \E w : /\ Replaces(w)
                  /\ w.edits = worktree[current].edits \cup {<<current, lease[current]>>}
<1>1. current \in Task /\ worktree[current] \in Worktree
    BY DEF AgentEdits, RunInv, Executes
<1> DEFINE w == [worktree[current] EXCEPT
                     !.edits = worktree[current].edits \cup {<<current, lease[current]>>}]
<1>2. w \in Worktree /\ w.edits = worktree[current].edits \cup {<<current, lease[current]>>}
    BY <1>1, EditOfLease DEF Worktree
<1>3. worktree' = [worktree EXCEPT ![current] = w]
    BY DEF AgentEdits
<1> HIDE DEF w
<1>4. Replaces(w)
    BY <1>1, <1>2, <1>3 DEF TypeOK, Replaces
<1> QED
    BY <1>2, <1>4

LEMMA ResultReplaces ==
    ASSUME TypeOK, current \in Task, worktree[current] \in Worktree, NEW r \in Result,
           worktree' = [worktree EXCEPT ![current].result = r]
    PROVE  \E w : Replaces(w) /\ w.edits = worktree[current].edits
<1> DEFINE w == [worktree[current] EXCEPT !.result = r]
<1>1. w \in Worktree /\ w.edits = worktree[current].edits
    BY DEF Worktree
<1>2. worktree' = [worktree EXCEPT ![current] = w]
    OBVIOUS
<1> HIDE DEF w
<1>3. Replaces(w)
    BY <1>1, <1>2 DEF TypeOK, Replaces
<1> QED
    BY <1>1, <1>3

\* The commit moves the edits of the worktree to the branch.
Commits ==
    /\ branch' = [branch EXCEPT ![current] = @ \cup Committed(FALSE)]
    /\ worktree' = [worktree EXCEPT ![current].edits = {}, ![current].copies = FALSE]

LEMMA CommitReplaces ==
    ASSUME TypeOK, current \in Task, worktree[current] \in Worktree, Commits
    PROVE  /\ \E w : Replaces(w) /\ w.edits = {}
           /\ branch[current] \in SUBSET Edit
           /\ branch' \in [Task -> (SUBSET Edit) \cup {Nothing}]
           /\ branch'[current] = branch[current] \cup worktree[current].edits
           /\ \A t \in Task \ {current} : branch'[t] = branch[t]
           /\ \A t \in Task : worktree'[t] # Nothing => branch'[t] # Nothing
<1> DEFINE w == [[worktree[current] EXCEPT !.edits = {}] EXCEPT !.copies = FALSE]
<1>1. w \in Worktree /\ w.edits = {}
    BY DEF Worktree
<1>2. worktree' = [worktree EXCEPT ![current] = w]
    BY DEF Commits, TypeOK
<1> HIDE DEF w
<1>3. Replaces(w)
    BY <1>1, <1>2 DEF TypeOK, Replaces
<1>4. branch[current] \in SUBSET Edit
    BY NothingAssumption DEF TypeOK
<1>5. worktree[current].edits \in SUBSET Edit
    BY DEF Worktree
<1>6. branch' = [branch EXCEPT ![current] = branch[current] \cup worktree[current].edits]
    BY DEF Commits, Committed
<1>7. branch[current] \cup worktree[current].edits \in SUBSET Edit
    BY <1>4, <1>5
<1>8. \A t \in Task : worktree'[t] # Nothing => branch'[t] # Nothing
    BY <1>3, <1>6, <1>7, NothingAssumption DEF TypeOK, Replaces
<1> QED
    BY <1>1, <1>3, <1>4, <1>6, <1>7, <1>8 DEF TypeOK

\* The history that a worktree of the current task starts from.
Start == IF branch[current] # Nothing THEN branch[current] ELSE History(Base)

LEMMA CreateReplaces ==
    ASSUME TypeOK, RunInv, NoCopiesInv, CreateWorktree
    PROVE  /\ current \in Task
           /\ Start \in SUBSET Edit
           /\ branch' = [branch EXCEPT ![current] = Start]
           /\ \E w : Replaces(w) /\ w.edits = {}
<1>1. current \in Task
    BY DEF CreateWorktree, CheckOut, RunInv, Executes
<1>2. /\ Start \in SUBSET Edit
      /\ <<current, 0>> \notin Start
    <2>1. CASE branch[current] # Nothing
        BY <1>1, <2>1, Histories DEF Start, TypeOK, NoCopiesInv, CopiesStayOut
    <2>2. CASE branch[current] = Nothing /\ current \in FixTasks
        BY <1>1, <2>2, Histories DEF Start, Base, TypeOK, NoCopiesInv, CopiesStayOut
    <2>3. CASE branch[current] = Nothing /\ current \notin FixTasks
        BY <2>3 DEF Start, Base, History
    <2> QED
        BY <2>1, <2>2, <2>3
<1>3. PICK r \in {Nothing} \cup Tracked(Start) :
        worktree' = [worktree EXCEPT
            ![current] = [edits |-> {}, copies |-> FALSE, result |-> r]]
    BY DEF CreateWorktree, CheckOut, Start
<1>4. r \in Result \cup {Nothing}
    <2>1. SUFFICES ASSUME NEW e \in Start, e[1] = current
                   PROVE  [lease |-> e[2], status |-> "completed"] \in Result
        BY <1>3 DEF Tracked
    <2>2. PICK u \in Task : e \in {u} \X (0 .. MaxLeases[u])
        BY <1>2, <2>1 DEF Edit
    <2>3. u = current /\ e = <<current, e[2]>> /\ e[2] \in 0 .. MaxLeases[current]
        BY <2>1, <2>2
    <2>4. e[2] # 0
        BY <1>2, <2>1, <2>3
    <2>5. e[2] \in 1 .. MaxLeases[current]
        BY <1>1, <2>3, <2>4, DeliveryAssumption
    <2> QED
        BY <1>1, <2>5 DEF Result
<1> DEFINE w == [edits |-> {}, copies |-> FALSE, result |-> r]
<1>5. w \in Worktree /\ w.edits = {}
    BY <1>4 DEF Worktree
<1>6. worktree' = [worktree EXCEPT ![current] = w]
    BY <1>3
<1> HIDE DEF w
<1>7. Replaces(w)
    BY <1>1, <1>5, <1>6 DEF TypeOK, Replaces
<1> QED
    BY <1>1, <1>2, <1>5, <1>7 DEF CreateWorktree, CheckOut, Start

LEMMA TypeInit == Init => TypeOK
<1> SUFFICES ASSUME Init PROVE TypeOK
    OBVIOUS
<1>1. /\ agent \in [Task -> Agent] /\ lease \in [Task -> Nat]
      /\ \A t \in Task : lease[t] <= MaxLeases[t]
    BY DeliveryAssumption DEF Init
<1>2. mishaps \in 0 .. MaxMishaps
    BY DeliveryAssumption DEF Init
<1> QED
    BY <1>1, <1>2 DEF Init, TypeOK, NoTask

LEMMA MishapType ==
    ASSUME TypeOK, Mishap \/ UNCHANGED mishaps
    PROVE  mishaps' \in 0 .. MaxMishaps
BY DeliveryAssumption DEF TypeOK, Mishap

LEMMA TypeStep ==
    ASSUME TypeOK, RunInv, NoCopiesInv, MergeInv, [Next]_vars
    PROVE  TypeOK'
<1> USE DEF state, execution, git, ghosts
<1>1. CASE StartRun \/ RunPauses \/ StartGates \/ GatesPass \/ ReuseWorktree
    BY <1>1 DEF StartRun, RunPauses, StartGates, GatesPass, ReuseWorktree, TypeOK, RunInv, Executes
<1>2. CASE Crash
    BY <1>2, MishapType DEF Crash, TypeOK
<1>3. ASSUME NEW t \in Task, RecoverLease(t) \/ Retry(t)
      PROVE  TypeOK'
    BY <1>3 DEF RecoverLease, Retry, TypeOK
<1>4. ASSUME NEW t \in Task, Claim(t)
      PROVE  TypeOK'
    <2>1. PICK a \in SelectAgent(agent[t], Routing[t]) : agent' = [agent EXCEPT ![t] = a]
        BY <1>4 DEF Claim
    <2>2. agent' \in [Task -> Agent]
        BY <2>1, RoutedToAgent DEF TypeOK
    <2>3. /\ lease' \in [Task -> Nat]
          /\ \A u \in Task : lease'[u] <= MaxLeases[u]
        <3>1. lease' = [lease EXCEPT ![t] = lease[t] + 1] /\ lease[t] < MaxLeases[t]
            BY <1>4 DEF Claim, IsClaimable
        <3>2. \A u \in Task :
                lease[u] \in Nat /\ MaxLeases[u] \in Nat /\ lease[u] <= MaxLeases[u]
            BY DeliveryAssumption DEF TypeOK
        <3>3. lease[t] + 1 \in Nat /\ lease[t] + 1 <= MaxLeases[t]
            BY <3>1, <3>2
        <3> QED
            BY <3>1, <3>2, <3>3 DEF TypeOK
    <2> QED
        BY <1>4, <2>2, <2>3 DEF Claim, TypeOK
<1>5. ASSUME NEW s \in {"pending", "completed", "failed"}, EndExecution(s),
             worktree' \in [Task -> Worktree \cup {Nothing}],
             branch' \in [Task -> (SUBSET Edit) \cup {Nothing}],
             \A t \in Task : worktree'[t] # Nothing => branch'[t] # Nothing,
             UNCHANGED <<integration, halfMerged, toMerge, reviewed, discarded>>,
             reported' \in [Task -> SUBSET Edit],
             Mishap \/ UNCHANGED mishaps
      PROVE  TypeOK'
    BY <1>5, MishapType DEF EndExecution, TypeOK
<1>6. CASE WorktreeFails
    BY <1>5, <1>6 DEF WorktreeFails, TypeOK
<1>7. ASSUME NEW w, Replaces(w), current \in Task, worktree[current] # Nothing
      PROVE  \A t \in Task : worktree'[t] # Nothing => branch[t] # Nothing
    BY <1>7 DEF Replaces, TypeOK
<1>8. Executes /\ run # "worktree" =>
        current \in Task /\ worktree[current] \in Worktree /\ worktree[current] # Nothing
    BY NothingAssumption DEF RunInv
<1>9. ASSUME NEW w, Replaces(w), UNCHANGED <<state, current, mishaps, branch, integration,
                                             halfMerged, toMerge, ghosts>>,
             Executes, run # "worktree", run' \in {"agent", "finalize", "apply"},
             edited' \in BOOLEAN, result' \in Result \cup {Nothing}
      PROVE  TypeOK'
    BY <1>7, <1>8, <1>9 DEF TypeOK, Replaces
<1>10. CASE MaterializeArtifacts
    <2>1. CASE SetCopies(current \in WithArtifacts) /\ run' = "agent"
                   /\ UNCHANGED <<state, current, edited, result, mishaps>>
        <3>1. current \in Task /\ worktree[current] \in Worktree
            BY <1>8, <1>10 DEF MaterializeArtifacts, Executes
        <3>2. \E b \in BOOLEAN : SetCopies(b)
            <4> DEFINE b == current \in WithArtifacts
            <4>1. b \in BOOLEAN /\ SetCopies(b)
                BY <2>1
            <4> HIDE DEF b
            <4> QED
                BY <4>1
        <3>3. \E w : Replaces(w)
            BY <3>1, <3>2, CopiesReplace
        <3> QED
            BY <1>9, <1>10, <2>1, <3>3 DEF MaterializeArtifacts, Executes, TypeOK
    <2>2. CASE EndExecution("failed") /\ UNCHANGED worktree
        BY <1>5, <1>10, <2>2 DEF MaterializeArtifacts, TypeOK
    <2> QED
        BY <1>10, <2>1, <2>2 DEF MaterializeArtifacts
<1>11. CASE AgentEdits
    <2>1. \E w : Replaces(w)
        BY <1>11, EditReplaces
    <2> QED
        BY <1>9, <1>11, <2>1 DEF AgentEdits, Executes, TypeOK
<1>12. ASSUME NEW s \in {"pending", "completed", "failed"}, EndExecution(s),
              Executes, run # "worktree", SetCopies(FALSE),
              UNCHANGED <<branch, integration, halfMerged, toMerge, ghosts>>,
              Mishap \/ UNCHANGED mishaps
       PROVE  TypeOK'
    <2>1. PICK w : Replaces(w)
        BY <1>8, <1>12, CopiesReplace
    <2> QED
        BY <1>5, <1>7, <1>8, <1>12, <2>1 DEF Replaces, TypeOK
<1>13. CASE AgentEnds
    <2>1. PICK r \in ReadableResults :
            IF r.lease = lease[current]
            THEN /\ worktree' = [worktree EXCEPT ![current].result = r]
                 /\ result' = r /\ run' = "finalize"
                 /\ UNCHANGED <<state, current, edited>>
            ELSE EndExecution("failed") /\ SetCopies(FALSE)
        BY <1>13 DEF AgentEnds
    <2>2. run = "agent" /\ Executes
        BY <1>13 DEF AgentEnds, Executes
    <2>3. CASE r.lease = lease[current]
        <3>1. r \in Result
            BY <1>8, <2>1, <2>2 DEF ReadableResults, OwnResults, Worktree
        <3>2. \E w : Replaces(w)
            BY <1>8, <2>1, <2>2, <2>3, <3>1, ResultReplaces
        <3> QED
            BY <1>9, <1>13, <2>1, <2>2, <2>3, <3>1, <3>2 DEF AgentEnds, TypeOK
    <2>4. CASE r.lease # lease[current]
        BY <1>12, <1>13, <2>1, <2>2, <2>4 DEF AgentEnds
    <2> QED
        BY <2>3, <2>4
<1>14. CASE ProviderFails
    BY <1>12, <1>14 DEF ProviderFails, Executes
<1>15. CASE FinalizeTask
    <2>1. run = "finalize" /\ Executes
        BY <1>15 DEF FinalizeTask, Executes
    <2>2. CASE Commits
        <3>1. PICK w : Replaces(w)
            BY <1>8, <2>1, <2>2, CommitReplaces
        <3> QED
            BY <1>8, <1>15, <2>1, <2>2, <3>1, CommitReplaces
            DEF FinalizeTask, TypeOK, Replaces
    <2>3. CASE SetCopies(FALSE) /\ UNCHANGED branch
        <3>1. \E w : Replaces(w)
            BY <1>8, <2>1, <2>3, CopiesReplace
        <3> QED
            BY <1>9, <1>15, <2>1, <2>3, <3>1 DEF FinalizeTask, TypeOK
    <2> QED
        BY <1>15, <2>2, <2>3 DEF FinalizeTask, Commits
<1>16. CASE FinalizeFails
    <2>1. run = "finalize" /\ Executes
        BY <1>16 DEF FinalizeFails, Executes
    <2>2. CASE Commits
        <3>1. PICK w : Replaces(w)
            BY <1>8, <2>1, <2>2, CommitReplaces
        <3> QED
            BY <1>5, <1>8, <1>16, <2>1, <2>2, <3>1, CommitReplaces
            DEF FinalizeFails, TypeOK, Replaces
    <2>3. CASE SetCopies(FALSE) /\ UNCHANGED branch
        BY <1>12, <1>16, <2>1, <2>3 DEF FinalizeFails
    <2> QED
        BY <1>16, <2>2, <2>3 DEF FinalizeFails, Commits
<1>17. CASE ApplyResult
    <2>1. current \in Task /\ result.status \in {"completed", "failed"}
        BY <1>17 DEF ApplyResult, RunInv, Executes, Result
    <2>2. reported' \in [Task -> SUBSET Edit]
        BY <1>17, <2>1, EditOfLease DEF ApplyResult, TypeOK
    <2> QED
        BY <1>5, <1>17, <2>1, <2>2 DEF ApplyResult, TypeOK
<1>18. CASE CreateWorktree
    <2>1. PICK w : Replaces(w)
        BY <1>18, CreateReplaces
    <2>2. branch' \in [Task -> (SUBSET Edit) \cup {Nothing}]
        BY <1>18, CreateReplaces DEF TypeOK
    <2>3. \A t \in Task : worktree'[t] # Nothing => branch'[t] # Nothing
        BY <1>18, <2>1, CreateReplaces, NothingAssumption DEF TypeOK, Replaces
    <2> QED
        BY <1>18, <2>1, <2>2, <2>3 DEF CreateWorktree, CheckOut, Replaces, TypeOK
<1>19. CASE StartIntegration
    BY <1>19 DEF StartIntegration, Tasks, TypeOK
<1>20. CASE MergeNext
    <2>1. NextToMerge \in Task
        BY <1>20, NextIsToMerge DEF MergeNext, TypeOK
    <2>2. integration \in SUBSET Edit
        BY <1>20 DEF MergeNext, MergeInv, Integrated
    <2>3. /\ integration' \in (SUBSET Edit) \cup {Nothing}
          /\ halfMerged' \in BOOLEAN /\ toMerge' \subseteq Task
          /\ run' \in {"merge", "idle"} /\ (run' = "idle" => toMerge' = {})
        BY <1>20, <2>1, <2>2 DEF MergeNext, StopMerging, TypeOK
    <2>4. mishaps' \in 0 .. MaxMishaps
        BY <1>20, MishapType DEF MergeNext
    <2>5. current = NoTask
        BY <1>20 DEF MergeNext, RunInv, Executes
    <2> QED
        BY <1>20, <2>3, <2>4, <2>5 DEF MergeNext, TypeOK
<1>21. CASE GatesAskForFixes
    <2>1. integration \in SUBSET Edit
        BY <1>21 DEF GatesAskForFixes, MergeInv, Integrated
    <2>2. /\ status' \in [Task -> {"absent", "pending", "in_progress", "completed", "failed"}]
          /\ reviewed' \in [FixTasks -> SUBSET Edit]
        BY <1>21, <2>1 DEF GatesAskForFixes, TypeOK
    <2> QED
        BY <1>21, <2>2 DEF GatesAskForFixes, TypeOK
<1>22. ASSUME NEW policy \in Policies, Clean(policy)
       PROVE  TypeOK'
    <2>1. /\ worktree' \in [Task -> Worktree \cup {Nothing}]
          /\ branch' \in [Task -> (SUBSET Edit) \cup {Nothing}]
          /\ \A t \in Task : worktree'[t] # Nothing => branch'[t] # Nothing
        BY <1>22 DEF Clean, TypeOK
    <2>2. \A t \in Task : History(branch[t]) \in SUBSET Edit
        BY Histories DEF TypeOK
    <2>3. discarded' \subseteq Edit
        BY <1>22, <2>2 DEF Clean, TypeOK
    <2> QED
        BY <1>22, <2>1, <2>3 DEF Clean, TypeOK
<1>23. CASE UNCHANGED vars
    BY <1>23 DEF vars, TypeOK
<1> QED
    BY NextCases, <1>1, <1>2, <1>3, <1>4, <1>6, <1>10, <1>11, <1>13, <1>14, <1>15, <1>16, <1>17,
       <1>18, <1>19, <1>20, <1>21, <1>22, <1>23

-----------------------------------------------------------------------------
(* Where a run is, and what its agent changed.                             *)

LEMMA RunInit == Init => RunInv
BY DEF Init, RunInv, Executes

LEMMA RunStep ==
    ASSUME TypeOK, RunInv, NoCopiesInv, [Next]_vars
    PROVE  RunInv'
<1> USE DEF state, execution, git, ghosts, RunInv, Executes
<1>1. CASE StartRun \/ RunPauses \/ StartGates \/ GatesPass
    BY <1>1 DEF StartRun, RunPauses, StartGates, GatesPass
<1>2. CASE ReuseWorktree
    BY <1>2 DEF ReuseWorktree, TypeOK
<1>3. CASE Crash
    BY <1>3 DEF Crash
<1>4. ASSUME NEW t \in Task, RecoverLease(t) \/ Retry(t)
      PROVE  RunInv'
    BY <1>4 DEF RecoverLease, Retry
<1>5. ASSUME NEW t \in Task, Claim(t)
      PROVE  RunInv'
    BY <1>5 DEF Claim, TypeOK
<1>6. ASSUME NEW s, EndExecution(s), Executes, UNCHANGED toMerge
      PROVE  RunInv'
    BY <1>6 DEF EndExecution
<1>7. CASE WorktreeFails \/ ProviderFails \/ FinalizeFails \/ ApplyResult
    BY <1>6, <1>7 DEF WorktreeFails, ProviderFails, FinalizeFails, ApplyResult
<1>8. ASSUME NEW w, Replaces(w), Executes, Executes', run' # "worktree",
             UNCHANGED <<state, current, toMerge>>,
             run' \in {"finalize", "apply"} => result' \in Result /\ result'.lease = lease[current]
      PROVE  RunInv'
    BY <1>8 DEF Replaces
<1>9. CASE MaterializeArtifacts
    <2>1. CASE EndExecution("failed")
        BY <1>6, <1>9, <2>1 DEF MaterializeArtifacts
    <2>2. CASE run' = "agent" /\ SetCopies(current \in WithArtifacts)
               /\ UNCHANGED <<state, current>>
        <3> DEFINE b == current \in WithArtifacts
        <3>1. b \in BOOLEAN /\ SetCopies(b)
            BY <2>2
        <3> HIDE DEF b
        <3>2. \E w : Replaces(w)
            BY <1>9, <3>1, CopiesReplace DEF MaterializeArtifacts
        <3> QED
            BY <1>8, <1>9, <2>2, <3>2 DEF MaterializeArtifacts
    <2> QED
        BY <1>9, <2>1, <2>2 DEF MaterializeArtifacts
<1>10. CASE AgentEdits
    <2>1. \E w : Replaces(w)
        BY <1>10, EditReplaces
    <2> QED
        BY <1>8, <1>10, <2>1 DEF AgentEdits
<1>11. CASE AgentEnds
    <2>1. PICK r \in ReadableResults :
            IF r.lease = lease[current]
            THEN /\ worktree' = [worktree EXCEPT ![current].result = r]
                 /\ result' = r /\ run' = "finalize"
                 /\ UNCHANGED <<state, current, edited>>
            ELSE EndExecution("failed") /\ SetCopies(FALSE)
        BY <1>11 DEF AgentEnds
    <2>2. CASE r.lease = lease[current]
        <3>1. current \in Task /\ worktree[current] \in Worktree
            BY <1>11 DEF AgentEnds
        <3>2. r \in Result
            BY <2>1, <3>1 DEF ReadableResults, OwnResults, Worktree
        <3>3. \E w : Replaces(w)
            BY <2>1, <2>2, <3>1, <3>2, ResultReplaces
        <3> QED
            BY <1>8, <1>11, <2>1, <2>2, <3>2, <3>3 DEF AgentEnds
    <2>3. CASE r.lease # lease[current]
        BY <1>6, <1>11, <2>1, <2>3 DEF AgentEnds
    <2> QED
        BY <2>2, <2>3
<1>12. CASE FinalizeTask
    <2>1. current \in Task /\ worktree[current] \in Worktree
        BY <1>12 DEF FinalizeTask
    <2>2. \E w : Replaces(w)
        <3>1. CASE Commits
            BY <2>1, <3>1, CommitReplaces
        <3>2. CASE SetCopies(FALSE)
            BY <2>1, <3>2, CopiesReplace
        <3> QED
            BY <1>12, <3>1, <3>2 DEF FinalizeTask, Commits
    <2> QED
        BY <1>8, <1>12, <2>2 DEF FinalizeTask
<1>13. CASE CreateWorktree
    <2>1. \E w : Replaces(w)
        BY <1>13, CreateReplaces
    <2> QED
        BY <1>8, <1>13, <2>1 DEF CreateWorktree, CheckOut
<1>14. CASE StartIntegration \/ MergeNext
    BY <1>14 DEF StartIntegration, MergeNext, StopMerging
<1>15. CASE GatesAskForFixes
    BY <1>15 DEF GatesAskForFixes
<1>16. ASSUME NEW policy \in Policies, Clean(policy)
       PROVE  RunInv'
    BY <1>16 DEF Clean
<1>17. CASE UNCHANGED vars
    BY <1>17 DEF vars
<1> QED
    BY NextCases, <1>1, <1>2, <1>3, <1>4, <1>5, <1>7, <1>9, <1>10, <1>11, <1>12, <1>13, <1>14,
       <1>15, <1>16, <1>17

LEMMA EditInit == Init => EditInv
BY DEF Init, EditInv

LEMMA EditStep ==
    ASSUME TypeOK, RunInv, EditInv, [Next]_vars
    PROVE  EditInv'
<1> USE DEF state, execution, git, ghosts, EditInv
<1>1. CASE edited' = FALSE \/ run' \notin {"worktree", "artifacts", "agent", "finalize", "apply"}
    BY <1>1
<1>2. CASE \/ StartRun \/ RunPauses \/ StartGates \/ GatesPass \/ Crash \/ StartIntegration
           \/ MergeNext \/ GatesAskForFixes
           \/ \E t \in Task : RecoverLease(t) \/ Claim(t) \/ Retry(t)
           \/ \E policy \in Policies : Clean(policy)
    BY <1>1, <1>2
    DEF StartRun, RunPauses, StartGates, GatesPass, Crash, StartIntegration, MergeNext,
        StopMerging, GatesAskForFixes, RecoverLease, Claim, Retry, Clean
<1>9. CASE WorktreeFails \/ ProviderFails \/ FinalizeFails \/ ApplyResult
    BY <1>1, <1>9 DEF WorktreeFails, ProviderFails, FinalizeFails, ApplyResult, EndExecution
<1>3. CASE ReuseWorktree \/ CreateWorktree \/ MaterializeArtifacts
    BY <1>1, <1>3
    DEF ReuseWorktree, CreateWorktree, CheckOut, MaterializeArtifacts, EndExecution
<1>4. run \in {"agent", "finalize"} => current \in Task /\ worktree[current] \in Worktree
    BY DEF RunInv, Executes
<1>5. CASE AgentEdits
    <2>1. PICK w : /\ Replaces(w)
                   /\ w.edits = worktree[current].edits \cup {<<current, lease[current]>>}
        BY <1>5, EditReplaces
    <2> QED
        BY <1>5, <2>1 DEF AgentEdits, Replaces
<1>6. CASE AgentEnds
    <2>1. PICK r \in ReadableResults :
            IF r.lease = lease[current]
            THEN /\ worktree' = [worktree EXCEPT ![current].result = r]
                 /\ result' = r /\ run' = "finalize"
                 /\ UNCHANGED <<state, current, edited>>
            ELSE EndExecution("failed") /\ SetCopies(FALSE)
        BY <1>6 DEF AgentEnds
    <2>2. CASE r.lease = lease[current]
        <3>1. current \in Task /\ worktree[current] \in Worktree /\ run = "agent"
            BY <1>4, <1>6 DEF AgentEnds
        <3>2. r \in Result
            BY <2>1, <3>1 DEF ReadableResults, OwnResults, Worktree
        <3>3. PICK w : Replaces(w) /\ w.edits = worktree[current].edits
            BY <2>1, <2>2, <3>1, <3>2, ResultReplaces
        <3> QED
            BY <2>1, <2>2, <3>1, <3>3 DEF Replaces
    <2>3. CASE r.lease # lease[current]
        BY <1>1, <2>1, <2>3 DEF EndExecution
    <2> QED
        BY <2>2, <2>3
<1>7. CASE FinalizeTask
    <2>1. /\ run = "finalize" /\ run' = "apply"
          /\ UNCHANGED <<state, current, edited, result>>
          /\ result.status = "completed" => Commits
        BY <1>7 DEF FinalizeTask, Commits
    <2> QED
        BY <1>4, <2>1, CommitReplaces
<1>8. CASE UNCHANGED vars
    BY <1>8 DEF vars
<1> QED
    BY NextCases, <1>2, <1>3, <1>5, <1>6, <1>7, <1>8, <1>9

-----------------------------------------------------------------------------
(* What steps do to git.                                                   *)

\* The worktree of the current task loses no edit, and gets the attempt's own.
LEMMA WorktreeCases ==
    ASSUME TypeOK, RunInv, NoCopiesInv, [Next]_vars
    PROVE  \/ UNCHANGED worktree
           \/ \E policy \in Policies : Clean(policy)
           \/ /\ current \in Task /\ lease[current] > 0
              /\ \E w : /\ Replaces(w)
                        /\ \/ w.edits = {}
                           \/ /\ worktree[current] \in Worktree
                              /\ w.edits \subseteq
                                    worktree[current].edits \cup {<<current, lease[current]>>}
<1> USE DEF state, execution, git, ghosts
<1>1. Executes => current \in Task /\ lease[current] > 0
    BY DEF RunInv
<1>2. Executes /\ run # "worktree" => worktree[current] \in Worktree
    BY DEF RunInv
<1>3. CASE CreateWorktree
    BY <1>1, <1>3, CreateReplaces DEF CreateWorktree, CheckOut, Executes
<1>4. ASSUME NEW b \in BOOLEAN, SetCopies(b), Executes, run # "worktree"
      PROVE  \E w : Replaces(w) /\ worktree[current] \in Worktree
                    /\ w.edits \subseteq worktree[current].edits
    BY <1>1, <1>2, <1>4, CopiesReplace
<1>5. CASE MaterializeArtifacts
    <2>1. Executes /\ run # "worktree"
        BY <1>5 DEF MaterializeArtifacts, Executes
    <2>2. CASE SetCopies(current \in WithArtifacts)
        <3> DEFINE b == current \in WithArtifacts
        <3>1. b \in BOOLEAN /\ SetCopies(b)
            BY <2>2
        <3> HIDE DEF b
        <3> QED
            BY <1>1, <1>4, <2>1, <3>1
    <2> QED
        BY <1>5, <2>2 DEF MaterializeArtifacts
<1>6. CASE AgentEdits
    BY <1>1, <1>2, <1>6, EditReplaces DEF AgentEdits, Executes
<1>7. CASE AgentEnds
    <2>1. PICK r \in ReadableResults :
            IF r.lease = lease[current]
            THEN worktree' = [worktree EXCEPT ![current].result = r]
            ELSE SetCopies(FALSE)
        BY <1>7 DEF AgentEnds
    <2>2. Executes /\ run # "worktree"
        BY <1>7 DEF AgentEnds, Executes
    <2>3. CASE worktree' = [worktree EXCEPT ![current].result = r]
        <3>1. r \in Result
            BY <1>2, <2>1, <2>2 DEF ReadableResults, OwnResults, Worktree
        <3> QED
            BY <1>1, <1>2, <2>2, <2>3, <3>1, ResultReplaces
    <2> QED
        BY <1>1, <1>4, <2>1, <2>2, <2>3
<1>8. CASE ProviderFails
    BY <1>1, <1>4, <1>8 DEF ProviderFails, Executes
<1>9. CASE FinalizeTask \/ FinalizeFails
    <2>1. Executes /\ run # "worktree"
        BY <1>9 DEF FinalizeTask, FinalizeFails, Executes
    <2>2. Commits \/ SetCopies(FALSE)
        BY <1>9 DEF FinalizeTask, FinalizeFails, Commits
    <2>3. CASE Commits
        BY <1>1, <1>2, <2>1, <2>3, CommitReplaces
    <2> QED
        BY <1>1, <1>4, <2>1, <2>2, <2>3
<1> QED
    BY NextCases, <1>3, <1>5, <1>6, <1>7, <1>8, <1>9
    DEF StartRun, RunPauses, Crash, RecoverLease, Claim, Retry, ReuseWorktree, WorktreeFails,
        ApplyResult, StartIntegration, MergeNext, StartGates, GatesAskForFixes, GatesPass, vars

\* What the worktree had is committed to the branch of the current task.
Takes ==
    /\ current \in Task /\ worktree[current] \in Worktree /\ branch[current] \in SUBSET Edit
    /\ branch' \in [Task -> (SUBSET Edit) \cup {Nothing}]
    /\ branch'[current] = branch[current] \cup worktree[current].edits
    /\ \A t \in Task \ {current} : branch'[t] = branch[t]

\* A branch is created from the base, or takes what was in the worktree.
LEMMA BranchCases ==
    ASSUME TypeOK, RunInv, NoCopiesInv, [Next]_vars
    PROVE  \/ UNCHANGED branch
           \/ \E policy \in Policies : Clean(policy)
           \/ /\ CreateWorktree
              /\ current \in Task /\ Start \in SUBSET Edit
              /\ branch' = [branch EXCEPT ![current] = Start]
           \/ (FinalizeTask \/ FinalizeFails) /\ Takes
<1> USE DEF state, execution, git, ghosts
<1>1. CASE CreateWorktree
    BY <1>1, CreateReplaces
<1>2. CASE (FinalizeTask \/ FinalizeFails) /\ ~ UNCHANGED branch
    <2>1. Commits
        BY <1>2 DEF FinalizeTask, FinalizeFails, Commits
    <2>2. current \in Task /\ worktree[current] \in Worktree
        BY <1>2 DEF RunInv, Executes, FinalizeTask, FinalizeFails
    <2>3. Takes
        BY <2>1, <2>2, CommitReplaces DEF Takes
    <2> QED
        BY <1>2, <2>3
<1> QED
    BY NextCases, <1>1, <1>2
    DEF StartRun, RunPauses, Crash, RecoverLease, Claim, Retry, ReuseWorktree, WorktreeFails,
        MaterializeArtifacts, AgentEdits, AgentEnds, ProviderFails,
        ApplyResult, StartIntegration, MergeNext, StartGates, GatesAskForFixes, GatesPass, vars

\* The integration branch comes into being, or takes a branch that is to be merged.
LEMMA IntegrationCases ==
    ASSUME TypeOK, MergeInv, [Next]_vars
    PROVE  \/ UNCHANGED integration
           \/ /\ StartIntegration
              /\ integration' \in SUBSET Edit /\ integration' = History(integration)
           \/ /\ MergeNext /\ ~ halfMerged /\ NextToMerge \in toMerge
              /\ integration \in SUBSET Edit /\ branch[NextToMerge] \in SUBSET Edit
              /\ integration' = integration \cup branch[NextToMerge]
<1> USE DEF state, execution, git, ghosts
<1>1. CASE StartIntegration
    BY <1>1, Histories DEF StartIntegration, TypeOK, History
<1>2. CASE MergeNext /\ ~ UNCHANGED integration
    <2>1. NextToMerge \in toMerge /\ NextToMerge \in Task
        BY <1>2, NextIsToMerge DEF MergeNext, TypeOK
    <2>2. integration \in SUBSET Edit
        BY <1>2 DEF MergeNext, MergeInv, Integrated
    <2> QED
        BY <1>2, <2>1, <2>2 DEF MergeNext, TypeOK
<1> QED
    BY NextCases, <1>1, <1>2
    DEF StartRun, RunPauses, Crash, RecoverLease, Claim, Retry, ReuseWorktree, WorktreeFails,
        MaterializeArtifacts, AgentEdits, AgentEnds, ProviderFails, CreateWorktree, CheckOut,
        FinalizeTask, FinalizeFails, Clean,
        ApplyResult, StartGates, GatesAskForFixes, GatesPass, vars

-----------------------------------------------------------------------------
(* Copies stay out of every worktree's edits and every branch.             *)

LEMMA NoCopiesInit == Init => NoCopiesInv
BY DEF Init, NoCopiesInv, CopiesStayOut, History

LEMMA NoCopiesStep ==
    ASSUME TypeOK, RunInv, NoCopiesInv, MergeInv, [Next]_vars
    PROVE  NoCopiesInv'
<1>1. \A t, u \in Task : worktree'[t] # Nothing => <<u, 0>> \notin worktree'[t].edits
    <2>1. CASE UNCHANGED worktree
        BY <2>1 DEF NoCopiesInv
    <2>2. CASE \E policy \in Policies : Clean(policy)
        BY <2>2 DEF Clean, NoCopiesInv, TypeOK
    <2>3. CASE /\ current \in Task /\ lease[current] > 0
               /\ \E w : /\ Replaces(w)
                         /\ \/ w.edits = {}
                            \/ /\ worktree[current] \in Worktree
                               /\ w.edits \subseteq
                                     worktree[current].edits \cup {<<current, lease[current]>>}
        <3>1. PICK w : /\ Replaces(w)
                       /\ \/ w.edits = {}
                          \/ /\ worktree[current] \in Worktree
                             /\ w.edits \subseteq
                                   worktree[current].edits \cup {<<current, lease[current]>>}
            BY <2>3
        <3>2. \A u \in Task : <<u, 0>> # <<current, lease[current]>>
            BY <2>3
        <3>3. \A u \in Task : <<u, 0>> \notin w.edits
            BY <2>3, <3>1, <3>2, NothingAssumption DEF NoCopiesInv
        <3> QED
            BY <3>1, <3>3 DEF Replaces, NoCopiesInv
    <2> QED
        BY <2>1, <2>2, <2>3, WorktreeCases
<1>2. \A t, u \in Task : <<t, 0>> \notin History(branch'[u])
    <2>1. \A t, u \in Task : <<t, 0>> \notin History(branch[u])
        BY DEF NoCopiesInv, CopiesStayOut
    <2>2. \A t \in Task : <<t, 0>> \notin History(integration)
        BY DEF NoCopiesInv, CopiesStayOut
    <2>3. CASE UNCHANGED branch
        BY <2>1, <2>3
    <2>4. CASE \E policy \in Policies : Clean(policy)
        BY <2>1, <2>4 DEF Clean, History
    <2>5. CASE /\ CreateWorktree
               /\ current \in Task /\ Start \in SUBSET Edit
               /\ branch' = [branch EXCEPT ![current] = Start]
        <3>1. \A t \in Task : <<t, 0>> \notin Start
            BY <2>1, <2>2, <2>5 DEF Start, Base, History
        <3> QED
            BY <2>1, <2>5, <3>1, Histories DEF TypeOK
    <2>6. CASE Takes
        <3>1. branch'[current] \in SUBSET Edit /\ History(branch'[current]) = branch'[current]
            BY <2>6, Histories DEF Takes, Worktree
        <3>2. \A t \in Task : <<t, 0>> \notin branch[current]
            BY <2>1, <2>6, Histories DEF Takes
        <3>3. \A t \in Task : <<t, 0>> \notin worktree[current].edits
            BY <2>6, NothingAssumption DEF Takes, NoCopiesInv
        <3> QED
            BY <2>1, <2>6, <3>1, <3>2, <3>3 DEF Takes
    <2> QED
        BY <2>3, <2>4, <2>5, <2>6, BranchCases
<1>3. \A t \in Task : <<t, 0>> \notin History(integration')
    <2>1. \A t, u \in Task : /\ <<t, 0>> \notin History(integration)
                            /\ <<t, 0>> \notin History(branch[u])
        BY DEF NoCopiesInv, CopiesStayOut
    <2>2. CASE /\ MergeNext /\ ~ halfMerged /\ NextToMerge \in toMerge
               /\ integration \in SUBSET Edit /\ branch[NextToMerge] \in SUBSET Edit
               /\ integration' = integration \cup branch[NextToMerge]
        <3>1. /\ integration' \in SUBSET Edit /\ History(integration) = integration
              /\ History(branch[NextToMerge]) = branch[NextToMerge]
              /\ NextToMerge \in Task
            BY <2>2, Histories DEF TypeOK
        <3>2. History(integration') = integration'
            BY <3>1, Histories
        <3> QED
            BY <2>1, <2>2, <3>1, <3>2
    <2>3. CASE integration' \in SUBSET Edit /\ integration' = History(integration)
        BY <2>1, <2>3, Histories
    <2> QED
        BY <2>1, <2>2, <2>3, IntegrationCases
<1> QED
    BY <1>1, <1>2, <1>3 DEF NoCopiesInv, CopiesStayOut

-----------------------------------------------------------------------------
(* What a fix task builds on.                                              *)

\* Integration loses nothing.
LEMMA IntegrationGrows ==
    ASSUME TypeOK, MergeInv, [Next]_vars
    PROVE  History(integration) \subseteq History(integration')
<1>1. CASE /\ integration \in SUBSET Edit /\ branch[NextToMerge] \in SUBSET Edit
           /\ integration' = integration \cup branch[NextToMerge]
    <2>1. integration' \in SUBSET Edit
        BY <1>1
    <2> QED
        BY <1>1, <2>1, Histories
<1>2. CASE integration' \in SUBSET Edit /\ integration' = History(integration)
    BY <1>2, Histories
<1> QED
    BY <1>1, <1>2, IntegrationCases

\* Once it is planned or asked for, a task stays.
LEMMA AbsentStays ==
    ASSUME TypeOK, RunInv, [Next]_vars
    PROVE  \A t \in Task : status'[t] = "absent" => status[t] = "absent"
<1> USE DEF state, execution, git, ghosts
<1>1. CASE ApplyResult
    BY <1>1 DEF ApplyResult, EndExecution, RunInv, Executes, Result, TypeOK
<1>2. CASE GatesAskForFixes
    BY <1>2 DEF GatesAskForFixes
<1>3. CASE ~ ApplyResult /\ ~ GatesAskForFixes
    <2>1. \/ UNCHANGED status
          \/ \E t \in Task : \E s \in {"pending", "in_progress", "failed"} :
                status' = [status EXCEPT ![t] = s]
          \/ \E s \in {"pending", "failed"} : EndExecution(s)
        BY <1>3, NextCases
        DEF StartRun, RunPauses, Crash, RecoverLease, Claim, Retry, ReuseWorktree,
            WorktreeFails, MaterializeArtifacts, AgentEdits, AgentEnds, ProviderFails,
            CreateWorktree, CheckOut, FinalizeTask, FinalizeFails, Clean, MergeNext,
            StartIntegration, StartGates, GatesPass, vars
    <2> QED
        BY <2>1 DEF EndExecution, TypeOK
<1> QED
    BY <1>1, <1>2, <1>3

LEMMA FixInit == Init => FixInv
BY DEF Init, FixInv, History

LEMMA FixStep ==
    ASSUME TypeOK, RunInv, NoCopiesInv, FixInv, MergeInv, [Next]_vars
    PROVE  FixInv'
<1> USE DEF state, execution, git, ghosts
<1>1. \A f \in FixTasks : f \in Task
    BY DeliveryAssumption
<1>2. CASE GatesAskForFixes
    <2>1. integration \in SUBSET Edit /\ History(integration) = integration
        BY <1>2, Histories DEF GatesAskForFixes, MergeInv, Integrated
    <2>2. PICK fixes \in SUBSET {f \in FixTasks : status[f] = "absent"} :
            /\ status' = [t \in Task |-> IF t \in fixes THEN "pending" ELSE status[t]]
            /\ reviewed' = [f \in FixTasks |-> IF f \in fixes THEN integration ELSE reviewed[f]]
        BY <1>2 DEF GatesAskForFixes
    <2>3. UNCHANGED <<branch, integration>>
        BY <1>2 DEF GatesAskForFixes
    <2>4. \A t \in Task : status'[t] = "absent" => branch'[t] = Nothing
        BY <2>2, <2>3 DEF FixInv
    <2>5. ASSUME NEW f \in FixTasks
          PROVE  /\ reviewed'[f] \subseteq History(integration')
                 /\ branch'[f] # Nothing => reviewed'[f] \subseteq branch'[f]
        <3>1. CASE f \in fixes
            BY <1>1, <2>1, <2>2, <2>3, <3>1 DEF FixInv
        <3>2. CASE f \notin fixes
            BY <2>2, <2>3, <3>2 DEF FixInv
        <3> QED
            BY <3>1, <3>2
    <2> QED
        BY <2>4, <2>5 DEF FixInv
<1>3. CASE ~ GatesAskForFixes
    <2>1. UNCHANGED reviewed
        BY <1>3, NextCases
        DEF StartRun, RunPauses, Crash, RecoverLease, Claim, Retry, ReuseWorktree, WorktreeFails,
            MaterializeArtifacts, AgentEdits, AgentEnds, ProviderFails, CreateWorktree, CheckOut,
            FinalizeTask, FinalizeFails, Clean, MergeNext, StartIntegration,
            ApplyResult, StartGates, GatesPass, vars
    <2>2. \A t \in Task : status'[t] = "absent" => status[t] = "absent"
        BY AbsentStays
    <2>3. \A f \in FixTasks : reviewed'[f] \subseteq History(integration')
        BY <2>1, IntegrationGrows DEF FixInv
    <2>4. /\ \A t \in Task : status[t] = "absent" => branch'[t] = Nothing
          /\ \A f \in FixTasks : branch'[f] # Nothing => reviewed[f] \subseteq branch'[f]
        <3>1. CASE UNCHANGED branch
            BY <3>1 DEF FixInv
        <3>2. CASE \E policy \in Policies : Clean(policy)
            BY <1>1, <3>2 DEF Clean, FixInv
        <3>3. CASE /\ CreateWorktree
                   /\ current \in Task /\ Start \in SUBSET Edit
                   /\ branch' = [branch EXCEPT ![current] = Start]
            <4>1. status[current] = "in_progress"
                BY <3>3 DEF CreateWorktree, CheckOut, RunInv, Executes
            <4>2. current \in FixTasks => reviewed[current] \subseteq Start
                BY <1>1 DEF Start, Base, FixInv
            <4> QED
                BY <1>1, <3>3, <4>1, <4>2 DEF FixInv, TypeOK
        <3>4. CASE (FinalizeTask \/ FinalizeFails) /\ Takes
            <4>1. status[current] = "in_progress" /\ current \in Task
                BY <3>4 DEF FinalizeTask, FinalizeFails, RunInv, Executes
            <4>2. branch[current] \subseteq branch'[current] /\ branch[current] # Nothing
                BY <3>4, Histories DEF Takes
            <4> QED
                BY <1>1, <3>4, <4>1, <4>2 DEF FixInv, Takes
        <3> QED
            BY <3>1, <3>2, <3>3, <3>4, BranchCases
    <2> QED
        BY <2>1, <2>2, <2>3, <2>4 DEF FixInv
<1> QED
    BY <1>2, <1>3

-----------------------------------------------------------------------------
(* A task is routed to the same agent whenever it is claimed.              *)

LEMMA RoutingInit == Init => RoutingInv
BY DEF Init, RoutingInv

LEMMA RoutingStep ==
    ASSUME TypeOK, RunInv, RoutingInv, [Next]_vars
    PROVE  RoutingInv'
<1> USE DEF state, execution, git, ghosts
<1>1. ASSUME NEW t \in Task, Claim(t)
      PROVE  RoutingInv'
    <2>1. PICK a \in SelectAgent(agent[t], Routing[t]) : agent' = [agent EXCEPT ![t] = a]
        BY <1>1 DEF Claim
    <2>2. a \in SelectAgent(FirstAgent[t], Routing[t])
        BY <2>1, RoutedOnce DEF RoutingInv
    <2>3. lease[t] \in Nat /\ lease'[t] = lease[t] + 1
        BY <1>1 DEF Claim, TypeOK
    <2>4. lease'[t] > 0
        BY <2>3
    <2>5. agent'[t] = a /\ \A u \in Task \ {t} : agent'[u] = agent[u]
        BY <2>1 DEF TypeOK
    <2>6. \A u \in Task \ {t} : lease'[u] = lease[u] /\ status'[u] = status[u]
        BY <1>1 DEF Claim, TypeOK
    <2> QED
        BY <2>2, <2>4, <2>5, <2>6 DEF RoutingInv
<1>2. ASSUME UNCHANGED <<agent, lease>>,
             \A t \in Task : status'[t] \in {"in_progress", "completed"} => lease[t] > 0
      PROVE  RoutingInv'
    BY <1>2 DEF RoutingInv
<1>3. CASE \E t \in Task : RecoverLease(t) \/ Retry(t)
    BY <1>2, <1>3 DEF RecoverLease, Retry, TypeOK, RoutingInv
<1>4. ASSUME NEW s, EndExecution(s), Executes
      PROVE  RoutingInv'
    BY <1>2, <1>4 DEF EndExecution, RunInv, TypeOK, RoutingInv
<1>5. CASE WorktreeFails \/ ProviderFails \/ FinalizeFails \/ ApplyResult
    BY <1>4, <1>5 DEF WorktreeFails, ProviderFails, FinalizeFails, ApplyResult, Executes
<1>6. CASE GatesAskForFixes
    BY <1>2, <1>6 DEF GatesAskForFixes, RoutingInv
<1>7. CASE UNCHANGED <<agent, lease, status>>
    BY <1>2, <1>7 DEF RoutingInv
<1>8. CASE MaterializeArtifacts \/ AgentEnds
    BY <1>4, <1>7, <1>8 DEF MaterializeArtifacts, AgentEnds, Executes
<1> QED
    BY NextCases, <1>1, <1>3, <1>5, <1>6, <1>7, <1>8
    DEF StartRun, RunPauses, Crash, ReuseWorktree,
        AgentEdits, CreateWorktree, CheckOut,
        FinalizeTask, Clean, MergeNext, StartIntegration, StartGates, GatesPass, vars

-----------------------------------------------------------------------------
(* Recorded work is in a branch.                                           *)

\* No branch loses anything, but by the operator's cleaning.
LEMMA BranchesGrow ==
    ASSUME TypeOK, RunInv, NoCopiesInv, [Next]_vars,
           ~ \E policy \in Policies : Clean(policy),
           NEW t \in Task
    PROVE  History(branch[t]) \subseteq History(branch'[t])
<1>1. CASE /\ current \in Task /\ Start \in SUBSET Edit
           /\ branch' = [branch EXCEPT ![current] = Start]
    BY <1>1, Histories DEF Start, History, TypeOK
<1>2. CASE Takes
    <2>1. branch'[current] \in SUBSET Edit
        BY <1>2 DEF Takes, Worktree
    <2> QED
        BY <1>2, <2>1, Histories DEF Takes
<1> QED
    BY <1>1, <1>2, BranchCases

\* What cleaning takes from a branch was integrated, or counts as discarded.
LEMMA CleanedIsCounted ==
    ASSUME NEW policy \in Policies, Clean(policy), NEW t \in Task
    PROVE  History(branch[t]) \ discarded' \subseteq
               History(branch'[t]) \cup History(integration)
<1> DEFINE removed == IF "branches" \in policy
                      THEN {u \in Task : status[u] \in policy} ELSE {}
<1>1. /\ branch' = [u \in Task |-> IF u \in removed THEN Nothing ELSE branch[u]]
      /\ discarded' =
            discarded \cup UNION {History(branch[u]) \ History(integration) : u \in removed}
    BY DEF Clean
<1> HIDE DEF removed
<1>2. CASE t \in removed
    <2>1. History(branch[t]) \ History(integration) \subseteq discarded'
        BY <1>1, <1>2
    <2> QED
        BY <2>1
<1>3. CASE t \notin removed
    BY <1>1, <1>3
<1> QED
    BY <1>2, <1>3

LEMMA KeptInit == Init => CompletedIsKept
BY DEF Init, CompletedIsKept

LEMMA KeptStep ==
    ASSUME TypeOK, RunInv, EditInv, NoCopiesInv, MergeInv, CompletedIsKept, [Next]_vars
    PROVE  CompletedIsKept'
<1> USE DEF state, execution, git, ghosts
<1>1. History(integration) \subseteq History(integration')
    BY IntegrationGrows
<1>2. CASE \E policy \in Policies : Clean(policy)
    <2>1. PICK policy \in Policies : Clean(policy)
        BY <1>2
    <2> DEFINE removed == IF "branches" \in policy
                          THEN {t \in Task : status[t] \in policy} ELSE {}
    <2>2. /\ branch' = [t \in Task |-> IF t \in removed THEN Nothing ELSE branch[t]]
          /\ discarded' =
                discarded \cup UNION {History(branch[t]) \ History(integration) : t \in removed}
          /\ UNCHANGED <<reported, integration>>
        BY <2>1 DEF Clean
    <2> HIDE DEF removed
    <2>3. SUFFICES ASSUME NEW t \in Task, NEW e \in reported[t], e \notin discarded'
                   PROVE  e \in History(branch'[t]) \cup History(integration)
        BY <2>2 DEF CompletedIsKept
    <2>4. e \in History(branch[t]) \cup History(integration)
        BY <2>2, <2>3 DEF CompletedIsKept
    <2>5. CASE t \in removed
        BY <2>2, <2>3, <2>4, <2>5
    <2>6. CASE t \notin removed
        BY <2>2, <2>4, <2>6
    <2> QED
        BY <2>5, <2>6
<1>3. CASE ~ \E policy \in Policies : Clean(policy)
    <2>1. UNCHANGED discarded
        BY <1>3, NextCases
        DEF StartRun, RunPauses, Crash, RecoverLease, Claim, Retry, ReuseWorktree, WorktreeFails,
            MaterializeArtifacts, AgentEdits, AgentEnds, ProviderFails, CreateWorktree, CheckOut,
            FinalizeTask, FinalizeFails, MergeNext, StartIntegration,
            ApplyResult, StartGates, GatesAskForFixes, GatesPass, vars
    <2>2. \A t \in Task : History(branch[t]) \subseteq History(branch'[t])
        BY <1>3, BranchesGrow
    <2>3. CASE UNCHANGED reported
        BY <1>1, <2>1, <2>2, <2>3 DEF CompletedIsKept
    <2>4. CASE ApplyResult
        <3>1. current \in Task /\ UNCHANGED branch
            BY <2>4 DEF ApplyResult, RunInv, Executes
        <3>2. \A t \in Task : \A e \in reported'[t] :
                e \in reported[t] \/ (t = current /\ e \in History(branch[t]))
            <4>1. CASE result.status = "completed" /\ edited
                <5>1. <<current, lease[current]>> \in branch[current]
                    BY <2>4, <4>1 DEF ApplyResult, EditInv
                <5>2. branch[current] # Nothing
                    BY <2>4, <3>1, NothingAssumption DEF ApplyResult, RunInv, Executes, TypeOK
                <5> QED
                    BY <2>4, <3>1, <4>1, <5>1, <5>2 DEF ApplyResult, TypeOK, History
            <4>2. CASE ~ (result.status = "completed" /\ edited)
                BY <2>4, <4>2 DEF ApplyResult
            <4> QED
                BY <4>1, <4>2
        <3> QED
            BY <1>1, <2>1, <3>1, <3>2 DEF CompletedIsKept
    <2> QED
        BY <1>3, NextCases, <2>3, <2>4
        DEF StartRun, RunPauses, Crash, RecoverLease, Claim, Retry, ReuseWorktree, WorktreeFails,
            MaterializeArtifacts, AgentEdits, AgentEnds, ProviderFails, CreateWorktree, CheckOut,
            FinalizeTask, FinalizeFails, MergeNext, StartIntegration,
            StartGates, GatesAskForFixes, GatesPass, vars
<1> QED
    BY <1>2, <1>3

-----------------------------------------------------------------------------
(* What integration has taken.                                             *)

LEMMA MergeInit == Init => MergeInv
BY DEF Init, MergeInv, Integrated

LEMMA MergeStep ==
    ASSUME TypeOK, RunInv, MergeInv, CompletedIsKept, [Next]_vars
    PROVE  MergeInv'
<1> USE DEF state, execution, git, ghosts
<1>1. CASE StartIntegration
    <2>1. integration' \in SUBSET Edit
        BY <1>1, Histories DEF StartIntegration, TypeOK
    <2>2. \A t \in toMerge' : status'[t] = "completed" /\ ~ IsGateTask(t)'
        BY <1>1 DEF StartIntegration, Tasks, IsGateTask
    <2>3. \A t \in Task : status'[t] = "completed" /\ ~ IsGateTask(t)' => t \in toMerge'
        BY <1>1 DEF StartIntegration, Tasks, IsGateTask
    <2> QED
        BY <2>1, <2>2, <2>3 DEF MergeInv
<1>2. CASE MergeNext
    <2> DEFINE n == NextToMerge
    <2>1. n \in toMerge /\ n \in Task /\ workflow' # "completed" /\ run' \in {"merge", "idle"}
        BY <1>2, NextIsToMerge DEF MergeNext, StopMerging, RunInv, TypeOK
    <2>2. integration \in SUBSET Edit /\ History(integration) = integration
        BY <1>2, Histories DEF MergeNext, MergeInv, Integrated
    <2>3. UNCHANGED <<status, agent, reported, discarded>>
        BY <1>2 DEF MergeNext
    <2>4. toMerge' \subseteq toMerge
        BY <1>2 DEF MergeNext, StopMerging
    <2>5. ASSUME run' = "merge"
          PROVE  /\ integration' \in SUBSET Edit /\ integration \subseteq integration'
                 /\ toMerge' = toMerge \ {n}
                 /\ History(branch[n]) \subseteq integration'
        <3>1. CASE branch[n] = Nothing \/ IsMerged(n)
            BY <1>2, <2>2, <3>1 DEF MergeNext, StopMerging, IsMerged, History
        <3>2. CASE branch[n] # Nothing /\ ~ IsMerged(n)
            BY <1>2, <2>1, <2>2, <2>5, <3>2 DEF MergeNext, StopMerging, TypeOK, History
        <3> QED
            BY <3>1, <3>2
    <2>6. ASSUME run' = "merge", NEW t \in Task,
                 status[t] = "completed", ~ IsGateTask(t), t \notin toMerge'
          PROVE  reported[t] \ discarded \subseteq integration'
        <3>1. CASE t = n
            BY <2>2, <2>5, <2>6, <3>1 DEF CompletedIsKept
        <3>2. CASE t # n
            BY <1>2, <2>2, <2>5, <2>6, <3>2 DEF MergeNext, MergeInv, Integrated
        <3> QED
            BY <3>1, <3>2
    <2>7. run' = "merge" => History(integration') = integration'
        BY <2>5, Histories
    <2> HIDE DEF n
    <2> QED
        BY <2>1, <2>3, <2>4, <2>5, <2>6, <2>7 DEF MergeInv, Integrated, IsGateTask
<1>3. CASE StartGates \/ GatesPass
    BY <1>3 DEF StartGates, GatesPass, MergeInv, Integrated, IsGateTask, RunInv
<1>4. ASSUME NEW policy \in Policies, Clean(policy)
      PROVE  MergeInv'
    BY <1>4 DEF Clean, MergeInv, Integrated, IsGateTask, RunInv
<1>5. CASE UNCHANGED vars
    BY <1>5 DEF vars, MergeInv, Integrated, IsGateTask
<1>6. ASSUME toMerge' = {}, run' \notin {"merge", "gates"}, workflow' # "completed"
      PROVE  MergeInv'
    BY <1>6 DEF MergeInv, Integrated
<1>7. CASE \/ StartRun \/ RunPauses \/ Crash
           \/ \E t \in Task : RecoverLease(t) \/ Claim(t) \/ Retry(t)
           \/ ReuseWorktree \/ CreateWorktree \/ WorktreeFails \/ MaterializeArtifacts
           \/ AgentEdits \/ AgentEnds \/ ProviderFails \/ FinalizeTask \/ FinalizeFails
           \/ ApplyResult \/ GatesAskForFixes
    BY <1>6, <1>7
    DEF StartRun, RunPauses, Crash, RecoverLease, Claim, Retry, ReuseWorktree, WorktreeFails,
        MaterializeArtifacts, AgentEdits, AgentEnds, ProviderFails, CreateWorktree, CheckOut,
        FinalizeTask, FinalizeFails, EndExecution, ApplyResult, GatesAskForFixes, RunInv
<1> QED
    BY NextCases, <1>1, <1>2, <1>3, <1>4, <1>5, <1>7

\* The agent of a task that was claimed does not change.
LEMMA AgentStays ==
    ASSUME TypeOK, RoutingInv, [Next]_vars, NEW t \in Task, lease[t] > 0
    PROVE  agent'[t] = agent[t] /\ lease'[t] > 0
<1> USE DEF state, execution, git, ghosts
<1>1. ASSUME NEW u \in Task, Claim(u)
      PROVE  agent'[t] = agent[t] /\ lease'[t] > 0
    <2>1. PICK a \in SelectAgent(agent[u], Routing[u]) : agent' = [agent EXCEPT ![u] = a]
        BY <1>1 DEF Claim
    <2>2. u = t => a = agent[t]
        BY <2>1, RoutedOnce DEF RoutingInv
    <2>4. agent'[t] = agent[t]
        BY <2>1, <2>2 DEF TypeOK
    <2>3. lease[t] \in Nat /\ (lease'[t] = lease[t] \/ lease'[t] = lease[t] + 1)
        BY <1>1 DEF Claim, TypeOK
    <2>5. lease'[t] > 0
        BY <2>3
    <2> QED
        BY <2>4, <2>5
<1>2. CASE UNCHANGED <<agent, lease>>
    BY <1>2
<1> QED
    BY NextCases, <1>1, <1>2
    DEF StartRun, RunPauses, Crash, RecoverLease, Retry, ReuseWorktree, WorktreeFails,
        MaterializeArtifacts, AgentEdits, AgentEnds, ProviderFails, CreateWorktree, CheckOut,
        FinalizeTask, FinalizeFails, Clean, MergeNext, StartIntegration, EndExecution,
        ApplyResult, StartGates, GatesAskForFixes, GatesPass, vars

LEMMA HalfInit == Init => HalfInv
BY DEF Init, HalfInv

\* A branch that is not merged stays so while a merge is half way.
LEMMA UnmergedStays ==
    ASSUME TypeOK, RunInv, NoCopiesInv, [Next]_vars, NEW t \in Task,
           integration \in SUBSET Edit, integration' = integration, discarded' = {},
           branch[t] # Nothing, ~ IsMerged(t)
    PROVE  branch'[t] # Nothing /\ ~ IsMerged(t)'
<1>1. branch[t] \in SUBSET Edit /\ ~ (branch[t] \subseteq integration)
    BY DEF TypeOK, IsMerged
<1>2. SUFFICES branch'[t] # Nothing /\ branch[t] \subseteq branch'[t]
    BY <1>1 DEF IsMerged
<1>3. CASE UNCHANGED branch
    BY <1>3
<1>4. ASSUME NEW policy \in Policies, Clean(policy)
      PROVE  branch'[t] # Nothing /\ branch[t] \subseteq branch'[t]
    <2> DEFINE removed == IF "branches" \in policy
                          THEN {u \in Task : status[u] \in policy} ELSE {}
    <2>1. /\ branch' = [u \in Task |-> IF u \in removed THEN Nothing ELSE branch[u]]
          /\ discarded' =
                discarded \cup UNION {History(branch[u]) \ History(integration) : u \in removed}
        BY <1>4 DEF Clean
    <2> HIDE DEF removed
    <2>2. t \notin removed
        BY <1>1, <2>1, Histories
    <2> QED
        BY <2>1, <2>2
<1>5. CASE branch' = [branch EXCEPT ![current] = Start]
    BY <1>5 DEF Start, TypeOK
<1>6. CASE Takes
    <2>1. CASE t = current
        <3>1. branch'[t] = branch[t] \cup worktree[t].edits /\ worktree[t].edits \subseteq Edit
            BY <1>6, <2>1 DEF Takes, Worktree
        <3> QED
            BY <1>1, <3>1, NothingAssumption
    <2>2. CASE t # current
        BY <1>6, <2>2 DEF Takes
    <2> QED
        BY <2>1, <2>2
<1> QED
    BY <1>3, <1>4, <1>5, <1>6, BranchCases

LEMMA HalfStep ==
    ASSUME TypeOK, RunInv, NoCopiesInv, RoutingInv, MergeInv, HalfInv, [Next]_vars
    PROVE  HalfInv'
<1> USE DEF state, execution, git, ghosts
<1> SUFFICES ASSUME halfMerged', discarded' = {}
             PROVE  /\ integration' \in SUBSET Edit
                    /\ run' # "gates" /\ workflow' # "completed"
                    /\ \E t \in Task : IsAwaited(t)'
    BY DEF HalfInv
<1>1. discarded = {}
    BY NextCases
    DEF StartRun, RunPauses, Crash, RecoverLease, Claim, Retry, ReuseWorktree, WorktreeFails,
        MaterializeArtifacts, AgentEdits, AgentEnds, ProviderFails, CreateWorktree, CheckOut,
        FinalizeTask, FinalizeFails, Clean, MergeNext, StartIntegration,
        ApplyResult, StartGates, GatesAskForFixes, GatesPass, vars
<1>2. CASE ~ halfMerged
    <2>1. Crash
        BY <1>2, NextCases
        DEF StartRun, RunPauses, RecoverLease, Claim, Retry, ReuseWorktree, WorktreeFails,
            MaterializeArtifacts, AgentEdits, AgentEnds, ProviderFails, CreateWorktree, CheckOut,
            FinalizeTask, FinalizeFails, Clean, MergeNext, StartIntegration,
            ApplyResult, StartGates, GatesAskForFixes, GatesPass, vars
    <2>2. PICK t \in toMerge : branch[t] # Nothing /\ ~ IsMerged(t) /\ run = "merge"
        BY <1>2, <2>1 DEF Crash
    <2>3. t \in Task /\ status[t] = "completed" /\ ~ IsGateTask(t)
        BY <2>2 DEF TypeOK, MergeInv
    <2>4. lease[t] > 0
        BY <2>3 DEF RoutingInv
    <2>5. integration \in SUBSET Edit /\ workflow # "completed"
        BY <2>2 DEF MergeInv, Integrated, RunInv
    <2>6. IsAwaited(t)'
        BY <2>1, <2>2, <2>3, <2>4 DEF Crash, IsAwaited, IsMerged, IsGateTask
    <2> QED
        BY <2>1, <2>3, <2>5, <2>6 DEF Crash
<1>3. CASE halfMerged
    <2>1. PICK t \in Task : IsAwaited(t)
        BY <1>1, <1>3 DEF HalfInv
    <2>2. integration \in SUBSET Edit /\ run # "gates" /\ workflow # "completed"
        BY <1>1, <1>3 DEF HalfInv
    <2>3. integration' = integration
        BY <1>3, <2>2, IntegrationCases, Histories
    <2>4. branch'[t] # Nothing /\ ~ IsMerged(t)'
        BY <2>1, <2>2, <2>3, UnmergedStays DEF IsAwaited
    <2>5. status'[t] # "absent"
        BY <2>1, AbsentStays DEF IsAwaited
    <2>6. ~ IsGateTask(t)' /\ lease'[t] > 0
        BY <2>1, AgentStays DEF IsAwaited, IsGateTask
    <2>7. ASSUME run' = "merge"
          PROVE  t \in toMerge'
        <3>1. CASE StartIntegration
            <4>1. t \in Tasks /\ ~ IsGateTask(t)
                BY <2>1 DEF IsAwaited, Tasks
            <4>2. status[t] = "completed"
                BY <3>1, <4>1 DEF StartIntegration, IntegrationIsDue
            <4> QED
                BY <3>1, <4>1, <4>2 DEF StartIntegration
        <3>2. CASE MergeNext
            <4>1. t \in toMerge
                BY <2>1, <3>2 DEF IsAwaited, MergeNext
            <4>2. branch[NextToMerge] = Nothing \/ IsMerged(NextToMerge)
                BY <1>3, <2>7, <3>2 DEF MergeNext, StopMerging
            <4>3. toMerge' = toMerge \ {NextToMerge} /\ NextToMerge # t
                BY <2>1, <3>2, <4>2 DEF MergeNext, IsAwaited
            <4> QED
                BY <4>1, <4>3
        <3>3. CASE run = "merge" /\ UNCHANGED toMerge
            BY <2>1, <3>3 DEF IsAwaited
        <3> QED
            BY <2>7, <3>1, <3>2, <3>3, NextCases
            DEF StartRun, RunPauses, Crash, RecoverLease, Claim, Retry, ReuseWorktree,
                WorktreeFails, MaterializeArtifacts, AgentEdits, AgentEnds, ProviderFails,
                CreateWorktree, CheckOut, FinalizeTask, FinalizeFails, EndExecution, Clean,
                ApplyResult, StartGates, GatesAskForFixes, GatesPass, vars
    <2>8. run' # "gates" /\ workflow' # "completed"
        BY <2>1, <2>2, NextCases
        DEF StartRun, RunPauses, Crash, RecoverLease, Claim, Retry, ReuseWorktree,
            WorktreeFails, MaterializeArtifacts, AgentEdits, AgentEnds, ProviderFails,
            CreateWorktree, CheckOut, FinalizeTask, FinalizeFails, EndExecution, Clean, MergeNext,
            StopMerging, StartIntegration, ApplyResult, StartGates, GatesAskForFixes, GatesPass,
            vars, IsAwaited
    <2> QED
        BY <2>2, <2>3, <2>4, <2>5, <2>6, <2>7, <2>8 DEF IsAwaited
<1> QED
    BY <1>2, <1>3

-----------------------------------------------------------------------------
(* The theorems.                                                           *)

\* The inductive invariant of a task's way through git: where a run is, where the
\* work of an attempt is, and which merges are still to come (executeRequest,
\* createTaskWorktree, runIntegrationPhase, mergeTaskBranch).
THEOREM DeliveryInvariant == Spec => []DeliveryInv
<1>1. Init => DeliveryInv
    BY TypeInit, RunInit, EditInit, NoCopiesInit, FixInit, RoutingInit, KeptInit, MergeInit,
       HalfInit
    DEF DeliveryInv
<1>2. DeliveryInv /\ [Next]_vars => DeliveryInv'
    BY TypeStep, RunStep, EditStep, NoCopiesStep, FixStep, RoutingStep, KeptStep, MergeStep,
       HalfStep
    DEF DeliveryInv
<1> QED
    BY <1>1, <1>2, PTL DEF Spec

\* State and git stay within their types; a worktree has a branch, and an idle run
\* has no task and nothing to merge (executeRequest, runIntegrationPhase).
THEOREM DeliveryTypes == Spec => []TypeOK
<1>1. DeliveryInv => TypeOK
    BY DEF DeliveryInv
<1> QED
    BY <1>1, DeliveryInvariant, PTL

\* Recorded work stays in a branch until the operator deletes it, through any
\* crashes, failed and repeated attempts and aborted merges (executeRequest,
\* createTaskWorktree, mergeTaskBranch).
THEOREM CompletedWorkIsKept == Spec => []CompletedIsKept
<1>1. DeliveryInv => CompletedIsKept
    BY DEF DeliveryInv
<1> QED
    BY <1>1, DeliveryInvariant, PTL

\* What passes QA has all the recorded work of the completed tasks that no gate's
\* agent did, and was not looked at in the middle of a merge (runIntegrationPhase,
\* mergeTaskBranch).
THEOREM CompletedWorkIsIntegrated == Spec => []IntegratedWhenCompleted
<1>1. DeliveryInv => IntegratedWhenCompleted
    <2> SUFFICES ASSUME DeliveryInv, workflow = "completed"
                 PROVE  /\ \A t \in Task : status[t] = "completed" /\ ~ IsGateTask(t) =>
                                               reported[t] \ discarded \subseteq integration
                        /\ halfMerged => discarded # {}
        BY DEF IntegratedWhenCompleted
    <2>1. toMerge = {}
        BY DEF DeliveryInv, RunInv
    <2>2. integration \in SUBSET Edit /\ History(integration) = integration
        BY Histories DEF DeliveryInv, MergeInv, Integrated
    <2>3. \A t \in Task : status[t] = "completed" /\ ~ IsGateTask(t) =>
                              reported[t] \ discarded \subseteq integration
        BY <2>1, <2>2 DEF DeliveryInv, MergeInv, Integrated
    <2>4. halfMerged => discarded # {}
        BY DEF DeliveryInv, HalfInv
    <2> QED
        BY <2>3, <2>4
<1> QED
    BY <1>1, DeliveryInvariant, PTL

\* The agent of a fix task works on what the review that asked for it saw (the
\* baseRef of executeRequest, createTaskWorktree).
THEOREM FixesBuildOnReviewed == Spec => []FixBuildsOnReviewed
<1>1. DeliveryInv => FixBuildsOnReviewed
    <2> SUFFICES ASSUME DeliveryInv, run = "agent", current \in FixTasks
                 PROVE  reviewed[current] \subseteq branch[current]
        BY DEF FixBuildsOnReviewed
    <2>1. current \in Task /\ worktree[current] \in Worktree
        BY DEF DeliveryInv, RunInv, Executes
    <2>2. branch[current] # Nothing
        BY <2>1, NothingAssumption DEF DeliveryInv, TypeOK
    <2> QED
        BY <2>2 DEF DeliveryInv, FixInv
<1> QED
    BY <1>1, DeliveryInvariant, PTL

\* No artifact that was copied into a worktree reaches a branch (executeRequest,
\* which removes the copies before the commit).
THEOREM CopiesStayOutside == Spec => []CopiesStayOut
<1>1. DeliveryInv => CopiesStayOut
    BY DEF DeliveryInv, NoCopiesInv
<1> QED
    BY <1>1, DeliveryInvariant, PTL

\* A task becomes completed only by a result of its present lease, whatever result
\* file the worktree holds (readAgentResult, assertResultContract).
THEOREM ResultsAreOwn == Spec => OwnResultOnly
<1> DEFINE Own == \A t \in Task : status'[t] = "completed" /\ status[t] # "completed" =>
                                      result # Nothing /\ result.lease = lease[t]
<1>1. DeliveryInv /\ [Next]_vars => [Own]_vars
    <2> SUFFICES ASSUME DeliveryInv, [Next]_vars, NEW t \in Task,
                        status'[t] = "completed", status[t] # "completed"
                 PROVE  result # Nothing /\ result.lease = lease[t]
        OBVIOUS
    <2> USE DEF state, execution, git, ghosts
    <2>1. status \in [Task -> {"absent", "pending", "in_progress", "completed", "failed"}]
        BY DEF DeliveryInv, TypeOK
    <2>2. ASSUME NEW s, EndExecution(s), s # "completed"
          PROVE  FALSE
        BY <2>1, <2>2 DEF EndExecution
    <2>3. ApplyResult
        BY <2>1, <2>2, NextCases
        DEF StartRun, RunPauses, Crash, RecoverLease, Claim, Retry, ReuseWorktree, WorktreeFails,
            MaterializeArtifacts, AgentEdits, AgentEnds, ProviderFails, CreateWorktree, CheckOut,
            FinalizeTask, FinalizeFails, Clean, MergeNext, StartIntegration,
            StartGates, GatesAskForFixes, GatesPass, vars
    <2>4. t = current
        BY <2>1, <2>3 DEF ApplyResult, EndExecution
    <2>5. result \in Result /\ result.lease = lease[current]
        BY <2>3 DEF ApplyResult, DeliveryInv, RunInv
    <2> QED
        BY <2>4, <2>5, NothingAssumption
<1> QED
    BY <1>1, DeliveryInvariant, PTL DEF Spec, OwnResultOnly

\* Whoever executes a task, in whatever attempt, was chosen for what the task requires, or
\* was named by the plan; and every attempt is the same agent's.
ExecutorIsCapable ==
    \A t \in Task : lease[t] > 0 =>
        IF IsRouted(Routing[t]) THEN Routing[t].required \subseteq Capabilities[agent[t]]
        ELSE agent[t] = FirstAgent[t]

AgentIsKept == [][\A t \in Task : lease[t] > 0 => agent'[t] = agent[t]]_vars

\* An agent that was given a task has the capabilities it requires, through expired
\* leases, retries by the operator and crashes (scheduleOnce, routeReadyTasks).
THEOREM ExecutorsAreCapable == Spec => []ExecutorIsCapable
<1>1. DeliveryInv => ExecutorIsCapable
    <2> SUFFICES ASSUME DeliveryInv, NEW t \in Task, lease[t] > 0
                 PROVE  IF IsRouted(Routing[t])
                        THEN Routing[t].required \subseteq Capabilities[agent[t]]
                        ELSE agent[t] = FirstAgent[t]
        BY DEF ExecutorIsCapable
    <2>1. agent[t] \in SelectAgent(FirstAgent[t], Routing[t])
        BY DEF DeliveryInv, RoutingInv
    <2> QED
        BY <2>1 DEF SelectAgent, Candidates
<1> QED
    BY <1>1, DeliveryInvariant, PTL

\* A task that is routed once more, after a retry or a lost lease, goes to the agent it
\* had, although the routing overwrites the task's agent (routeReadyTasks, selectAgentForTask).
THEOREM AgentsAreKept == Spec => AgentIsKept
<1> DEFINE Kept == \A t \in Task : lease[t] > 0 => agent'[t] = agent[t]
<1>1. DeliveryInv /\ [Next]_vars => [Kept]_vars
    BY AgentStays DEF DeliveryInv
<1> QED
    BY <1>1, DeliveryInvariant, PTL DEF Spec, AgentIsKept

\* No step takes a commit from the integration branch; and what a task's branch had stays
\* in it or is integrated, unless the operator's cleaning discards it: not the checkout of a
\* new worktree, not a crash, not an aborted merge (createTaskWorktree, mergeTaskBranch).
HistoryIsKept ==
    [][/\ History(integration) \subseteq History(integration')
       /\ \A t \in Task :
             History(branch[t]) \ discarded' \subseteq
                 History(branch'[t]) \cup History(integration)]_vars

\* Git's history is append-only but for the clean-up, also for work that was never
\* recorded (createTaskWorktree, finalizeTaskWorktree, mergeTaskBranch).
THEOREM HistoriesAreKept == Spec => HistoryIsKept
<1> DEFINE Kept ==
        /\ History(integration) \subseteq History(integration')
        /\ \A t \in Task :
              History(branch[t]) \ discarded' \subseteq
                  History(branch'[t]) \cup History(integration)
<1>1. DeliveryInv /\ [Next]_vars => [Kept]_vars
    <2> SUFFICES ASSUME DeliveryInv, [Next]_vars PROVE Kept
        OBVIOUS
    <2>1. /\ TypeOK /\ RunInv /\ NoCopiesInv /\ MergeInv
          /\ History(integration) \subseteq History(integration')
        BY IntegrationGrows DEF DeliveryInv
    <2>2. CASE \E policy \in Policies : Clean(policy)
        BY <2>1, <2>2, CleanedIsCounted
    <2>3. CASE ~ \E policy \in Policies : Clean(policy)
        <3>1. \A t \in Task : History(branch[t]) \subseteq History(branch'[t])
            BY <2>1, <2>3, BranchesGrow
        <3> QED
            BY <2>1, <3>1
    <2> QED
        BY <2>2, <2>3
<1> QED
    BY <1>1, DeliveryInvariant, PTL DEF Spec, HistoryIsKept
=============================================================================
