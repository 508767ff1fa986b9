------------------------------ MODULE Delivery ------------------------------
(***************************************************************************)
(* The way of a task's work through git: executeRequest with worktree,     *)
(* artifacts, agent, result and commit; the integration phase; the gates   *)
(* as far as they append fix tasks or complete the workflow; the operator  *)
(* who retries and cleans between runs. One runner (the pool's default).   *)
(*                                                                         *)
(* An edit is <<t, n>>: what the agent changed in the n-th lease of t. The *)
(* history of a branch is the set of the edits its commits contain, a      *)
(* merge the union; one branch is an ancestor of another iff its history   *)
(* is a part of the other's. <<t, 0>> is a copy that the orchestration     *)
(* placed in the worktree of t.                                            *)
(***************************************************************************)
EXTENDS CapabilityRouting, FiniteSets

CONSTANTS
    NumTasks,
    FixTasks,       \* the tasks whose id starts with FIX-, after all others
    WithArtifacts,  \* the tasks with artifact_refs
    FirstAgent,     \* FirstAgent[t]: the agent the plan names
    Routing,        \* Routing[t]: mode, required and preferred
    Policies,       \* cleanup policies: sets of task statuses and "branches"
    Nothing,        \* no worktree, no branch, no result
    MaxLeases,      \* bound: MaxLeases[t] leases of t
    MaxMishaps      \* bound: crashes, failures of git and interventions

Task == 1 .. NumTasks

\* The planner plans no task for a gate.
ASSUME DeliveryAssumption ==
    /\ NumTasks \in Nat
    /\ FixTasks \subseteq Task /\ WithArtifacts \subseteq Task
    /\ \A t \in Task \ FixTasks, f \in FixTasks : t < f
    /\ FirstAgent \in [Task -> Agent \ GateAgents]
    /\ \A f \in FixTasks : Routing[f].mode = "fixed"
    /\ \A t \in Task : Routing[t].preferred \in Seq(Agent)
    /\ MaxLeases \in [Task -> Nat] /\ MaxMishaps \in Nat

VARIABLES
    plainName,      \* is the workflow's id its own sanitized segment?
    workflow,       \* "running" or "completed"
    status, agent,  \* status[t] and agent[t] in state.json
    lease,          \* lease[t]: the number of the last lease of t
    run,            \* where `amiral run` is
    current,        \* the task that is executed
    edited,         \* has its agent changed a file?
    result,         \* the agent result executeRequest has read
    worktree,       \* worktree[t]
    branch,         \* branch[t]: the history of t's branch
    integration,    \* the history of the integration branch
    halfMerged,     \* is a merge in the integration worktree under way?
    toMerge,        \* the completed tasks still to be looked at
    reported,       \* reported[t]: the edits in attempts applied as completed
    reviewed,       \* reviewed[f]: what was integrated when f was asked for
    discarded,      \* edits of branches the operator deleted
    mishaps

state == <<plainName, workflow, status, agent, lease>>
execution == <<run, current, edited, result>>
git == <<worktree, branch, integration, halfMerged, toMerge>>
ghosts == <<reported, reviewed, discarded>>
vars == <<state, execution, git, ghosts, mishaps>>

NoTask == 0

Edit == UNION {{t} \X (0 .. MaxLeases[t]) : t \in Task}
Result == [lease : UNION {1 .. MaxLeases[t] : t \in Task}, status : {"completed", "failed"}]
Worktree == [edits : SUBSET Edit, copies : BOOLEAN, result : Result \cup {Nothing}]

ASSUME NothingAssumption ==
    /\ \A history \in SUBSET Edit : history # Nothing
    /\ \A r \in Result : r # Nothing
    /\ \A w \in Worktree : w # Nothing

History(b) == IF b = Nothing THEN {} ELSE b

\* A worktree has a branch, and only `amiral run` has a current task.
TypeOK ==
    /\ plainName \in BOOLEAN /\ workflow \in {"running", "completed"}
    /\ status \in [Task -> {"absent", "pending", "in_progress", "completed", "failed"}]
    /\ agent \in [Task -> Agent] /\ lease \in [Task -> Nat]
    /\ \A t \in Task : lease[t] <= MaxLeases[t]
    /\ run \in {"idle", "schedule", "worktree", "artifacts", "agent", "finalize", "apply",
                "merge", "gates"}
    /\ current \in Task \cup {NoTask} /\ edited \in BOOLEAN
    /\ result \in Result \cup {Nothing}
    /\ worktree \in [Task -> Worktree \cup {Nothing}]
    /\ branch \in [Task -> (SUBSET Edit) \cup {Nothing}]
    /\ integration \in (SUBSET Edit) \cup {Nothing} /\ halfMerged \in BOOLEAN
    /\ toMerge \subseteq Task
    /\ reported \in [Task -> SUBSET Edit] /\ reviewed \in [FixTasks -> SUBSET Edit]
    /\ discarded \subseteq Edit /\ mishaps \in 0 .. MaxMishaps
    /\ \A t \in Task : worktree[t] # Nothing => branch[t] # Nothing
    /\ run = "idle" => current = NoTask /\ toMerge = {}

Init ==
    /\ plainName \in BOOLEAN
    /\ workflow = "running"
    /\ status = [t \in Task |-> IF t \in FixTasks THEN "absent" ELSE "pending"]
    /\ agent = FirstAgent
    /\ lease = [t \in Task |-> 0]
    /\ run = "idle" /\ current = NoTask /\ edited = FALSE /\ result = Nothing
    /\ worktree = [t \in Task |-> Nothing]
    /\ branch = [t \in Task |-> Nothing]
    /\ integration = Nothing /\ halfMerged = FALSE /\ toMerge = {}
    /\ reported = [t \in Task |-> {}]
    /\ reviewed = [f \in FixTasks |-> {}]
    /\ discarded = {}
    /\ mishaps = 0

Mishap == mishaps < MaxMishaps /\ mishaps' = mishaps + 1

-----------------------------------------------------------------------------
\* The run and its rounds; claims and leases are WorkflowRuntime's subject.

StartRun ==
    /\ run = "idle" /\ workflow = "running"
    /\ run' = "schedule"
    /\ UNCHANGED <<state, current, edited, result, git, ghosts, mishaps>>

\* A lease that a crash left behind has expired.
RecoverLease(t) ==
    /\ run = "schedule" /\ status[t] = "in_progress"
    /\ \E s \in {"pending", "failed"} : status' = [status EXCEPT ![t] = s]
    /\ UNCHANGED <<plainName, workflow, agent, lease, execution, git, ghosts, mishaps>>

\* findReadyTasks before the routing, as in scheduleOnce.
IsClaimable(t) == status[t] = "pending" /\ agent[t] \notin GateAgents /\ lease[t] < MaxLeases[t]

Claim(t) ==
    /\ run = "schedule" /\ IsClaimable(t)
    /\ \A u \in Task : status[u] # "in_progress"
    /\ \E a \in SelectAgent(agent[t], Routing[t]) : agent' = [agent EXCEPT ![t] = a]
    /\ status' = [status EXCEPT ![t] = "in_progress"]
    /\ lease' = [lease EXCEPT ![t] = @ + 1]
    /\ run' = "worktree" /\ current' = t /\ edited' = FALSE /\ result' = Nothing
    /\ UNCHANGED <<plainName, workflow, git, ghosts, mishaps>>

\* executeRequest is over and the task has the status s.
EndExecution(s) ==
    /\ status' = [status EXCEPT ![current] = s]
    /\ run' = "schedule" /\ current' = NoTask /\ edited' = FALSE /\ result' = Nothing
    /\ UNCHANGED <<plainName, workflow, agent, lease>>

-----------------------------------------------------------------------------
\* executeRequest.

\* createTaskWorktree at a path that exists.
ReuseWorktree ==
    /\ run = "worktree" /\ worktree[current] # Nothing
    /\ run' = "artifacts"
    /\ UNCHANGED <<state, current, edited, result, git, ghosts, mishaps>>

\* The base of a fix task is named after the unsanitized id of the workflow.
BaseExists == current \in FixTasks => plainName /\ integration # Nothing

Base == IF current \in FixTasks THEN integration ELSE {}

\* The result files that a commit of the current task may have put into the history h.
Tracked(h) == {[lease |-> e[2], status |-> "completed"] : e \in {e \in h : e[1] = current}}

CheckOut(h) ==
    /\ run = "worktree" /\ worktree[current] = Nothing
    /\ branch[current] # Nothing \/ BaseExists
    /\ \E r \in {Nothing} \cup Tracked(h) :
           worktree' = [worktree EXCEPT ![current] = [edits |-> {}, copies |-> FALSE, result |-> r]]
    /\ branch' = [branch EXCEPT ![current] = h]
    /\ run' = "artifacts"
    /\ UNCHANGED <<state, current, edited, result, integration, halfMerged, toMerge, ghosts,
                   mishaps>>

\* Mutant: every task starts from HEAD.
CreateWorktreeFromHead == CheckOut(History(branch[current]))

\* Mutant: the branch is created anew whenever its worktree is.
CreateWorktreeAnew == CheckOut(History(Base))

\* A branch that exists is checked out, whatever the base.
CreateWorktree == CheckOut(IF branch[current] # Nothing THEN branch[current] ELSE History(Base))

\* git refuses, or the base does not exist; the task fails.
WorktreeFails ==
    /\ run = "worktree" /\ worktree[current] = Nothing
    /\ IF branch[current] # Nothing \/ BaseExists THEN Mishap ELSE UNCHANGED mishaps
    /\ EndExecution("failed")
    /\ UNCHANGED <<git, ghosts>>

SetCopies(b) == worktree' = [worktree EXCEPT ![current].copies = b]

\* materializeTaskArtifacts overwrites nothing: a copy that a crash left
\* behind fails the task, as does an artifact that is not there; what was
\* copied before that is removed.
MaterializeArtifacts ==
    /\ run = "artifacts"
    /\ \/ /\ current \in WithArtifacts => ~ worktree[current].copies
          /\ SetCopies(current \in WithArtifacts)
          /\ run' = "agent"
          /\ UNCHANGED <<state, current, edited, result, mishaps>>
       \/ /\ current \in WithArtifacts
          /\ IF worktree[current].copies THEN UNCHANGED mishaps ELSE Mishap
          /\ EndExecution("failed")
          /\ UNCHANGED worktree
    /\ UNCHANGED <<branch, integration, halfMerged, toMerge, ghosts>>

AgentEdits ==
    /\ run = "agent" /\ ~ edited
    /\ edited' = TRUE
    /\ worktree' = [worktree EXCEPT ![current].edits = @ \cup {<<current, lease[current]>>}]
    /\ UNCHANGED <<state, run, current, result, branch, integration, halfMerged, toMerge, ghosts,
                   mishaps>>

OwnResults == {r \in Result : r.lease = lease[current]}

\* The result file counts, whoever wrote it; without one the answer's text does, or
\* a failure is made up.
ReadableResults ==
    OwnResults \cup IF worktree[current].result = Nothing THEN {} ELSE {worktree[current].result}

\* Mutant: the lease of the result is not compared.
AgentEndsUnchecked ==
    /\ run = "agent"
    /\ \E r \in ReadableResults :
         /\ worktree' = [worktree EXCEPT ![current].result = r]
         /\ result' = r /\ run' = "finalize"
         /\ UNCHANGED <<state, current, edited>>
    /\ UNCHANGED <<branch, integration, halfMerged, toMerge, ghosts, mishaps>>

\* Exit code 0; readAgentResult and assertResultContract.
AgentEnds ==
    /\ run = "agent"
    /\ \E r \in ReadableResults :
         IF r.lease = lease[current]
         THEN /\ worktree' = [worktree EXCEPT ![current].result = r]
              /\ result' = r /\ run' = "finalize"
              /\ UNCHANGED <<state, current, edited>>
         ELSE EndExecution("failed") /\ SetCopies(FALSE)
    /\ UNCHANGED <<branch, integration, halfMerged, toMerge, ghosts, mishaps>>

\* A ProviderError: the task is retried later or fails.
ProviderFails ==
    /\ run = "agent"
    /\ \E s \in {"pending", "failed"} : EndExecution(s)
    /\ SetCopies(FALSE)
    /\ UNCHANGED <<branch, integration, halfMerged, toMerge, ghosts, mishaps>>

\* What `git add --all` and `git commit` take from the worktree.
Committed(copies) ==
    worktree[current].edits \cup (IF copies THEN {<<current, 0>>} ELSE {})

\* Mutant: the copies are removed after the commit.
FinalizeWithCopies ==
    /\ run = "finalize"
    /\ IF result.status = "completed"
       THEN /\ branch' = [branch EXCEPT ![current] = @ \cup Committed(worktree[current].copies)]
            /\ worktree' = [worktree EXCEPT ![current].edits = {}, ![current].copies = FALSE]
       ELSE SetCopies(FALSE) /\ UNCHANGED branch
    /\ run' = "apply"
    /\ UNCHANGED <<state, current, edited, result, integration, halfMerged, toMerge, ghosts,
                   mishaps>>

\* The copies are removed; a completed result has everything in the worktree
\* committed, what failed attempts left there included.
FinalizeTask ==
    /\ run = "finalize"
    /\ IF result.status = "completed"
       THEN /\ branch' = [branch EXCEPT ![current] = @ \cup Committed(FALSE)]
            /\ worktree' = [worktree EXCEPT ![current].edits = {}, ![current].copies = FALSE]
       ELSE SetCopies(FALSE) /\ UNCHANGED branch
    /\ run' = "apply"
    /\ UNCHANGED <<state, current, edited, result, integration, halfMerged, toMerge, ghosts,
                   mishaps>>

\* git fails before, in or after the commit; the task fails.
FinalizeFails ==
    /\ run = "finalize" /\ result.status = "completed" /\ Mishap
    /\ EndExecution("failed")
    /\ \/ SetCopies(FALSE) /\ UNCHANGED branch
       \/ /\ branch' = [branch EXCEPT ![current] = @ \cup Committed(FALSE)]
          /\ worktree' = [worktree EXCEPT ![current].edits = {}, ![current].copies = FALSE]
    /\ UNCHANGED <<integration, halfMerged, toMerge, ghosts>>

\* applyResult.
ApplyResult ==
    /\ run = "apply"
    /\ EndExecution(result.status)
    /\ reported' = IF result.status = "completed" /\ edited
                   THEN [reported EXCEPT ![current] = @ \cup {<<current, lease[current]>>}]
                   ELSE reported
    /\ UNCHANGED <<git, reviewed, discarded, mishaps>>

-----------------------------------------------------------------------------
\* The integration phase and the gates.

IsGateTask(t) == agent[t] \in GateAgents
Tasks == {t \in Task : status[t] # "absent"}

\* The workflow's derived status is "completed", or every task that is not of
\* a gate is completed and nothing failed.
IntegrationIsDue ==
    /\ ~ \E t \in Tasks : IsClaimable(t) \/ status[t] \in {"in_progress", "failed"}
    /\ LET plain == {t \in Tasks : ~ IsGateTask(t)}
       IN \/ \A t \in Tasks : status[t] = "completed"
          \/ plain # {} /\ \A t \in plain : status[t] = "completed"

StartIntegration ==
    /\ run = "schedule" /\ IntegrationIsDue
    /\ integration' = IF integration = Nothing THEN {} ELSE integration
    /\ toMerge' = {t \in Tasks : status[t] = "completed" /\ ~ IsGateTask(t)}
    /\ run' = "merge"
    /\ UNCHANGED <<state, current, edited, result, worktree, branch, halfMerged, ghosts, mishaps>>

\* A pause of runWorkflowUntilPause, a signal, or an error that scheduling or
\* integration throws, the dirty main working tree's among them.
RunPauses ==
    /\ run \in {"schedule", "gates"}
    /\ run' = "idle"
    /\ UNCHANGED <<state, current, edited, result, git, ghosts, mishaps>>

\* Implementation before fixes, each in the order of state.json.
NextToMerge == CHOOSE t \in toMerge : \A u \in toMerge : t <= u

IsMerged(t) == branch[t] # Nothing /\ branch[t] \subseteq integration

StopMerging == run' = "idle" /\ toMerge' = {}

\* Mutant: a branch with a conflict is passed over.
MergeNextOrSkip ==
    /\ run = "merge" /\ toMerge # {}
    /\ toMerge' = toMerge \ {NextToMerge}
    /\ \/ /\ integration' = integration \cup History(branch[NextToMerge])
          /\ UNCHANGED mishaps
       \/ Mishap /\ UNCHANGED integration
    /\ UNCHANGED <<state, execution, worktree, branch, halfMerged, ghosts>>

\* A branch that is absent or an ancestor is skipped. A conflict, or a merge
\* that a crash left under way, is aborted, and the run ends with an error.
MergeNext ==
    /\ run = "merge" /\ toMerge # {}
    /\ LET t == NextToMerge IN
       IF branch[t] = Nothing \/ IsMerged(t)
       THEN /\ toMerge' = toMerge \ {t}
            /\ UNCHANGED <<run, integration, halfMerged, mishaps>>
       ELSE \/ /\ ~ halfMerged
               /\ integration' = integration \cup branch[t]
               /\ toMerge' = toMerge \ {t}
               /\ UNCHANGED <<run, halfMerged, mishaps>>
            \/ /\ IF halfMerged THEN UNCHANGED mishaps ELSE Mishap
               /\ StopMerging /\ halfMerged' = FALSE
               /\ UNCHANGED integration
    /\ UNCHANGED <<state, current, edited, result, worktree, branch, ghosts>>

StartGates ==
    /\ run = "merge" /\ toMerge = {}
    /\ run' = "gates"
    /\ UNCHANGED <<state, current, edited, result, git, ghosts, mishaps>>

\* Review or Visual QA appends fix tasks; see QualityGates.
GatesAskForFixes ==
    /\ run = "gates"
    /\ \E fixes \in SUBSET {f \in FixTasks : status[f] = "absent"} :
         /\ fixes # {}
         /\ status' = [t \in Task |-> IF t \in fixes THEN "pending" ELSE status[t]]
         /\ reviewed' = [f \in FixTasks |-> IF f \in fixes THEN integration ELSE reviewed[f]]
    /\ run' = "schedule"
    /\ UNCHANGED <<plainName, workflow, agent, lease, current, edited, result, git, reported,
                   discarded, mishaps>>

\* A QA PASS completes the workflow, whatever the tasks of gate agents are.
GatesPass ==
    /\ run = "gates"
    /\ workflow' = "completed" /\ run' = "idle"
    /\ UNCHANGED <<plainName, status, agent, lease, current, edited, result, git, ghosts, mishaps>>

-----------------------------------------------------------------------------
\* Crashes, and the operator between runs.

\* The process dies, perhaps in the middle of a merge.
Crash ==
    /\ run # "idle" /\ Mishap
    /\ run' = "idle" /\ current' = NoTask /\ edited' = FALSE /\ result' = Nothing /\ toMerge' = {}
    /\ halfMerged' \in {halfMerged} \cup
           {b \in {TRUE} : run = "merge" /\ \E t \in toMerge \ {u \in toMerge : IsMerged(u)} :
                                               branch[t] # Nothing}
    /\ UNCHANGED <<state, worktree, branch, integration, ghosts>>

\* manualRetryTask, with --force or without. What follows the retry in a
\* workflow that has passed QA is QualityGates' subject.
Retry(t) ==
    /\ run = "idle" /\ workflow = "running"
    /\ status[t] \in {"in_progress", "completed", "failed"}
    /\ status' = [status EXCEPT ![t] = "pending"]
    /\ UNCHANGED <<plainName, workflow, agent, lease, execution, git, ghosts, mishaps>>

\* Mutant: branches are deleted under their worktrees.
CleanBranchesOnly(policy) ==
    LET tasks == {t \in Task : status[t] \in policy} IN
    /\ run = "idle"
    /\ branch' =
         [t \in Task |-> IF t \in tasks /\ "branches" \in policy THEN Nothing ELSE branch[t]]
    /\ UNCHANGED <<state, execution, worktree, integration, halfMerged, toMerge, ghosts, mishaps>>

\* cleanupWorkflow.
Clean(policy) ==
    LET tasks == {t \in Task : status[t] \in policy}
        removed == IF "branches" \in policy THEN tasks ELSE {}
    IN
    /\ run = "idle"
    /\ \E t \in tasks : worktree[t] # Nothing \/ (t \in removed /\ branch[t] # Nothing)
    /\ worktree' = [t \in Task |-> IF t \in tasks THEN Nothing ELSE worktree[t]]
    /\ branch' = [t \in Task |-> IF t \in removed THEN Nothing ELSE branch[t]]
    /\ discarded' = discarded \cup UNION {History(branch[t]) \ History(integration) : t \in removed}
    /\ UNCHANGED <<state, execution, integration, halfMerged, toMerge, reported, reviewed, mishaps>>

\* The process may end here.
Ended == run = "idle" /\ workflow = "completed" /\ UNCHANGED vars

Next ==
    \/ StartRun \/ RunPauses \/ Crash \/ Ended
    \/ \E t \in Task : RecoverLease(t) \/ Claim(t) \/ Retry(t)
    \/ ReuseWorktree \/ CreateWorktree \/ WorktreeFails \/ MaterializeArtifacts
    \/ AgentEdits \/ AgentEnds \/ ProviderFails \/ FinalizeTask \/ FinalizeFails \/ ApplyResult
    \/ StartIntegration \/ MergeNext \/ StartGates \/ GatesAskForFixes \/ GatesPass
    \/ \E policy \in Policies : Clean(policy)

Spec == Init /\ [][Next]_vars

-----------------------------------------------------------------------------
(* Properties.                                                             *)

\* What an attempt changed that was recorded as completed stays in the task's
\* branch or in the integration branch until the operator deletes the branch:
\* through crashes between commit and result, failed and repeated attempts,
\* removed worktrees and aborted merges (executeRequest, createTaskWorktree,
\* mergeTaskBranch).
CompletedIsKept ==
    \A t \in Task : reported[t] \ discarded \subseteq History(branch[t]) \cup History(integration)

\* When QA has passed, the integration branch has all the recorded work of
\* the completed tasks that no gate's agent did, and the gates have not run on
\* a merge that a crash left half way, unless the operator deleted its branch
\* (runIntegrationPhase, mergeTaskBranch).
IntegratedWhenCompleted ==
    workflow = "completed" =>
        /\ \A t \in Task : status[t] = "completed" /\ ~ IsGateTask(t) =>
                               reported[t] \ discarded \subseteq integration
        /\ halfMerged => discarded # {}

\* The agent of a fix task sees what the review that asked for it saw, in
\* whatever worktree the attempt takes place (baseRef of executeRequest).
FixBuildsOnReviewed ==
    run = "agent" /\ current \in FixTasks => reviewed[current] \subseteq branch[current]

\* A task becomes completed only by a result of its present lease, also when
\* the reused worktree holds the result file of an earlier one
\* (readAgentResult, assertResultContract).
OwnResultOnly ==
    [][\A t \in Task : status'[t] = "completed" /\ status[t] # "completed" =>
                           result # Nothing /\ result.lease = lease[t]]_vars

\* No branch contains the artifacts that the orchestration copied into a
\* worktree, nor those that a crash left there (executeRequest).
CopiesStayOut ==
    \A t \in Task :
        <<t, 0>> \notin History(integration) \cup UNION {History(branch[u]) : u \in Task}

\* README.md:665 of a run that stops as completed: "all implementation/fix
\* work integrated, review passed, and QA passed." Without an operator's
\* deletions every task is completed then, its work in the integration branch.
AllWorkIntegrated ==
    workflow = "completed" =>
        \A t \in Tasks : status[t] = "completed" /\ reported[t] \subseteq integration
=============================================================================
