---------------------------- MODULE QualityGates ----------------------------
(***************************************************************************)
(* The orchestration loop of `amiral run` above the scheduler: integration *)
(* of finished work, Visual QA, the review gate with its bounded rounds of *)
(* fix tasks, and the QA gate; with crashes between any two writes, gate   *)
(* agents that write no result, and the operator's commands between runs.  *)
(*                                                                         *)
(* A scheduling round with its dispatch is one step here: WorkflowRuntime  *)
(* and DispatchPool take it apart.                                         *)
(***************************************************************************)
EXTENDS Integers, FiniteSets

CONSTANTS
    NumTasks,       \* implementation tasks of the plan
    MaxReviewRounds,\* quality.max_review_rounds
    MaxIterations,  \* ui.visual_qa.max_iterations
    UiEnabled,      \* ui.enabled
    MaxCommands,    \* bound on the operator's commands
    MaxFaults       \* bound on crashes and on gates with an agent that wrote nothing

ASSUME GatesAssumption ==
    /\ NumTasks \in Nat \ {0}
    /\ MaxReviewRounds \in Nat \ {0}
    /\ MaxIterations \in Nat \ {0}
    /\ UiEnabled \in BOOLEAN
    /\ MaxCommands \in Nat
    /\ MaxFaults \in Nat

\* The tasks a workflow may come to have: those of its plan, a task of its plan
\* for the reviewer or for QA (which is never scheduled), the fix task of a
\* review round and the fix task of a Visual QA iteration. Each command and each
\* crash can let one more round through.
Round == 1 .. MaxReviewRounds + 1 + MaxCommands + MaxFaults
Work ==
    [kind : {"plan"}, n : 1 .. NumTasks]
    \cup [kind : {"review"}, n : Round]
    \cup [kind : {"visual"}, n : 1 .. MaxIterations]
Item == Work \cup [kind : {"gate"}, n : {1}]

ItemStatus == {"absent", "pending", "retry_wait", "completed", "failed", "blocked"}
WorkflowStatus == {"planned", "running", "blocked", "failed", "completed", "cancelled"}

VARIABLES
    status,     \* state.json: the workflow's status
    tasks,      \* state.json: the tasks
    tip,        \* how often each task's branch got new work
    merged,     \* how much of each branch is on the integration branch
    review,     \* review-result.json
    applied,    \* whether that is the text of the last round's review
    qa,         \* qa-result.json
    loop,       \* review-loop.json: the round
    visual,     \* how many visual-qa-iteration-*.json, the last, visual-qa-result.json
    pc,         \* where the command that holds the lock is
    command,    \* that command
    outcome,    \* why the last command stopped
    commands,   \* how many of MaxCommands were given
    crashes,    \* how many crashes happened
    reviewed,   \* history: the content that last passed review
    tested,     \* history: the content that last passed QA
    meddled,    \* history: by what the operator went round the loop
    silent      \* history: the gates with an agent that exited with 0 and wrote nothing

vars ==
    <<status, tasks, tip, merged, review, applied, qa, loop, visual, pc, command, outcome,
      commands, crashes, reviewed, tested, meddled, silent>>

stateFile == <<status, tasks>>
branches == <<tip, merged>>
reviewFile == <<review, applied>>
gateFiles == <<reviewFile, qa, loop, visual>>
approvals == <<reviewed, tested>>
history == <<commands, crashes, approvals, meddled, silent>>

PC ==
    {"idle", "loop", "integrate", "visual", "visualSave", "visualFix", "visualBlock", "review",
     "fix", "fixRecord", "fixRecordNone", "block", "qa", "qaRecord"}

Reason ==
    {"none", "completed", "retry_scheduled", "failed", "blocked", "needs_input",
     "max_review_rounds", "no_progress", "interrupted", "error"}

\* What a branch tip or the integration branch holds, by task.
Content == [Work -> Nat]

NoWork == [i \in Work |-> 0]

Init ==
    /\ status = "planned"
    /\ \E gate \in {"absent", "pending"} :
        tasks = [i \in Item |-> CASE i.kind = "plan" -> "pending"
                                  [] i.kind = "gate" -> gate
                                  [] OTHER -> "absent"]
    /\ tip = NoWork
    /\ merged = NoWork
    /\ review = "none"
    /\ applied = FALSE
    /\ qa = "none"
    /\ loop = 0
    /\ visual = [iterations |-> 0, last |-> "none", result |-> "none"]
    /\ pc = "idle"
    /\ command = "run"
    /\ outcome = "none"
    /\ commands = 0
    /\ crashes = 0
    /\ reviewed = NoWork
    /\ tested = NoWork
    /\ meddled = {}
    /\ silent = {}

WithStatus(s) == {i \in Work : tasks[i] = s}

DeriveWorkflowStatus(ts) ==
    LET present == {ts[i] : i \in Item} \ {"absent"}
    IN  IF present = {"completed"} THEN "completed"
        ELSE IF "failed" \in present THEN "failed"
        ELSE IF "blocked" \in present /\ "retry_wait" \notin present THEN "blocked"
        ELSE IF present \cap {"completed", "retry_wait"} # {} THEN "running"
        ELSE "planned"

\* The command ends and says why.
Stop(reason) == pc' = "idle" /\ outcome' = reason

\* It goes on.
Go(step) == pc' = step /\ UNCHANGED outcome

MayFault == crashes + Cardinality(silent) < MaxFaults

-----------------------------------------------------------------------------
\* The commands.

StartRun ==
    /\ pc = "idle"
    /\ pc' = "loop"
    /\ command' = "run"
    /\ outcome' = "none"
    /\ UNCHANGED <<stateFile, branches, gateFiles, history>>

Command ==
    /\ pc = "idle"
    /\ commands < MaxCommands
    /\ commands' = commands + 1
    /\ outcome' = "none"
    /\ UNCHANGED <<branches, gateFiles, crashes, approvals, silent>>

\* `amiral review` and `amiral qa`, which run one gate by hand.
StandaloneGate(gate) ==
    /\ Command
    /\ command' = gate
    /\ pc' = gate
    /\ meddled' = meddled \cup {gate}
    /\ UNCHANGED stateFile

Reset(S) ==
    /\ tasks' = [i \in Item |-> IF i \in S THEN "pending" ELSE tasks[i]]
    /\ status' = DeriveWorkflowStatus(tasks')

\* `amiral retry`.
RetryByScope(scope) ==
    /\ Command
    /\ Reset(WithStatus(scope))
    /\ UNCHANGED <<pc, command, meddled>>

ManualRetryTask(i, force) ==
    /\ Command
    /\ tasks[i] # "absent"
    /\ tasks[i] \in {"failed", "blocked", "retry_wait"} \/ force
    /\ Reset({i})
    /\ meddled' = IF tasks[i] = "completed" THEN meddled \cup {"redo"} ELSE meddled
    /\ UNCHANGED <<pc, command>>

CancelWorkflow(force) ==
    /\ Command
    /\ status = "completed" => force
    /\ status' = "cancelled"
    /\ UNCHANGED <<tasks, pc, command, meddled>>

-----------------------------------------------------------------------------
\* The loop of runWorkflowUntilPause.

\* Mutant: any result will do.
HasQaResult == qa # "none"

HasPassingQaResult == qa = "PASS"

AlreadyCompleted ==
    /\ pc = "loop"
    /\ status = "completed"
    /\ HasPassingQaResult
    /\ Stop("completed")
    /\ UNCHANGED <<stateFile, branches, gateFiles, command, history>>

WasCancelled ==
    /\ pc = "loop"
    /\ status = "cancelled"
    /\ Stop("needs_input")
    /\ UNCHANGED <<stateFile, branches, gateFiles, command, history>>

\* The first signal is looked at when the workflow is neither done nor cancelled.
Interrupted ==
    /\ pc = "loop"
    /\ status # "cancelled"
    /\ status = "completed" => ~ HasPassingQaResult
    /\ Stop("interrupted")
    /\ UNCHANGED <<stateFile, branches, gateFiles, command, history>>

\* The bound on iterations may end any of them.
SafetyBound ==
    /\ pc = "loop"
    /\ Stop("needs_input")
    /\ UNCHANGED <<stateFile, branches, gateFiles, command, history>>

StartGates ==
    /\ pc = "loop"
    /\ status = "completed"
    /\ ~ HasPassingQaResult
    /\ Go("integrate")
    /\ UNCHANGED <<stateFile, branches, gateFiles, command, history>>

Schedules == pc = "loop" /\ status \notin {"completed", "cancelled"}

\* A round claims some of the tasks that wait; each completes, fails, is blocked
\* or waits for a retry, which pauses the run. What a retry commits counts as new
\* work.
DispatchRound ==
    /\ Schedules
    /\ status # "blocked"
    /\ \E S \in (SUBSET (WithStatus("pending") \cup WithStatus("retry_wait"))) \ {{}} :
        \E result \in [S -> {"completed", "failed", "blocked", "retry_wait"}] :
            /\ tasks' = [i \in Item |-> IF i \in S THEN result[i] ELSE tasks[i]]
            /\ tip' = [i \in Work |->
                    IF i \in S /\ result[i] = "completed" THEN tip[i] + 1 ELSE tip[i]]
            /\ IF \E i \in S : result[i] = "retry_wait"
               THEN Stop("retry_scheduled") ELSE Go("loop")
    /\ status' = DeriveWorkflowStatus(tasks')
    /\ UNCHANGED <<merged, gateFiles, command, history>>

\* Nothing was claimed: stop with what is in the way, or go to the gates.
NothingClaimed ==
    /\ Schedules
    /\ \/ /\ WithStatus("failed") # {}
          /\ Stop("failed")
       \/ /\ WithStatus("failed") = {}
          /\ status = "blocked" \/ WithStatus("blocked") # {}
          /\ Stop("blocked")
       \/ /\ WithStatus("failed") \cup WithStatus("blocked") = {}
          /\ status # "blocked"
          /\ WithStatus("retry_wait") # {}
          /\ Stop("retry_scheduled")
       \/ /\ WithStatus("failed") \cup WithStatus("blocked") \cup WithStatus("retry_wait") = {}
          /\ status # "blocked"
          /\ WithStatus("pending") # {}
          /\ Stop("no_progress")
       \/ /\ status # "blocked"
          /\ \A i \in Work : tasks[i] \in {"absent", "completed"}
          /\ Go("integrate")
    /\ UNCHANGED <<stateFile, branches, gateFiles, command, history>>

-----------------------------------------------------------------------------
\* Integration and Visual QA.

\* The branches of the completed tasks that are not ancestors are merged.
RunIntegrationPhase ==
    /\ pc = "integrate"
    /\ merged' = [i \in Work |-> IF tasks[i] = "completed" THEN tip[i] ELSE merged[i]]
    /\ Go("visual")
    /\ UNCHANGED <<stateFile, tip, gateFiles, command, history>>

\* A pass stands for a check that was skipped, too.
VisualResult == {"pass", "findings", "blocked"}

IsBlockingVisualResult(result) == result \in {"blocked", "findings"}

\* There is a last result, and no iterations are left to replace it.
LastResultStands == visual.iterations >= MaxIterations /\ visual.result # "none"

\* Visual QA is off, or its iterations are used up and its last result stands.
VisualQADone ==
    /\ pc = "visual"
    /\ UiEnabled => LastResultStands
    /\ Go(IF UiEnabled /\ IsBlockingVisualResult(visual.result)
          THEN "visualBlock" ELSE "review")
    /\ UNCHANGED <<stateFile, branches, gateFiles, command, history>>

\* Mutant: the iterations have no budget.
RunVisualQAUnbounded ==
    /\ pc = "visual"
    /\ UiEnabled
    /\ \E result \in VisualResult :
        visual' = [visual EXCEPT !.iterations = @ + 1, !.last = result]
    /\ Go("visualSave")
    /\ UNCHANGED <<stateFile, branches, reviewFile, qa, loop, command, history>>

\* An iteration is counted by the file it leaves ...
RunVisualQAPhase ==
    /\ pc = "visual"
    /\ UiEnabled /\ ~ LastResultStands
    /\ \E result \in VisualResult :
        visual' = [visual EXCEPT !.iterations = @ + 1, !.last = result]
    /\ Go("visualSave")
    /\ UNCHANGED <<stateFile, branches, reviewFile, qa, loop, command, history>>

\* ... and then its result is written once more, as the one that may stand. Severe
\* findings ask for fixes while there are iterations left.
SaveVisualResult ==
    /\ pc = "visualSave"
    /\ visual' = [visual EXCEPT !.result = visual.last]
    /\ Go(CASE visual.last = "blocked" -> "visualBlock"
            [] visual.last = "findings" ->
                  IF visual.iterations < MaxIterations THEN "visualFix" ELSE "visualBlock"
            [] OTHER -> "review")
    /\ UNCHANGED <<stateFile, branches, reviewFile, qa, loop, command, history>>

CreateVisualFixes ==
    /\ pc = "visualFix"
    /\ tasks' = [tasks EXCEPT ![[kind |-> "visual", n |-> visual.iterations]] = "pending"]
    /\ status' = "running"
    /\ Go("loop")
    /\ UNCHANGED <<branches, gateFiles, command, history>>

-----------------------------------------------------------------------------
\* The gates.

\* A FAIL stands for BLOCKED, too: the code treats them alike.
QaVerdict == {"PASS", "FAIL"}

ReviewVerdict == {"PASS", "CHANGES_REQUESTED", "BLOCKED"}

\* The agent writes review-result.json. Once a round was recorded the result may be,
\* letter for letter, the one that round was made from.
WriteReview(verdict) ==
    /\ review' = verdict
    /\ applied' \in IF verdict = "CHANGES_REQUESTED" /\ loop > 0 THEN BOOLEAN ELSE {FALSE}

\* The agent writes qa-result.json. QA judges the integration branch.
WriteQa ==
    /\ qa' \in QaVerdict
    /\ tested' = IF qa' = "PASS" THEN merged ELSE tested

\* Integration, a gate agent or the reading of its result fails. The file is the
\* agent's to write, so a gate that failed may leave any verdict in it.
GateThrows ==
    /\ pc \in {"integrate", "review", "qa"}
    /\ \/ UNCHANGED <<qa, tested>>
       \/ pc = "qa" /\ WriteQa
    /\ \/ UNCHANGED reviewFile
       \/ pc = "review" /\ \E verdict \in ReviewVerdict : WriteReview(verdict)
    /\ Stop("error")
    /\ UNCHANGED <<stateFile, branches, loop, visual, command, commands, crashes,
                   reviewed, meddled, silent>>

AfterReview(verdict) ==
    IF command = "review" THEN Stop("none")
    ELSE CASE verdict = "PASS" -> Go("qa")
           [] verdict = "BLOCKED" -> Stop("needs_input")
           [] verdict = "CHANGES_REQUESTED" -> Go("fix")

\* The reviewer judges the integration branch.
RunReviewGate ==
    /\ pc = "review"
    /\ \E verdict \in ReviewVerdict :
        /\ WriteReview(verdict)
        /\ reviewed' = IF verdict = "PASS" THEN merged ELSE reviewed
        /\ AfterReview(verdict)
    /\ UNCHANGED <<stateFile, branches, qa, loop, visual, command, commands, crashes,
                   tested, meddled, silent>>

\* The agent of a gate exits with 0 and writes nothing: the file of an earlier
\* gate, if there is one, is read as its result.
AgentIsSilent(gate) ==
    /\ pc = gate
    /\ MayFault
    /\ silent' = silent \cup {gate}
    /\ UNCHANGED <<stateFile, branches, gateFiles, command, commands, crashes, approvals,
                   meddled>>

ReadStaleReview ==
    /\ AgentIsSilent("review")
    /\ review # "none"
    /\ AfterReview(review)

FixTask(round) == [kind |-> "review", n |-> round]

\* applyReviewFixRound appends the fix tasks of the round that do not exist: all of
\* them, or, where a round is repeated, those of the findings it has more ...
AppendFixTasks ==
    /\ pc = "fix"
    /\ ~ applied
    /\ \/ /\ tasks' = [tasks EXCEPT ![FixTask(loop + 1)] = "pending"]
          /\ status' = "running"
          /\ Go("fixRecord")
       \/ /\ tasks[FixTask(loop + 1)] # "absent"
          /\ UNCHANGED stateFile
          /\ Go("fixRecordNone")
    /\ UNCHANGED <<branches, gateFiles, command, history>>

\* review-loop.json with the next round and the fingerprint of its review, and
\* what is taken for a file that cannot be read.
SaveReviewLoopState == loop' = loop + 1 /\ applied' = TRUE

NoReviewLoopState == loop' = 0 /\ applied' = FALSE

\* Mutant: the last round allowed blocks the workflow.
RecordRoundOffByOne ==
    /\ pc \in {"fixRecord", "fixRecordNone"}
    /\ SaveReviewLoopState
    /\ Go(IF loop' >= MaxReviewRounds \/ pc = "fixRecordNone" THEN "block" ELSE "loop")
    /\ UNCHANGED <<stateFile, branches, review, qa, visual, command, history>>

\* Mutant: the rounds are not limited.
RecordUnlimitedRound ==
    /\ pc \in {"fixRecord", "fixRecordNone"}
    /\ SaveReviewLoopState
    /\ Go(IF pc = "fixRecordNone" THEN "block" ELSE "loop")
    /\ UNCHANGED <<stateFile, branches, review, qa, visual, command, history>>

\* ... and then records the round; one beyond the limit blocks the workflow, and
\* so does one that created nothing.
RecordReviewRound ==
    /\ pc \in {"fixRecord", "fixRecordNone"}
    /\ SaveReviewLoopState
    /\ Go(IF loop' > MaxReviewRounds \/ pc = "fixRecordNone" THEN "block" ELSE "loop")
    /\ UNCHANGED <<stateFile, branches, review, qa, visual, command, history>>

\* Mutant: a review that repeats itself is taken for progress.
ReviewUnchangedIgnored ==
    /\ pc = "fix"
    /\ applied
    /\ Go("loop")
    /\ UNCHANGED <<stateFile, branches, gateFiles, command, history>>

\* The review was turned into fix tasks before: there is no progress.
ReviewUnchanged ==
    /\ pc = "fix"
    /\ applied
    /\ Go("block")
    /\ UNCHANGED <<stateFile, branches, gateFiles, command, history>>

BlockWorkflow ==
    /\ pc \in {"block", "visualBlock"}
    /\ status' = "blocked"
    /\ Stop(IF pc = "block" THEN "max_review_rounds" ELSE "blocked")
    /\ UNCHANGED <<tasks, branches, gateFiles, command, history>>

AfterQa(verdict) ==
    IF verdict = "PASS" THEN Go("qaRecord")
    ELSE Stop(IF command = "qa" THEN "none" ELSE "needs_input")

\* The result of QA is written ...
RunQaGate ==
    /\ pc = "qa"
    /\ WriteQa
    /\ AfterQa(qa')
    /\ UNCHANGED <<stateFile, branches, reviewFile, loop, visual, command, commands,
                   crashes, reviewed, meddled, silent>>

ReadStaleQa ==
    /\ AgentIsSilent("qa")
    /\ qa # "none"
    /\ AfterQa(qa)

\* ... and a PASS saves the workflow as completed.
RecordQaPass ==
    /\ pc = "qaRecord"
    /\ status' = "completed"
    /\ Stop(IF command = "qa" THEN "none" ELSE "completed")
    /\ UNCHANGED <<tasks, branches, gateFiles, command, history>>

\* The process dies between two writes, or in that of review-loop.json.
Crash ==
    /\ pc # "idle"
    /\ MayFault
    /\ crashes' = crashes + 1
    /\ Stop("none")
    /\ \/ UNCHANGED <<loop, applied>>
       \/ pc \in {"fixRecord", "fixRecordNone"} /\ NoReviewLoopState
    /\ UNCHANGED <<stateFile, branches, review, qa, visual, command, commands, approvals,
                   meddled, silent>>

-----------------------------------------------------------------------------
Operate ==
    \/ \E gate \in {"review", "qa"} : StandaloneGate(gate)
    \/ \E scope \in {"failed", "blocked"} : RetryByScope(scope)
    \/ \E i \in Item, force \in BOOLEAN : ManualRetryTask(i, force)
    \/ \E force \in BOOLEAN : CancelWorkflow(force)

Advance ==
    \/ AlreadyCompleted
    \/ WasCancelled
    \/ StartGates
    \/ DispatchRound
    \/ NothingClaimed
    \/ RunIntegrationPhase
    \/ VisualQADone
    \/ RunVisualQAPhase
    \/ SaveVisualResult
    \/ CreateVisualFixes
    \/ RunReviewGate
    \/ AppendFixTasks
    \/ RecordReviewRound
    \/ ReviewUnchanged
    \/ BlockWorkflow
    \/ RunQaGate
    \/ RecordQaPass

Next ==
    \/ StartRun
    \/ Operate
    \/ Advance
    \/ Interrupted
    \/ SafetyBound
    \/ GateThrows
    \/ ReadStaleReview
    \/ ReadStaleQa
    \/ Crash

Spec == Init /\ [][Next]_vars

\* A command that runs goes on, unless something ends it: nothing promises that a
\* signal, an error or the safety bound ever does.
FairSpec == Spec /\ WF_vars(Advance)

-----------------------------------------------------------------------------
TypeOK ==
    /\ status \in WorkflowStatus
    /\ tasks \in [Item -> ItemStatus]
    /\ {tip, merged, reviewed, tested} \subseteq Content
    /\ review \in {"none"} \cup ReviewVerdict
    /\ applied \in BOOLEAN
    /\ qa \in {"none"} \cup QaVerdict
    /\ loop \in {0} \cup Round
    /\ visual \in [iterations : 0 .. MaxIterations + MaxFaults,
                   last : {"none"} \cup VisualResult,
                   result : {"none"} \cup VisualResult]
    /\ pc \in PC
    /\ command \in {"run", "review", "qa"}
    /\ outcome \in Reason
    /\ commands \in 0 .. MaxCommands
    /\ crashes \in 0 .. MaxFaults
    /\ meddled \subseteq {"redo", "review", "qa"}
    /\ silent \subseteq {"review", "qa"}

AllIntegrated ==
    /\ \A i \in Work : tasks[i] \in {"absent", "completed"}
    /\ merged = tip

\* All work is done and integrated, and what is integrated passed review and QA.
Approved == AllIntegrated /\ reviewed = merged /\ tested = merged

\* A run that says "completed" stands for approved work, whatever crashes, failed
\* gates, retries and cancellations came before (orchestrator.ts
\* runWorkflowUntilPause), as long as the operator neither redid completed work by
\* force nor ran `amiral qa` by hand. A gate with an agent that wrote nothing vouches
\* for nothing, integration still does. Without a crash, which may keep an
\* iteration from becoming the result that stands, no severe finding of the last
\* evaluation is left, either (runVisualQAPhase).
CompletionApproved ==
    outcome = "completed" /\ meddled \subseteq {"review"} =>
        /\ AllIntegrated
        /\ "review" \in silent \/ reviewed = merged
        /\ "qa" \in silent \/ tested = merged
        /\ crashes > 0 \/ ~ IsBlockingVisualResult(visual.last)

\* The same of work that was redone by force (README.md, "Resume": completed means
\* all work integrated, review passed, and QA passed). The code forgets no QA
\* result, and takes the PASS of the work before.
RedoneWorkIsApproved ==
    outcome = "completed" /\ "qa" \notin meddled => Approved

\* No fix task of a review round beyond max_review_rounds is ever executed, but for
\* one round for each crash (between the round's record and the block) and for
\* each command that lifts the block (orchestrator.ts runQualityGates). A crash in
\* the write of the record starts the numbers again.
FixRoundsBounded ==
    \A r \in Round :
        tasks[FixTask(r)] \in {"completed", "failed", "blocked", "retry_wait"}
            => r <= MaxReviewRounds + crashes + commands

\* When a run that never crashed says that the review rounds are used up, they are,
\* or the reviewer repeated itself after the last round's fixes were done. Where
\* `amiral qa` was run by hand, a workflow may be at its gates with fixes to do.
ExhaustionIsReal ==
    outcome = "max_review_rounds" /\ crashes = 0 /\ "qa" \notin meddled =>
        loop > MaxReviewRounds \/ tasks[FixTask(loop)] = "completed"

\* Every command comes to an end: the loop between fixes, Visual QA and gates
\* cannot go round for ever, even without the safety bound on iterations.
RunPauses == pc # "idle" ~> pc = "idle"
=============================================================================
