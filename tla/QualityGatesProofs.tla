------------------------- MODULE QualityGatesProofs -------------------------
(***************************************************************************)
(* What a run that says "completed" stands for, and how often fixes are    *)
(* tried, for any number of tasks, review rounds, Visual QA iterations,    *)
(* commands of the operator, crashes and silent gates.                     *)
(***************************************************************************)
EXTENDS QualityGates, FiniteSetTheorems, TLAPS

\* The steps between the start of integration and the end of the gates.
GatePhase ==
    {"integrate", "visual", "visualSave", "visualFix", "visualBlock", "review", "fix",
     "fixRecord", "fixRecordNone", "block", "qa", "qaRecord"}

RunsGates == command = "run" /\ pc \in GatePhase

GateTask == [kind |-> "gate", n |-> 1]

AllDone == \A i \in Work : tasks[i] \in {"absent", "completed"}

\* A command that is under way has no outcome; a gate by hand is that gate only;
\* a run takes no blocked or cancelled workflow to its gates.
PhaseInv ==
    /\ pc # "idle" => outcome = "none"
    /\ pc \notin {"idle", "review", "qa", "qaRecord"} => command = "run"
    /\ pc = "review" => command # "qa"
    /\ pc \in {"qa", "qaRecord"} => command # "review"
    /\ command = "qa" => "qa" \in meddled
    /\ RunsGates => status \notin {"blocked", "cancelled"}

\* How many rounds there may be: one more for each crash and each command.
LimitOf(c, d) == MaxReviewRounds + c + d

Limit == LimitOf(crashes, commands)

\* The workflow is blocked, or is about to be.
IsHeld == pc = "block" \/ (pc \in {"idle", "loop"} /\ status = "blocked")

\* The round is within the limit, or the workflow is held; and so is every fix
\* task, but for one that waits. Round and fix tasks correspond but for a crash.
RoundInv ==
    /\ loop <= Limit \/ (loop = Limit + 1 /\ IsHeld)
    /\ applied => loop > 0
    /\ \A r \in 1 .. loop : tasks[FixTask(r)] # "absent"
    /\ pc \in {"fixRecord", "fixRecordNone"} => tasks[FixTask(loop + 1)] # "absent"
    /\ \A r \in Round : tasks[FixTask(r)] # "absent" =>
        /\ \/ r <= Limit
           \/ /\ r = Limit + 1
              /\ tasks[FixTask(r)] = "pending"
              /\ (pc = "fixRecord" /\ r = loop + 1) \/ IsHeld
        /\ crashes = 0 => r <= loop \/ (pc = "fixRecord" /\ r = loop + 1)

\* Visual QA keeps to its budget, but for iterations a crash kept from counting.
VisualInv ==
    /\ visual.iterations <= MaxIterations + crashes
    /\ visual.result = "none" =>
        visual.iterations <= crashes + (IF pc = "visualSave" THEN 1 ELSE 0)
    /\ pc = "visualSave" => visual.iterations > 0 /\ visual.last # "none"
    /\ pc = "visualFix" => visual.iterations \in 1 .. MaxIterations
    /\ crashes = 0 /\ pc # "visualSave" => visual.result = visual.last
    /\ ~ UiEnabled =>
        /\ visual.last = "none"
        /\ pc \notin {"visualSave", "visualFix", "visualBlock"}

\* What is at the gates is done, and what is done is at the gates, unless the
\* operator ran QA by hand. A gate task of the plan waits for ever.
DoneInv ==
    /\ \A n \in 1 .. NumTasks : tasks[[kind |-> "plan", n |-> n]] # "absent"
    /\ tasks[GateTask] \in {"absent", "pending"}
    /\ AllDone /\ tasks[GateTask] = "absent" => status \in {"completed", "blocked", "cancelled"}
    /\ \A i \in Work : tasks[i] = "absent" => tip[i] = 0 /\ merged[i] = 0
    /\ "qa" \notin meddled =>
        /\ status = "completed" => AllDone
        /\ RunsGates /\ pc \notin {"fixRecord", "fixRecordNone", "block"} => AllDone

ExhaustionInv ==
    pc = "block" /\ crashes = 0 /\ "qa" \notin meddled =>
        loop > MaxReviewRounds \/ tasks[FixTask(loop)] = "completed"

Clean == meddled \subseteq {"review"}

IsReviewed == "review" \in silent \/ reviewed = merged

IsTested == "qa" \in silent \/ tested = merged

IsSeen == crashes > 0 \/ ~ IsBlockingVisualResult(visual.last)

Vouched == AllIntegrated /\ IsReviewed /\ IsTested /\ IsSeen

\* What the gates of a run have established so far, and that a PASS of an earlier
\* run is found there only if a gate task of the plan keeps the workflow at them.
Trail ==
    RunsGates =>
        /\ pc # "integrate" => merged = tip
        /\ pc \in {"review", "qa", "qaRecord"} => IsSeen
        /\ pc \in {"qa", "qaRecord"} => IsReviewed
        /\ pc = "qaRecord" => IsTested
        /\ pc # "qaRecord" /\ qa = "PASS" => tasks[GateTask] # "absent" /\ status # "completed"

\* The PASS is of what is there.
PassStands ==
    qa = "PASS" /\ (status = "completed" \/ tasks[GateTask] = "absent") => Vouched

ApprovalInv == Clean => Trail /\ PassStands

GatesInv ==
    /\ TypeOK
    /\ PhaseInv
    /\ RoundInv
    /\ VisualInv
    /\ DoneInv
    /\ ExhaustionInv
    /\ ApprovalInv
    /\ ExhaustionIsReal
    /\ CompletionApproved

-----------------------------------------------------------------------------
(* Tasks, the derived status and the bound on faults.                      *)

LEMMA Items ==
    /\ Work \subseteq Item
    /\ GateTask \in Item
    /\ GateTask \notin Work
    /\ \A i \in Item : i \in Work \/ i = GateTask
    /\ \A n \in 1 .. NumTasks : [kind |-> "plan", n |-> n] \in Work
    /\ \A r \in Round : FixTask(r) \in Work
    /\ \A n \in 1 .. MaxIterations : [kind |-> "visual", n |-> n] \in Work
BY DEF Item, Work, GateTask, FixTask

LEMMA FixTasksDiffer ==
    /\ \A q, r : FixTask(q) = FixTask(r) => q = r
    /\ \A r, n : FixTask(r) # [kind |-> "visual", n |-> n]
    /\ \A r, n : FixTask(r) # [kind |-> "plan", n |-> n]
    /\ \A m, n : [kind |-> "visual", n |-> m] # [kind |-> "plan", n |-> n]
    /\ \A r : FixTask(r) # GateTask
    /\ \A n : GateTask # [kind |-> "visual", n |-> n] /\ GateTask # [kind |-> "plan", n |-> n]
BY DEF FixTask, GateTask

LEMMA DerivedStatus ==
    ASSUME NEW ts
    PROVE  /\ DeriveWorkflowStatus(ts) \in WorkflowStatus \ {"cancelled"}
           /\ DeriveWorkflowStatus(ts) = "completed"
                  => \A i \in Item : ts[i] \in {"absent", "completed"}
           /\ (\A i \in Item : ts[i] \in {"absent", "completed"})
                  /\ (\E i \in Item : ts[i] = "completed")
                  => DeriveWorkflowStatus(ts) = "completed"
<1> DEFINE present == {ts[i] : i \in Item} \ {"absent"}
<1>1. DeriveWorkflowStatus(ts) = "completed" <=> present = {"completed"}
    BY DEF DeriveWorkflowStatus
<1>2. DeriveWorkflowStatus(ts) \in WorkflowStatus \ {"cancelled"}
    BY DEF DeriveWorkflowStatus, WorkflowStatus
<1> QED
    BY <1>1, <1>2

LEMMA FaultsAreBounded ==
    ASSUME TypeOK, MayFault
    PROVE  crashes + 1 \in 0 .. MaxFaults
<1>1. IsFiniteSet(silent) /\ Cardinality(silent) \in Nat
    <2>1. IsFiniteSet({"review"} \cup {"qa"})
        BY FS_Singleton, FS_AddElement
    <2> QED
        <3>1. silent \in SUBSET ({"review"} \cup {"qa"})
            BY DEF TypeOK
        <3> QED
            BY ONLY <2>1, <3>1, FS_Subset, FS_CardinalityType
<1> QED
    BY <1>1, GatesAssumption DEF TypeOK, MayFault

LEMMA Contents ==
    ASSUME TypeOK
    PROVE  /\ tip \in Content /\ merged \in Content
           /\ reviewed \in Content /\ tested \in Content
BY DEF TypeOK

-----------------------------------------------------------------------------
(* The steps, in the groups that the proofs below distinguish.             *)

\* The steps that only move the command on, or end it.
Moves ==
    \/ StartRun
    \/ AlreadyCompleted
    \/ WasCancelled
    \/ Interrupted
    \/ SafetyBound
    \/ StartGates
    \/ NothingClaimed
    \/ VisualQADone
    \/ ReviewUnchanged

LEMMA NextCases ==
    ASSUME [Next]_vars
    PROVE  \/ Moves
           \/ \E gate \in {"review", "qa"} : StandaloneGate(gate)
           \/ \E scope \in {"failed", "blocked"} : RetryByScope(scope)
           \/ \E i \in Item, force \in BOOLEAN : ManualRetryTask(i, force)
           \/ \E force \in BOOLEAN : CancelWorkflow(force)
           \/ DispatchRound
           \/ RunIntegrationPhase
           \/ RunVisualQAPhase
           \/ SaveVisualResult
           \/ CreateVisualFixes
           \/ GateThrows
           \/ RunReviewGate \/ ReadStaleReview
           \/ AppendFixTasks
           \/ RecordReviewRound
           \/ BlockWorkflow
           \/ RunQaGate \/ ReadStaleQa
           \/ RecordQaPass
           \/ Crash
           \/ UNCHANGED vars
BY DEF Next, Operate, Advance, Moves

LEMMA MovesEffect ==
    ASSUME Moves
    PROVE  UNCHANGED <<stateFile, branches, gateFiles, history>>
BY DEF Moves, StartRun, AlreadyCompleted, WasCancelled, Interrupted, SafetyBound,
       StartGates, NothingClaimed, VisualQADone, ReviewUnchanged, history

-----------------------------------------------------------------------------
(* Types.                                                                  *)

LEMMA TypeInit == Init => TypeOK
<1> SUFFICES ASSUME Init PROVE TypeOK
    OBVIOUS
<1>1. tasks \in [Item -> ItemStatus]
    BY DEF Init, ItemStatus
<1>2. NoWork \in Content
    BY DEF NoWork, Content
<1>3. {tip, merged, reviewed, tested} \subseteq Content
    BY <1>2 DEF Init
<1>4. visual \in [iterations : 0 .. MaxIterations + MaxFaults,
                   last : {"none"} \cup VisualResult,
                   result : {"none"} \cup VisualResult]
    BY GatesAssumption DEF Init
<1>5. /\ commands \in 0 .. MaxCommands /\ crashes \in 0 .. MaxFaults
      /\ loop \in {0} \cup Round
    BY GatesAssumption DEF Init
<1> QED
    BY <1>1, <1>3, <1>4, <1>5 DEF Init, TypeOK, WorkflowStatus, PC, Reason

LEMMA TypeStep ==
    ASSUME TypeOK, PhaseInv, RoundInv, VisualInv, [Next]_vars
    PROVE  TypeOK'
<1> USE GatesAssumption
    DEF stateFile, branches, reviewFile, gateFiles, approvals, history, Stop, Go
<1>1. CASE Moves
    <2>1. /\ pc' \in PC
          /\ command' \in {"run", "review", "qa"}
          /\ outcome' \in Reason
        BY <1>1 DEF TypeOK, PC, Reason, Moves, StartRun, AlreadyCompleted, WasCancelled,
            Interrupted, SafetyBound, StartGates, NothingClaimed, VisualQADone, ReviewUnchanged
    <2> QED
        BY <1>1, <2>1, MovesEffect DEF TypeOK
<1>2. ASSUME NEW gate \in {"review", "qa"}, StandaloneGate(gate)
      PROVE  TypeOK'
    BY <1>2 DEF TypeOK, StandaloneGate, Command, PC, Reason
<1>3. ASSUME NEW S \in SUBSET Item, Reset(S), Command, UNCHANGED <<pc, command>>,
             meddled' \in {meddled, meddled \cup {"redo"}}
      PROVE  TypeOK'
    <2>1. tasks' \in [Item -> ItemStatus]
        BY <1>3 DEF TypeOK, Reset, ItemStatus
    <2>2. status' \in WorkflowStatus
        BY <1>3, DerivedStatus DEF Reset
    <2> QED
        BY <1>3, <2>1, <2>2 DEF TypeOK, Command, Reason
<1>4. ASSUME NEW scope \in {"failed", "blocked"}, RetryByScope(scope)
      PROVE  TypeOK'
    BY <1>3, <1>4, Items DEF RetryByScope, WithStatus
<1>5. ASSUME NEW i \in Item, NEW force \in BOOLEAN, ManualRetryTask(i, force)
      PROVE  TypeOK'
    BY <1>3, <1>5 DEF ManualRetryTask
<1>6. ASSUME NEW force \in BOOLEAN, CancelWorkflow(force)
      PROVE  TypeOK'
    BY <1>6 DEF TypeOK, CancelWorkflow, Command, Reason, WorkflowStatus
<1>7. CASE DispatchRound
    <2>1. PICK S, result :
            /\ S \subseteq WithStatus("pending") \cup WithStatus("retry_wait")
            /\ result \in [S -> {"completed", "failed", "blocked", "retry_wait"}]
            /\ tasks' = [i \in Item |-> IF i \in S THEN result[i] ELSE tasks[i]]
            /\ tip' = [i \in Work |->
                    IF i \in S /\ result[i] = "completed" THEN tip[i] + 1 ELSE tip[i]]
            /\ pc' \in {"idle", "loop"}
            /\ outcome' \in {outcome, "retry_scheduled"}
        BY <1>7 DEF DispatchRound
    <2>2. tasks' \in [Item -> ItemStatus]
        BY <2>1 DEF TypeOK, ItemStatus
    <2>3. tip' \in Content
        BY <2>1, Contents DEF Content
    <2>4. status' \in WorkflowStatus
        BY <1>7, DerivedStatus DEF DispatchRound
    <2> QED
        BY <1>7, <2>1, <2>2, <2>3, <2>4, Contents DEF TypeOK, DispatchRound, PC, Reason
<1>8. CASE RunIntegrationPhase
    <2>1. merged' \in Content
        BY <1>8, Contents DEF RunIntegrationPhase, Content
    <2> QED
        BY <1>8, <2>1, Contents DEF TypeOK, RunIntegrationPhase, PC
<1>9. CASE RunVisualQAPhase
    <2>1. PICK result \in VisualResult :
            visual' = [visual EXCEPT !.iterations = @ + 1, !.last = result]
        BY <1>9 DEF RunVisualQAPhase
    <2>2. visual.iterations + 1 \in 0 .. MaxIterations + MaxFaults
        BY <1>9 DEF TypeOK, VisualInv, RunVisualQAPhase, LastResultStands
    <2>3. visual' \in [iterations : 0 .. MaxIterations + MaxFaults,
                       last : {"none"} \cup VisualResult,
                       result : {"none"} \cup VisualResult]
        BY <2>1, <2>2 DEF TypeOK
    <2> QED
        BY <1>9, <2>3 DEF TypeOK, RunVisualQAPhase, PC
<1>10. CASE SaveVisualResult
    <2>1. visual' \in [iterations : 0 .. MaxIterations + MaxFaults,
                       last : {"none"} \cup VisualResult,
                       result : {"none"} \cup VisualResult]
        BY <1>10 DEF TypeOK, SaveVisualResult
    <2> QED
        BY <1>10, <2>1 DEF TypeOK, SaveVisualResult, PC
<1>11. CASE CreateVisualFixes
    BY <1>11, Items DEF TypeOK, VisualInv, CreateVisualFixes, PC, ItemStatus, WorkflowStatus
<1>12. CASE GateThrows
    <2>1. tested' \in Content
        BY <1>12, Contents DEF GateThrows, WriteQa
    <2>2. /\ review' \in {"none"} \cup ReviewVerdict
          /\ applied' \in BOOLEAN
          /\ qa' \in {"none"} \cup QaVerdict
        BY <1>12 DEF TypeOK, GateThrows, WriteReview, WriteQa
    <2> QED
        BY <1>12, <2>1, <2>2, Contents DEF TypeOK, GateThrows, PC, Reason
<1>13. CASE RunReviewGate \/ ReadStaleReview
    <2>1. /\ pc' \in PC
          /\ outcome' \in Reason
        BY <1>13 DEF TypeOK, RunReviewGate, ReadStaleReview, AfterReview, PC, Reason,
            ReviewVerdict
    <2>2. reviewed' \in Content
        BY <1>13, Contents DEF RunReviewGate, ReadStaleReview, AgentIsSilent
    <2>3. /\ review' \in {"none"} \cup ReviewVerdict
          /\ applied' \in BOOLEAN
          /\ silent' \subseteq {"review", "qa"}
        BY <1>13 DEF TypeOK, RunReviewGate, ReadStaleReview, AgentIsSilent, WriteReview
    <2> QED
        BY <1>13, <2>1, <2>2, <2>3, Contents
        DEF TypeOK, RunReviewGate, ReadStaleReview, AgentIsSilent
<1>14. CASE AppendFixTasks
    <2>1. loop + 1 \in Round
        BY <1>14 DEF AppendFixTasks, TypeOK, PhaseInv, RoundInv, IsHeld, Limit, LimitOf, Round
    <2> QED
        BY <1>14, <2>1, Items DEF TypeOK, AppendFixTasks, PC, ItemStatus, WorkflowStatus
<1>15. CASE RecordReviewRound
    <2>1. loop + 1 \in Round
        BY <1>15 DEF RecordReviewRound, TypeOK, PhaseInv, RoundInv, IsHeld, Limit, LimitOf, Round
    <2> QED
        BY <1>15, <2>1 DEF TypeOK, RecordReviewRound, SaveReviewLoopState, PC
<1>16. CASE BlockWorkflow
    BY <1>16 DEF TypeOK, BlockWorkflow, PC, Reason, WorkflowStatus
<1>17. CASE RunQaGate \/ ReadStaleQa
    <2>1. tested' \in Content
        BY <1>17, Contents DEF RunQaGate, WriteQa, ReadStaleQa, AgentIsSilent
    <2>2. /\ pc' \in PC
          /\ outcome' \in Reason
          /\ qa' \in {"none"} \cup QaVerdict
          /\ silent' \subseteq {"review", "qa"}
        BY <1>17 DEF TypeOK, RunQaGate, WriteQa, ReadStaleQa, AgentIsSilent, AfterQa, PC, Reason
    <2> QED
        BY <1>17, <2>1, <2>2, Contents DEF TypeOK, RunQaGate, WriteQa, ReadStaleQa, AgentIsSilent
<1>18. CASE RecordQaPass
    BY <1>18 DEF TypeOK, RecordQaPass, PC, Reason, WorkflowStatus
<1>19. CASE Crash
    BY <1>19, FaultsAreBounded DEF TypeOK, Crash, NoReviewLoopState, PC, Reason
<1>20. CASE UNCHANGED vars
    BY <1>20 DEF TypeOK, vars
<1> QED
    BY NextCases, <1>1, <1>2, <1>4, <1>5, <1>6, <1>7, <1>8, <1>9, <1>10, <1>11, <1>12, <1>13,
       <1>14, <1>15, <1>16, <1>17, <1>18, <1>19, <1>20

-----------------------------------------------------------------------------
(* Phases and Visual QA.                                                   *)

LEMMA PhaseInit == Init => PhaseInv
BY DEF Init, PhaseInv, RunsGates, GatePhase

LEMMA PhaseStep ==
    ASSUME TypeOK, PhaseInv, [Next]_vars
    PROVE  PhaseInv'
<1> USE DEF PhaseInv, RunsGates, GatePhase, stateFile, history, Stop, Go
<1>1. CASE Moves
    BY <1>1 DEF Moves, StartRun, AlreadyCompleted, WasCancelled, Interrupted, SafetyBound,
        StartGates, NothingClaimed, Schedules, VisualQADone, ReviewUnchanged
<1>2. ASSUME NEW gate \in {"review", "qa"}, StandaloneGate(gate)
      PROVE  PhaseInv'
    BY <1>2 DEF StandaloneGate, Command
<1>3. ASSUME Command, UNCHANGED <<pc, command>>, meddled \subseteq meddled'
      PROVE  PhaseInv'
    BY <1>3 DEF Command
<1>4. ASSUME NEW scope \in {"failed", "blocked"}, RetryByScope(scope)
      PROVE  PhaseInv'
    BY <1>3, <1>4 DEF RetryByScope
<1>5. ASSUME NEW i \in Item, NEW force \in BOOLEAN, ManualRetryTask(i, force)
      PROVE  PhaseInv'
    BY <1>3, <1>5 DEF ManualRetryTask
<1>6. ASSUME NEW force \in BOOLEAN, CancelWorkflow(force)
      PROVE  PhaseInv'
    BY <1>3, <1>6 DEF CancelWorkflow
<1>7. CASE DispatchRound
    BY <1>7 DEF DispatchRound, Schedules
<1>8. CASE RunIntegrationPhase \/ RunVisualQAPhase \/ SaveVisualResult \/ CreateVisualFixes
    BY <1>8 DEF RunIntegrationPhase, RunVisualQAPhase, SaveVisualResult, CreateVisualFixes
<1>9. CASE GateThrows
    BY <1>9 DEF GateThrows
<1>10. CASE RunReviewGate \/ ReadStaleReview
    BY <1>10 DEF TypeOK, RunReviewGate, ReadStaleReview, AgentIsSilent, AfterReview, ReviewVerdict
<1>11. CASE AppendFixTasks \/ RecordReviewRound \/ BlockWorkflow
    BY <1>11 DEF AppendFixTasks, RecordReviewRound, BlockWorkflow
<1>12. CASE RunQaGate \/ ReadStaleQa
    BY <1>12 DEF RunQaGate, ReadStaleQa, AgentIsSilent, AfterQa
<1>13. CASE RecordQaPass
    BY <1>13 DEF RecordQaPass
<1>14. CASE Crash
    BY <1>14 DEF Crash
<1>15. CASE UNCHANGED vars
    BY <1>15 DEF vars
<1> QED
    BY NextCases, <1>1, <1>2, <1>4, <1>5, <1>6, <1>7, <1>8, <1>9, <1>10, <1>11, <1>12, <1>13,
       <1>14, <1>15

LEMMA VisualInit == Init => VisualInv
BY GatesAssumption DEF Init, VisualInv

LEMMA VisualStep ==
    ASSUME TypeOK, VisualInv, [Next]_vars
    PROVE  VisualInv'
<1> USE GatesAssumption
    DEF VisualInv, gateFiles, history, Stop, Go, IsBlockingVisualResult
<1>1. CASE Moves
    <2>1. UNCHANGED <<visual, crashes>>
        BY <1>1, MovesEffect
    <2>2. /\ pc # "visualSave" /\ pc' \notin {"visualSave", "visualFix"}
          /\ ~ UiEnabled => pc' # "visualBlock"
        BY <1>1 DEF Moves, StartRun, AlreadyCompleted, WasCancelled, Interrupted,
            SafetyBound, StartGates, NothingClaimed, Schedules, VisualQADone, ReviewUnchanged
    <2> QED
        BY <2>1, <2>2 DEF TypeOK
<1>2. ASSUME NEW gate \in {"review", "qa"}, StandaloneGate(gate)
      PROVE  VisualInv'
    BY <1>2 DEF StandaloneGate, Command
<1>3. ASSUME Command, UNCHANGED pc
      PROVE  VisualInv'
    BY <1>3 DEF Command
<1>4. ASSUME NEW scope \in {"failed", "blocked"}, RetryByScope(scope)
      PROVE  VisualInv'
    BY <1>3, <1>4 DEF RetryByScope
<1>5. ASSUME NEW i \in Item, NEW force \in BOOLEAN, ManualRetryTask(i, force)
      PROVE  VisualInv'
    BY <1>3, <1>5 DEF ManualRetryTask
<1>6. ASSUME NEW force \in BOOLEAN, CancelWorkflow(force)
      PROVE  VisualInv'
    BY <1>3, <1>6 DEF CancelWorkflow
<1>7. CASE DispatchRound \/ RunIntegrationPhase \/ CreateVisualFixes
    BY <1>7 DEF DispatchRound, Schedules, RunIntegrationPhase, CreateVisualFixes
<1>8. CASE RunVisualQAPhase
    <2>1. PICK result \in VisualResult :
            visual' = [visual EXCEPT !.iterations = @ + 1, !.last = result]
        BY <1>8 DEF RunVisualQAPhase
    <2>2. /\ visual'.iterations = visual.iterations + 1
          /\ visual'.last = result /\ result # "none"
          /\ visual'.result = visual.result
        BY <2>1 DEF TypeOK, VisualResult
    <2> QED
        BY <1>8, <2>2 DEF TypeOK, RunVisualQAPhase, LastResultStands
<1>9. CASE SaveVisualResult
    <2>1. /\ visual'.iterations = visual.iterations
          /\ visual'.last = visual.last
          /\ visual'.result = visual.last
        BY <1>9 DEF TypeOK, SaveVisualResult
    <2> QED
        BY <1>9, <2>1 DEF TypeOK, SaveVisualResult
<1>10. CASE GateThrows
    BY <1>10 DEF GateThrows
<1>11. CASE RunReviewGate \/ ReadStaleReview
    BY <1>11 DEF TypeOK, RunReviewGate, ReadStaleReview, AgentIsSilent, AfterReview, ReviewVerdict
<1>12. CASE AppendFixTasks \/ RecordReviewRound \/ BlockWorkflow
    BY <1>12 DEF AppendFixTasks, RecordReviewRound, BlockWorkflow
<1>13. CASE RunQaGate \/ ReadStaleQa
    BY <1>13 DEF RunQaGate, ReadStaleQa, AgentIsSilent, AfterQa
<1>14. CASE RecordQaPass
    BY <1>14 DEF RecordQaPass
<1>15. CASE Crash
    BY <1>15 DEF TypeOK, Crash
<1>16. CASE UNCHANGED vars
    BY <1>16 DEF vars
<1> QED
    BY NextCases, <1>1, <1>2, <1>4, <1>5, <1>6, <1>7, <1>8, <1>9, <1>10, <1>11, <1>12, <1>13,
       <1>14, <1>15, <1>16

-----------------------------------------------------------------------------
(* Review rounds.                                                          *)

\* What RoundInv says of the fix task of a round.
FixTaskInv(r) ==
    tasks[FixTask(r)] # "absent" =>
        /\ \/ r <= Limit
           \/ /\ r = Limit + 1
              /\ tasks[FixTask(r)] = "pending"
              /\ (pc = "fixRecord" /\ r = loop + 1) \/ IsHeld
        /\ crashes = 0 => r <= loop \/ (pc = "fixRecord" /\ r = loop + 1)

LEMMA RoundInit == Init => RoundInv
<1> SUFFICES ASSUME Init PROVE RoundInv
    OBVIOUS
<1>1. \A r \in Round : tasks[FixTask(r)] = "absent"
    BY Items DEF Init, FixTask
<1> QED
    BY <1>1, GatesAssumption DEF Init, RoundInv, Limit, LimitOf, Round

LEMMA LimitGrows ==
    \A a, b, c, d \in Nat : a <= b /\ c <= d =>
        /\ LimitOf(a, c) \in Nat
        /\ LimitOf(b, d) \in Nat
        /\ LimitOf(a, c) <= LimitOf(b, d)
        /\ a < b \/ c < d => LimitOf(a, c) < LimitOf(b, d)
BY GatesAssumption DEF LimitOf

LEMMA LimitMoves ==
    ASSUME TypeOK, crashes' \in Nat, commands' \in Nat,
           crashes <= crashes', commands <= commands'
    PROVE  /\ Limit \in Nat
           /\ Limit' \in Nat
           /\ Limit <= Limit'
           /\ crashes < crashes' \/ commands < commands' => Limit < Limit'
<1>1. crashes \in Nat /\ commands \in Nat
    BY GatesAssumption DEF TypeOK
<1>2. Limit = LimitOf(crashes, commands) /\ Limit' = LimitOf(crashes', commands')
    BY DEF Limit, LimitOf
<1> QED
    BY <1>1, <1>2, LimitGrows

\* Where neither the round nor what exists of the tasks changes, it is for the limit
\* and for where the command is to keep the rounds within.
LEMMA RoundKept ==
    ASSUME TypeOK, RoundInv, loop' = loop, applied' => loop > 0,
           \A r \in Round :
               /\ tasks[FixTask(r)] = "absent" <=> tasks'[FixTask(r)] = "absent"
               /\ tasks'[FixTask(r)] \in {tasks[FixTask(r)], "pending"} \/ ~ IsHeld,
           pc' \notin {"fixRecord", "fixRecordNone"},
           crashes' \in Nat, commands' \in Nat, crashes <= crashes', commands <= commands',
           \/ Limit < Limit'
           \/ IsHeld => IsHeld',
           pc = "fixRecord" => crashes < crashes'
    PROVE  RoundInv'
<1>1. /\ crashes \in Nat /\ loop \in Nat /\ loop' = loop
      /\ \A r \in 1 .. loop : r \in Round
      /\ \A r \in Round : r \in Nat
    BY GatesAssumption DEF TypeOK, Round
<1>2. /\ Limit \in Nat /\ Limit' \in Nat /\ Limit <= Limit'
      /\ crashes < crashes' => Limit < Limit'
    BY LimitMoves
<1>3. ASSUME NEW r \in Round
      PROVE  FixTaskInv(r)'
    <2>1. FixTaskInv(r)
        BY DEF RoundInv, FixTaskInv
    <2> QED
        BY <1>1, <1>2, <2>1 DEF FixTaskInv
<1>4. loop <= Limit' \/ (loop = Limit' + 1 /\ IsHeld')
    <2>1. loop <= Limit \/ (loop = Limit + 1 /\ IsHeld)
        BY DEF RoundInv
    <2>2. CASE Limit < Limit'
        <3>1. \A k, l, m \in Nat : k <= l + 1 /\ l < m => k <= m
            OBVIOUS
        <3>2. loop <= Limit + 1
            BY <1>1, <1>2, <2>1
        <3> QED
            BY <1>1, <1>2, <2>2, <3>1, <3>2, Zenon
    <2>3. CASE Limit' = Limit /\ (IsHeld => IsHeld')
        BY <1>1, <1>2, <2>1, <2>3
    <2> QED
        BY <1>2, <2>2, <2>3
<1>5. \A r \in 1 .. loop' : tasks'[FixTask(r)] # "absent"
    BY <1>1 DEF RoundInv
<1> QED
    BY <1>1, <1>3, <1>4, <1>5 DEF RoundInv, FixTaskInv

\* The same for a step that leaves tasks, crashes and commands alone.
LEMMA RoundUntouched ==
    ASSUME TypeOK, RoundInv, UNCHANGED <<tasks, loop, crashes, commands>>,
           applied' => loop > 0, IsHeld => IsHeld',
           {pc, pc'} \cap {"fixRecord", "fixRecordNone"} = {}
    PROVE  RoundInv'
<1>1. /\ crashes' \in Nat /\ commands' \in Nat
      /\ crashes <= crashes' /\ commands <= commands'
    BY GatesAssumption DEF TypeOK
<1>2. /\ loop' = loop /\ tasks' = tasks
      /\ pc' \notin {"fixRecord", "fixRecordNone"}
      /\ pc # "fixRecord"
    OBVIOUS
<1>3. \A r \in Round :
        /\ tasks[FixTask(r)] = "absent" <=> tasks'[FixTask(r)] = "absent"
        /\ tasks'[FixTask(r)] \in {tasks[FixTask(r)], "pending"} \/ ~ IsHeld
    BY <1>2
<1> QED
    BY ONLY TypeOK, RoundInv, applied' => loop > 0, IsHeld => IsHeld', <1>1, <1>2, <1>3, RoundKept

LEMMA RoundOfCommand ==
    ASSUME TypeOK, RoundInv, Command,
           \A r \in Round :
               /\ tasks[FixTask(r)] = "absent" <=> tasks'[FixTask(r)] = "absent"
               /\ tasks'[FixTask(r)] \in {tasks[FixTask(r)], "pending"},
           pc' \in {"idle", "review", "qa"}
    PROVE  RoundInv'
<1>1. /\ crashes \in Nat /\ commands \in Nat /\ crashes' = crashes
      /\ commands' = commands + 1 /\ loop' = loop /\ applied' = applied /\ pc = "idle"
    BY GatesAssumption DEF TypeOK, Command, gateFiles, reviewFile
<1>2. Limit < Limit'
    BY <1>1, LimitMoves
<1>3. applied' => loop > 0
    BY <1>1 DEF RoundInv
<1> QED
    BY <1>1, <1>2, <1>3, RoundKept

LEMMA RoundStep ==
    ASSUME TypeOK, PhaseInv, RoundInv, [Next]_vars
    PROVE  RoundInv'
<1> USE DEF stateFile, branches, reviewFile, gateFiles, history, Stop, Go
<1>1. applied => loop > 0
    BY DEF RoundInv
<1>2. CASE Moves
    <2>1. UNCHANGED <<tasks, loop, applied, status, crashes, commands>>
        BY <1>2, MovesEffect
    <2>2. /\ {pc, pc'} \cap {"fixRecord", "fixRecordNone"} = {}
          /\ IsHeld => IsHeld'
        BY <1>2 DEF Moves, StartRun, AlreadyCompleted, WasCancelled, Interrupted, SafetyBound,
            StartGates, NothingClaimed, Schedules, VisualQADone, ReviewUnchanged, IsHeld
    <2> QED
        BY <1>1, <2>1, <2>2, RoundUntouched
<1>3. ASSUME NEW gate \in {"review", "qa"}, StandaloneGate(gate)
      PROVE  RoundInv'
    BY <1>3, RoundOfCommand DEF StandaloneGate
<1>4. ASSUME NEW S \in SUBSET Item, \A i \in S : tasks[i] # "absent", Reset(S), Command,
             pc' = pc
      PROVE  RoundInv'
    <2>1. pc' = "idle"
        BY <1>4 DEF Command
    <2>2. ASSUME NEW r \in Round
          PROVE  /\ tasks[FixTask(r)] = "absent" <=> tasks'[FixTask(r)] = "absent"
                 /\ tasks'[FixTask(r)] \in {tasks[FixTask(r)], "pending"}
        BY <1>4, Items DEF Reset
    <2> QED
        BY <1>4, <2>1, <2>2, RoundOfCommand
<1>5. ASSUME NEW scope \in {"failed", "blocked"}, RetryByScope(scope)
      PROVE  RoundInv'
    BY <1>4, <1>5, Items DEF RetryByScope, WithStatus
<1>6. ASSUME NEW i \in Item, NEW force \in BOOLEAN, ManualRetryTask(i, force)
      PROVE  RoundInv'
    BY <1>4, <1>6 DEF ManualRetryTask
<1>7. ASSUME NEW force \in BOOLEAN, CancelWorkflow(force)
      PROVE  RoundInv'
    <2>1. pc' = "idle" /\ tasks' = tasks
        BY <1>7 DEF CancelWorkflow, Command
    <2> QED
        BY <1>7, <2>1, RoundOfCommand DEF CancelWorkflow
<1>8. CASE DispatchRound
    <2>1. PICK S, result :
            /\ S \subseteq WithStatus("pending") \cup WithStatus("retry_wait")
            /\ result \in [S -> {"completed", "failed", "blocked", "retry_wait"}]
            /\ tasks' = [i \in Item |-> IF i \in S THEN result[i] ELSE tasks[i]]
        BY <1>8 DEF DispatchRound
    <2>2. ASSUME NEW r \in Round
          PROVE  tasks[FixTask(r)] = "absent" <=> tasks'[FixTask(r)] = "absent"
        BY <2>1, Items DEF WithStatus
    <2>3. /\ ~ IsHeld
          /\ pc = "loop" /\ pc' \in {"idle", "loop"}
          /\ UNCHANGED <<loop, applied, crashes, commands>>
        BY <1>8 DEF DispatchRound, Schedules, IsHeld
    <2>4. crashes \in Nat /\ commands \in Nat
        BY GatesAssumption DEF TypeOK
    <2> QED
        BY <1>1, <2>2, <2>3, <2>4, RoundKept
<1>9. CASE RunIntegrationPhase \/ RunVisualQAPhase \/ SaveVisualResult
    <2>1. /\ ~ IsHeld
          /\ {pc, pc'} \cap {"fixRecord", "fixRecordNone"} = {}
          /\ UNCHANGED <<tasks, loop, applied, crashes, commands>>
        BY <1>9 DEF RunIntegrationPhase, RunVisualQAPhase, SaveVisualResult, IsHeld
    <2> QED
        BY <1>1, <2>1, RoundUntouched
<1>10. CASE CreateVisualFixes
    <2>1. ASSUME NEW r \in Round
          PROVE  tasks'[FixTask(r)] = tasks[FixTask(r)]
        BY <1>10, Items, FixTasksDiffer DEF CreateVisualFixes, TypeOK
    <2>2. /\ ~ IsHeld
          /\ pc = "visualFix" /\ pc' = "loop"
          /\ UNCHANGED <<loop, applied, crashes, commands>>
        BY <1>10 DEF CreateVisualFixes, IsHeld
    <2>3. crashes \in Nat /\ commands \in Nat
        BY GatesAssumption DEF TypeOK
    <2> QED
        BY <1>1, <2>1, <2>2, <2>3, RoundKept
<1>11. CASE GateThrows \/ RunReviewGate \/ ReadStaleReview
    <2>1. applied' => loop > 0
        BY <1>1, <1>11 DEF GateThrows, RunReviewGate, ReadStaleReview, AgentIsSilent, WriteReview
    <2>2. /\ ~ IsHeld
          /\ {pc, pc'} \cap {"fixRecord", "fixRecordNone"} = {}
          /\ UNCHANGED <<tasks, loop, crashes, commands>>
        BY <1>11 DEF TypeOK, ReviewVerdict, GateThrows, RunReviewGate, ReadStaleReview,
            AgentIsSilent, AfterReview, IsHeld
    <2> QED
        BY <2>1, <2>2, RoundUntouched
<1>12. CASE AppendFixTasks
    <2>1. /\ loop \in Nat /\ Limit \in Nat /\ loop <= Limit /\ loop + 1 \in Round
          /\ \A r \in 1 .. loop : r \in Round
          /\ \A r \in Round : r \in Nat
          /\ pc = "fix" /\ UNCHANGED <<loop, applied, crashes, commands>> /\ Limit' = Limit
        BY <1>12, GatesAssumption
        DEF AppendFixTasks, TypeOK, PhaseInv, RoundInv, IsHeld, Limit, LimitOf, Round
    <2>2. ASSUME NEW r \in Round, tasks[FixTask(r)] # "absent"
          PROVE  r <= Limit /\ (crashes = 0 => r <= loop)
        BY <1>12, <2>1, <2>2 DEF RoundInv, AppendFixTasks, IsHeld
    <2>3. CASE pc' = "fixRecord"
        <3>1. /\ tasks'[FixTask(loop + 1)] = "pending"
              /\ \A r \in Round \ {loop + 1} : tasks'[FixTask(r)] = tasks[FixTask(r)]
              /\ pc' = "fixRecord"
            BY <1>12, <2>1, <2>3, Items, FixTasksDiffer DEF AppendFixTasks, TypeOK
        <3>2. ASSUME NEW r \in Round PROVE FixTaskInv(r)'
            BY <2>1, <2>2, <3>1 DEF FixTaskInv
        <3>3. \A r \in 1 .. loop : tasks'[FixTask(r)] # "absent"
            BY <2>1, <3>1 DEF RoundInv
        <3> QED
            BY <1>1, <2>1, <3>1, <3>2, <3>3 DEF RoundInv, FixTaskInv
    <2>4. CASE pc' # "fixRecord"
        <3>1. tasks' = tasks /\ pc' = "fixRecordNone" /\ tasks[FixTask(loop + 1)] # "absent"
            BY <1>12, <2>4 DEF AppendFixTasks
        <3>2. ASSUME NEW r \in Round PROVE FixTaskInv(r)'
            BY <2>1, <2>2, <3>1 DEF FixTaskInv
        <3>3. \A r \in 1 .. loop : tasks'[FixTask(r)] # "absent"
            BY <2>1, <3>1 DEF RoundInv
        <3> QED
            BY <1>1, <2>1, <2>4, <3>1, <3>2, <3>3 DEF RoundInv, FixTaskInv
    <2> QED
        BY <2>3, <2>4
<1>13. CASE RecordReviewRound
    <2>1. /\ loop \in Nat /\ Limit \in Nat /\ loop <= Limit /\ MaxReviewRounds <= Limit
          /\ \A r \in 1 .. loop + 1 : r \in 1 .. loop \/ r = loop + 1
          /\ \A r \in Round : r \in Nat
          /\ loop' = loop + 1 /\ UNCHANGED <<tasks, crashes, commands>> /\ Limit' = Limit
        BY <1>13, GatesAssumption
        DEF RecordReviewRound, SaveReviewLoopState, TypeOK, PhaseInv, RoundInv, IsHeld, Limit,
            LimitOf, Round
    <2>2. /\ ~ IsHeld
          /\ pc' \in {"block", "loop"}
          /\ loop + 1 > MaxReviewRounds => IsHeld'
        BY <1>13 DEF RecordReviewRound, SaveReviewLoopState, IsHeld
    <2>3. loop + 1 = Limit + 1 => IsHeld'
        BY <2>1, <2>2, GatesAssumption
    <2>4. ASSUME NEW r \in Round PROVE FixTaskInv(r)'
        <3>1. FixTaskInv(r)
            BY DEF RoundInv, FixTaskInv
        <3> QED
            BY <2>1, <2>2, <2>3, <3>1 DEF FixTaskInv
    <2>5. \A r \in 1 .. loop + 1 : tasks'[FixTask(r)] # "absent"
        BY <1>13, <2>1 DEF RoundInv, RecordReviewRound
    <2> QED
        BY <2>1, <2>2, <2>3, <2>4, <2>5 DEF RoundInv, FixTaskInv
<1>14. CASE BlockWorkflow
    <2>1. /\ IsHeld => IsHeld'
          /\ {pc, pc'} \cap {"fixRecord", "fixRecordNone"} = {}
          /\ UNCHANGED <<tasks, loop, applied, crashes, commands>>
        BY <1>14 DEF BlockWorkflow, IsHeld
    <2> QED
        BY <1>1, <2>1, RoundUntouched
<1>15. CASE RunQaGate \/ ReadStaleQa \/ RecordQaPass
    <2>1. /\ ~ IsHeld
          /\ {pc, pc'} \cap {"fixRecord", "fixRecordNone"} = {}
          /\ UNCHANGED <<tasks, loop, applied, crashes, commands>>
        BY <1>15 DEF RunQaGate, ReadStaleQa, AgentIsSilent, AfterQa, RecordQaPass, IsHeld
    <2> QED
        BY <1>1, <2>1, RoundUntouched
<1>16. CASE Crash
    <2>1. /\ crashes \in Nat /\ commands \in Nat /\ crashes' = crashes + 1
          /\ UNCHANGED <<tasks, commands>> /\ pc' = "idle"
        BY <1>16, GatesAssumption DEF TypeOK, Crash
    <2>2. Limit \in Nat /\ Limit' \in Nat /\ Limit < Limit'
        BY <2>1, LimitMoves
    <2>3. CASE UNCHANGED <<loop, applied>>
        BY <1>1, <2>1, <2>2, <2>3, RoundKept
    <2>4. CASE NoReviewLoopState
        <3>1. loop' = 0 /\ ~ applied'
            BY <2>4 DEF NoReviewLoopState
        <3>2. ASSUME NEW r \in Round PROVE FixTaskInv(r)'
            <4>1. r \in Nat /\ (tasks[FixTask(r)] # "absent" => r <= Limit + 1)
                BY <2>2 DEF RoundInv, Round
            <4>2. tasks'[FixTask(r)] # "absent" => r <= Limit'
                BY <2>1, <2>2, <4>1
            <4>3. crashes' # 0
                BY <2>1
            <4> QED
                BY <4>2, <4>3 DEF FixTaskInv
        <3>3. /\ loop' <= Limit' /\ \A r \in 1 .. loop' : FALSE
              /\ pc' \notin {"fixRecord", "fixRecordNone"}
            BY <2>1, <2>2, <3>1
        <3> QED
            BY <3>1, <3>2, <3>3 DEF RoundInv, FixTaskInv
    <2> QED
        BY <1>16, <2>3, <2>4 DEF Crash
<1>17. CASE UNCHANGED vars
    BY <1>17 DEF vars, RoundInv, Limit, IsHeld
<1> QED
    BY NextCases, <1>2, <1>3, <1>5, <1>6, <1>7, <1>8, <1>9, <1>10, <1>11, <1>12, <1>13,
       <1>14, <1>15, <1>16, <1>17

LEMMA NextRound ==
    ASSUME TypeOK, PhaseInv, RoundInv, pc \in {"fix", "fixRecord", "fixRecordNone"}
    PROVE  loop + 1 \in Round /\ loop \in {0} \cup Round
BY GatesAssumption DEF TypeOK, PhaseInv, RoundInv, IsHeld, Limit, LimitOf, Round

-----------------------------------------------------------------------------
(* What is done.                                                           *)

LEMMA DerivedIsDone ==
    ASSUME NEW ts, \A n \in 1 .. NumTasks : ts[[kind |-> "plan", n |-> n]] # "absent",
           ts[GateTask] \in {"absent", "pending"}
    PROVE  /\ DeriveWorkflowStatus(ts) = "completed" =>
                \A i \in Work : ts[i] \in {"absent", "completed"}
           /\ (\A i \in Work : ts[i] \in {"absent", "completed"}) /\ ts[GateTask] = "absent" =>
                DeriveWorkflowStatus(ts) = "completed"
<1>1. 1 \in 1 .. NumTasks
    BY GatesAssumption
<1>2. PICK i \in Item : ts[i] # "absent" /\ i \in Work
    BY <1>1, Items
<1> QED
    BY <1>2, Items, DerivedStatus

LEMMA DoneInit == Init => DoneInv
<1> SUFFICES ASSUME Init PROVE DoneInv
    OBVIOUS
<1>1. \A n \in 1 .. NumTasks : tasks[[kind |-> "plan", n |-> n]] = "pending"
    BY Items DEF Init
<1>2. tasks[GateTask] \in {"absent", "pending"}
    BY Items DEF Init, GateTask
<1>3. \E i \in Work : tasks[i] = "pending"
    <2>1. 1 \in 1 .. NumTasks
        BY GatesAssumption
    <2> QED
        BY <1>1, <2>1, Items
<1>4. \A i \in Work : tip[i] = 0 /\ merged[i] = 0
    BY DEF Init, NoWork
<1> QED
    BY <1>1, <1>2, <1>3, <1>4 DEF Init, DoneInv, AllDone, RunsGates, GatePhase

\* The tasks and the branches, the status, and the run at its gates of DoneInv.
DoneTasks ==
    /\ \A n \in 1 .. NumTasks : tasks[[kind |-> "plan", n |-> n]] # "absent"
    /\ tasks[GateTask] \in {"absent", "pending"}
    /\ \A i \in Work : tasks[i] = "absent" => tip[i] = 0 /\ merged[i] = 0

DoneStatus ==
    /\ AllDone /\ tasks[GateTask] = "absent" => status \in {"completed", "blocked", "cancelled"}
    /\ "qa" \notin meddled /\ status = "completed" => AllDone

DoneGates ==
    "qa" \notin meddled /\ RunsGates /\ pc \notin {"fixRecord", "fixRecordNone", "block"} => AllDone

LEMMA DoneParts == DoneInv <=> DoneTasks /\ DoneStatus /\ DoneGates
BY DEF DoneInv, DoneTasks, DoneStatus, DoneGates

LEMMA DoneTasksStep ==
    ASSUME TypeOK, PhaseInv, RoundInv, VisualInv, DoneTasks, [Next]_vars
    PROVE  DoneTasks'
<1> USE DEF stateFile, branches, gateFiles, history, DoneTasks
<1>1. CASE UNCHANGED <<tasks, branches>>
    BY <1>1
<1>2. ASSUME NEW S \in SUBSET Item, \A i \in S : tasks[i] # "absent", Reset(S), Command
      PROVE  DoneTasks'
    <2>1. /\ tasks' = [i \in Item |-> IF i \in S THEN "pending" ELSE tasks[i]]
          /\ UNCHANGED branches
        BY <1>2 DEF Reset, Command
    <2> QED
        BY <1>2, <2>1, Items
<1>3. ASSUME NEW scope \in {"failed", "blocked"}, RetryByScope(scope)
      PROVE  DoneTasks'
    BY <1>2, <1>3, Items DEF RetryByScope, WithStatus
<1>4. ASSUME NEW i \in Item, NEW force \in BOOLEAN, ManualRetryTask(i, force)
      PROVE  DoneTasks'
    BY <1>2, <1>4 DEF ManualRetryTask
<1>5. CASE DispatchRound
    <2>1. PICK S, result :
            /\ S \subseteq WithStatus("pending") \cup WithStatus("retry_wait")
            /\ result \in [S -> {"completed", "failed", "blocked", "retry_wait"}]
            /\ tasks' = [i \in Item |-> IF i \in S THEN result[i] ELSE tasks[i]]
            /\ tip' = [i \in Work |->
                    IF i \in S /\ result[i] = "completed" THEN tip[i] + 1 ELSE tip[i]]
        BY <1>5 DEF DispatchRound
    <2>2. S \subseteq Work /\ \A i \in S : tasks[i] # "absent" /\ result[i] # "absent"
        BY <2>1 DEF WithStatus
    <2>3. merged' = merged
        BY <1>5 DEF DispatchRound
    <2>4. ASSUME NEW i \in Work, tasks'[i] = "absent"
          PROVE  tip'[i] = 0 /\ merged'[i] = 0
        BY <2>1, <2>2, <2>3, <2>4, Items
    <2>5. \A n \in 1 .. NumTasks : tasks'[[kind |-> "plan", n |-> n]] # "absent"
        BY <2>1, <2>2, Items
    <2>6. tasks'[GateTask] = tasks[GateTask]
        BY <2>1, <2>2, Items
    <2> QED
        BY <2>4, <2>5, <2>6
<1>6. CASE RunIntegrationPhase
    <2>1. /\ merged' = [i \in Work |-> IF tasks[i] = "completed" THEN tip[i] ELSE merged[i]]
          /\ UNCHANGED <<tasks, tip>>
        BY <1>6 DEF RunIntegrationPhase
    <2> QED
        BY <2>1
<1>7. ASSUME NEW i \in Work, tasks' = [tasks EXCEPT ![i] = "pending"], i # GateTask,
             UNCHANGED branches
      PROVE  DoneTasks'
    BY <1>7, Items DEF TypeOK
<1>8. CASE CreateVisualFixes
    <2>1. [kind |-> "visual", n |-> visual.iterations] \in Work
        BY <1>8, Items DEF CreateVisualFixes, VisualInv
    <2> QED
        BY <1>7, <1>8, <2>1, FixTasksDiffer DEF CreateVisualFixes
<1>9. CASE AppendFixTasks
    <2>1. FixTask(loop + 1) \in Work
        BY <1>9, NextRound, Items DEF AppendFixTasks
    <2> QED
        BY <1>1, <1>7, <1>9, <2>1, FixTasksDiffer DEF AppendFixTasks
<1>10. CASE Moves
    BY <1>1, <1>10, MovesEffect
<1>11. ASSUME NEW gate \in {"review", "qa"}, StandaloneGate(gate)
       PROVE  DoneTasks'
    BY <1>1, <1>11 DEF StandaloneGate, Command
<1>12. ASSUME NEW force \in BOOLEAN, CancelWorkflow(force)
       PROVE  DoneTasks'
    BY <1>1, <1>12 DEF CancelWorkflow, Command
<1>13. CASE \/ RunVisualQAPhase \/ SaveVisualResult \/ GateThrows
            \/ RunReviewGate \/ ReadStaleReview \/ RecordReviewRound \/ BlockWorkflow
            \/ RunQaGate \/ ReadStaleQa \/ RecordQaPass \/ Crash \/ UNCHANGED vars
    BY <1>1, <1>13
    DEF RunVisualQAPhase, SaveVisualResult, GateThrows, RunReviewGate, ReadStaleReview,
        AgentIsSilent, RecordReviewRound, BlockWorkflow, RunQaGate, ReadStaleQa,
        RecordQaPass, Crash, vars
<1> QED
    BY NextCases, <1>3, <1>4, <1>5, <1>6, <1>8, <1>9, <1>10, <1>11, <1>12, <1>13

LEMMA DoneStatusStep ==
    ASSUME TypeOK, PhaseInv, RoundInv, VisualInv, DoneInv, DoneTasks', [Next]_vars
    PROVE  DoneStatus'
<1> USE DEF stateFile, branches, gateFiles, history, Stop, Go
<1>1. DoneStatus /\ DoneGates
    BY DoneParts
<1>2. CASE UNCHANGED <<stateFile, meddled>>
    BY <1>1, <1>2 DEF DoneStatus, AllDone
<1>3. CASE status' = DeriveWorkflowStatus(tasks')
    BY <1>3, DerivedIsDone DEF DoneStatus, DoneTasks, AllDone
<1>4. CASE ~ AllDone' /\ status' # "completed"
    BY <1>4 DEF DoneStatus
<1>5. CASE Moves
    BY <1>2, <1>5, MovesEffect
<1>6. ASSUME NEW gate \in {"review", "qa"}, StandaloneGate(gate)
      PROVE  DoneStatus'
    BY <1>1, <1>6 DEF DoneStatus, AllDone, StandaloneGate
<1>7. ASSUME NEW scope \in {"failed", "blocked"}, RetryByScope(scope)
      PROVE  DoneStatus'
    BY <1>3, <1>7 DEF RetryByScope, Reset
<1>8. ASSUME NEW i \in Item, NEW force \in BOOLEAN, ManualRetryTask(i, force)
      PROVE  DoneStatus'
    BY <1>3, <1>8 DEF ManualRetryTask, Reset
<1>9. ASSUME NEW force \in BOOLEAN, CancelWorkflow(force)
      PROVE  DoneStatus'
    BY <1>9 DEF DoneStatus, CancelWorkflow
<1>10. CASE DispatchRound
    BY <1>3, <1>10 DEF DispatchRound
<1>11. CASE CreateVisualFixes
    <2>1. [kind |-> "visual", n |-> visual.iterations] \in Work
        BY <1>11, Items DEF CreateVisualFixes, VisualInv
    <2>2. tasks'[[kind |-> "visual", n |-> visual.iterations]] = "pending"
        BY <1>11, <2>1, Items DEF CreateVisualFixes, TypeOK
    <2> QED
        BY <1>4, <1>11, <2>1, <2>2 DEF CreateVisualFixes, AllDone
<1>12. CASE AppendFixTasks
    <2>1. FixTask(loop + 1) \in Work
        BY <1>12, NextRound, Items DEF AppendFixTasks
    <2>2. CASE pc' = "fixRecord"
        <3>1. tasks'[FixTask(loop + 1)] = "pending" /\ status' = "running"
            BY <1>12, <2>1, <2>2, Items DEF AppendFixTasks, TypeOK
        <3> QED
            BY <1>4, <2>1, <3>1 DEF AllDone
    <2>3. CASE pc' # "fixRecord"
        BY <1>2, <1>12, <2>3 DEF AppendFixTasks
    <2> QED
        BY <2>2, <2>3
<1>13. CASE BlockWorkflow
    BY <1>13 DEF BlockWorkflow, DoneStatus
<1>14. CASE RecordQaPass
    <2>1. "qa" \notin meddled => AllDone
        BY <1>1, <1>14 DEF RecordQaPass, PhaseInv, TypeOK, DoneGates, RunsGates, GatePhase
    <2>2. UNCHANGED <<tasks, meddled>> /\ status' = "completed"
        BY <1>14 DEF RecordQaPass
    <2> QED
        BY <2>1, <2>2 DEF DoneStatus, AllDone
<1>15. CASE \/ RunIntegrationPhase \/ RunVisualQAPhase \/ SaveVisualResult \/ GateThrows
            \/ RunReviewGate \/ ReadStaleReview \/ RecordReviewRound
            \/ RunQaGate \/ ReadStaleQa \/ Crash \/ UNCHANGED vars
    BY <1>2, <1>15
    DEF RunIntegrationPhase, RunVisualQAPhase, SaveVisualResult, GateThrows, RunReviewGate,
        ReadStaleReview, AgentIsSilent, RecordReviewRound, RunQaGate, ReadStaleQa, Crash, vars
<1> QED
    BY NextCases, <1>5, <1>6, <1>7, <1>8, <1>9, <1>10, <1>11, <1>12, <1>13, <1>14, <1>15

LEMMA DoneGatesStep ==
    ASSUME TypeOK, PhaseInv, DoneInv, [Next]_vars
    PROVE  DoneGates'
<1> USE DEF stateFile, branches, gateFiles, history, Stop, Go, DoneGates, RunsGates, GatePhase
<1>1. DoneStatus /\ DoneGates
    BY DoneParts
<1>2. CASE UNCHANGED <<stateFile, meddled>> /\ command' = command
           /\ (command' = "run" /\ pc' \in GatePhase
                   /\ pc' \notin {"fixRecord", "fixRecordNone", "block"} =>
                \/ AllDone
                \/ RunsGates /\ pc \notin {"fixRecord", "fixRecordNone", "block"})
    BY <1>1, <1>2 DEF AllDone
<1>3. CASE Moves
    <2>1. UNCHANGED <<stateFile, meddled>>
        BY <1>3, MovesEffect
    <2>2. CASE pc' \in {"idle", "loop", "block"}
        BY <2>2
    <2>3. CASE pc' \notin {"idle", "loop", "block"}
        BY <1>1, <1>2, <1>3, <2>1, <2>3
        DEF Moves, StartRun, AlreadyCompleted, WasCancelled, Interrupted, SafetyBound,
            StartGates, NothingClaimed, Schedules, VisualQADone, ReviewUnchanged, DoneStatus,
            PhaseInv, AllDone
    <2> QED
        BY <2>2, <2>3
<1>4. ASSUME NEW gate \in {"review", "qa"}, StandaloneGate(gate)
      PROVE  DoneGates'
    BY <1>4 DEF StandaloneGate
<1>5. CASE Command /\ pc' = pc
    BY <1>5 DEF Command
<1>6. ASSUME NEW scope \in {"failed", "blocked"}, RetryByScope(scope)
      PROVE  DoneGates'
    BY <1>5, <1>6 DEF RetryByScope
<1>7. ASSUME NEW i \in Item, NEW force \in BOOLEAN, ManualRetryTask(i, force)
      PROVE  DoneGates'
    BY <1>5, <1>7 DEF ManualRetryTask
<1>8. ASSUME NEW force \in BOOLEAN, CancelWorkflow(force)
      PROVE  DoneGates'
    BY <1>5, <1>8 DEF CancelWorkflow
<1>9. CASE DispatchRound \/ CreateVisualFixes
    BY <1>9 DEF DispatchRound, CreateVisualFixes
<1>10. CASE RunIntegrationPhase \/ RunVisualQAPhase \/ SaveVisualResult
    BY <1>2, <1>10 DEF RunIntegrationPhase, RunVisualQAPhase, SaveVisualResult
<1>11. CASE GateThrows \/ BlockWorkflow \/ RecordQaPass \/ Crash
    BY <1>11 DEF GateThrows, BlockWorkflow, RecordQaPass, Crash
<1>12. CASE RunReviewGate \/ ReadStaleReview
    BY <1>2, <1>12
    DEF RunReviewGate, ReadStaleReview, AgentIsSilent, AfterReview, TypeOK, ReviewVerdict
<1>13. CASE AppendFixTasks \/ RecordReviewRound
    BY <1>13 DEF AppendFixTasks, RecordReviewRound
<1>14. CASE RunQaGate \/ ReadStaleQa
    BY <1>2, <1>14 DEF RunQaGate, ReadStaleQa, AgentIsSilent, AfterQa
<1>15. CASE UNCHANGED vars
    BY <1>1, <1>15 DEF vars, AllDone
<1> QED
    BY NextCases, <1>3, <1>4, <1>6, <1>7, <1>8, <1>9, <1>10, <1>11, <1>12, <1>13, <1>14, <1>15

LEMMA DoneStep ==
    ASSUME TypeOK, PhaseInv, RoundInv, VisualInv, DoneInv, [Next]_vars
    PROVE  DoneInv'
<1>1. DoneTasks'
    BY DoneTasksStep, DoneParts
<1>2. DoneStatus'
    BY <1>1, DoneStatusStep
<1>3. DoneGates'
    BY DoneGatesStep
<1> QED
    BY <1>1, <1>2, <1>3 DEF DoneInv, DoneTasks, DoneStatus, DoneGates

-----------------------------------------------------------------------------
(* The end of the review rounds.                                           *)

\* What a step that ends no round does to the outcome.
LEMMA OutcomeStep ==
    ASSUME TypeOK, PhaseInv, [Next]_vars
    PROVE  /\ outcome' = "max_review_rounds" =>
                UNCHANGED vars \/ (BlockWorkflow /\ pc = "block")
           /\ outcome' = "completed" =>
                UNCHANGED vars \/ AlreadyCompleted \/ (RecordQaPass /\ command = "run")
<1> USE DEF Stop, Go, PhaseInv
<1>1. CASE Moves
    BY <1>1 DEF Moves, StartRun, WasCancelled, Interrupted, SafetyBound, AlreadyCompleted,
        StartGates, NothingClaimed, Schedules, VisualQADone, ReviewUnchanged
<1>2. CASE Command
    BY <1>2 DEF Command
<1>3. CASE DispatchRound \/ RunIntegrationPhase \/ RunVisualQAPhase \/ SaveVisualResult
           \/ CreateVisualFixes \/ GateThrows \/ AppendFixTasks \/ RecordReviewRound
    BY <1>3 DEF DispatchRound, Schedules, RunIntegrationPhase, RunVisualQAPhase,
        SaveVisualResult, CreateVisualFixes, GateThrows, AppendFixTasks, RecordReviewRound
<1>4. CASE RunReviewGate \/ ReadStaleReview
    BY <1>4 DEF RunReviewGate, ReadStaleReview, AgentIsSilent, AfterReview, TypeOK, ReviewVerdict
<1>5. CASE BlockWorkflow
    BY <1>5 DEF BlockWorkflow
<1>6. CASE RunQaGate \/ ReadStaleQa
    BY <1>6 DEF RunQaGate, ReadStaleQa, AgentIsSilent, AfterQa
<1>7. CASE RecordQaPass
    BY <1>7 DEF RecordQaPass, TypeOK
<1>8. CASE Crash
    BY <1>8 DEF Crash
<1> QED
    BY NextCases, <1>1, <1>2, <1>3, <1>4, <1>5, <1>6, <1>7, <1>8
    DEF StandaloneGate, RetryByScope, ManualRetryTask, CancelWorkflow

LEMMA ExhaustionStep ==
    ASSUME TypeOK, PhaseInv, RoundInv, DoneInv, ExhaustionInv, [Next]_vars
    PROVE  ExhaustionInv'
<1> USE DEF Stop, Go, ExhaustionInv
<1>1. CASE RecordReviewRound
    <2>1. SUFFICES ASSUME pc' = "block", crashes = 0
          PROVE  loop' > MaxReviewRounds
        BY <1>1 DEF RecordReviewRound, history
    <2>2. loop + 1 \in Round /\ loop + 1 \in Nat /\ loop \in Nat
        BY <1>1, NextRound, GatesAssumption DEF RecordReviewRound, Round
    <2>3. pc # "fixRecordNone"
        BY <1>1, <2>1, <2>2 DEF RoundInv, RecordReviewRound
    <2> QED
        BY <1>1, <2>1, <2>3 DEF RecordReviewRound
<1>2. CASE ReviewUnchanged
    <2>1. SUFFICES ASSUME "qa" \notin meddled
          PROVE  tasks[FixTask(loop)] = "completed"
        BY <1>2 DEF ReviewUnchanged, stateFile, gateFiles, history
    <2>2. loop \in 1 .. loop /\ loop \in Round
        BY <1>2, GatesAssumption, NextRound DEF ReviewUnchanged, RoundInv, Round
    <2>3. AllDone
        BY <1>2, <2>1 DEF ReviewUnchanged, DoneInv, PhaseInv, RunsGates, GatePhase
    <2> QED
        BY <2>2, <2>3, Items DEF RoundInv, AllDone
<1>3. CASE UNCHANGED vars
    BY <1>3 DEF vars
<1>4. CASE pc' # "block"
    BY <1>4
<1>5. pc' = "block" => RecordReviewRound \/ ReviewUnchanged \/ UNCHANGED vars
    <2>1. CASE Moves
        BY <2>1 DEF Moves, StartRun, WasCancelled, Interrupted, SafetyBound, AlreadyCompleted,
            StartGates, NothingClaimed, Schedules, VisualQADone
    <2>2. ASSUME Command, pc' \in {pc, "review", "qa"} PROVE pc' # "block"
        BY <2>2 DEF Command
    <2>3. CASE DispatchRound \/ RunIntegrationPhase \/ RunVisualQAPhase \/ SaveVisualResult
               \/ CreateVisualFixes \/ GateThrows \/ AppendFixTasks \/ BlockWorkflow
               \/ RecordQaPass \/ Crash
        BY <2>3 DEF DispatchRound, Schedules, RunIntegrationPhase, RunVisualQAPhase,
            SaveVisualResult, CreateVisualFixes, GateThrows, AppendFixTasks, BlockWorkflow,
            RecordQaPass, Crash
    <2>4. CASE RunReviewGate \/ ReadStaleReview
        BY <2>4
        DEF RunReviewGate, ReadStaleReview, AgentIsSilent, AfterReview, TypeOK, ReviewVerdict
    <2>5. CASE RunQaGate \/ ReadStaleQa
        BY <2>5 DEF RunQaGate, ReadStaleQa, AgentIsSilent, AfterQa
    <2> QED
        BY NextCases, <2>1, <2>2, <2>3, <2>4, <2>5
        DEF StandaloneGate, RetryByScope, ManualRetryTask, CancelWorkflow
<1> QED
    BY <1>1, <1>2, <1>3, <1>4, <1>5

LEMMA ExhaustionRealStep ==
    ASSUME TypeOK, PhaseInv, ExhaustionInv, ExhaustionIsReal, [Next]_vars
    PROVE  ExhaustionIsReal'
<1>1. CASE UNCHANGED vars
    BY <1>1 DEF vars, ExhaustionIsReal
<1>2. CASE BlockWorkflow /\ pc = "block"
    BY <1>2 DEF BlockWorkflow, ExhaustionInv, ExhaustionIsReal, gateFiles, history
<1> QED
    BY <1>1, <1>2, OutcomeStep DEF ExhaustionIsReal

-----------------------------------------------------------------------------
(* Approval.                                                               *)

LEMMA ApprovalInit == Init => ApprovalInv
BY DEF Init, ApprovalInv, Trail, PassStands, RunsGates, GatePhase

LEMMA CleanBefore == ASSUME [Next]_vars, Clean' PROVE Clean
<1>1. meddled \subseteq meddled'
    <2>1. CASE Moves
        BY <2>1, MovesEffect DEF history
    <2>2. CASE \/ \E gate \in {"review", "qa"} : StandaloneGate(gate)
               \/ \E scope \in {"failed", "blocked"} : RetryByScope(scope)
               \/ \E i \in Item, force \in BOOLEAN : ManualRetryTask(i, force)
               \/ \E force \in BOOLEAN : CancelWorkflow(force)
        BY <2>2 DEF StandaloneGate, RetryByScope, ManualRetryTask, CancelWorkflow
    <2> QED
        BY NextCases, <2>1, <2>2
        DEF DispatchRound, RunIntegrationPhase, RunVisualQAPhase, SaveVisualResult,
            CreateVisualFixes, GateThrows, RunReviewGate, ReadStaleReview, AgentIsSilent,
            AppendFixTasks, RecordReviewRound, BlockWorkflow, RunQaGate, ReadStaleQa,
            RecordQaPass, Crash, history, vars
<1> QED
    BY <1>1 DEF Clean

\* The gates of a workflow with a PASS that stands for it have nothing to do.
LEMMA NothingPasses ==
    ASSUME Clean, ApprovalInv, RunsGates, pc # "qaRecord", qa = "PASS"
    PROVE  tasks[GateTask] # "absent" /\ status # "completed"
BY DEF ApprovalInv, Trail

\* What a PASS stands for is left as it is.
LEMMA PassKept ==
    ASSUME PassStands, UNCHANGED <<stateFile, branches, qa, visual, crashes>>,
           IsReviewed => IsReviewed', IsTested => IsTested'
    PROVE  PassStands'
BY DEF PassStands, Vouched, AllIntegrated, IsSeen, stateFile, branches

LEMMA TrailStep ==
    ASSUME TypeOK, PhaseInv, RoundInv, VisualInv, DoneInv, ApprovalInv, [Next]_vars, Clean'
    PROVE  Trail'
<1> USE DEF stateFile, branches, reviewFile, gateFiles, approvals, history, Stop, Go, Trail,
            RunsGates, GatePhase
<1>1. Trail /\ PassStands /\ "qa" \notin meddled
    BY CleanBefore DEF ApprovalInv, Clean
<1>2. CASE pc' \in {"idle", "loop"} \/ command' # "run"
    BY <1>2
<1>3. CASE StartGates
    BY <1>1, <1>3 DEF StartGates, HasPassingQaResult
<1>4. CASE NothingClaimed /\ pc' = "integrate"
    <2>1. /\ AllDone /\ status \notin {"completed", "blocked", "cancelled"}
          /\ UNCHANGED <<status, tasks>>
        BY <1>4 DEF NothingClaimed, Schedules, AllDone
    <2>2. tasks[GateTask] # "absent"
        BY <2>1 DEF DoneInv
    <2> QED
        BY <1>4, <2>1, <2>2
<1>5. CASE VisualQADone
    <2>1. command = "run" /\ merged = tip
        BY <1>1, <1>5 DEF VisualQADone, PhaseInv
    <2>2. pc' = "review" => IsSeen
        <3>1. crashes \in Nat /\ pc # "visualSave"
            BY <1>5, GatesAssumption DEF VisualQADone, TypeOK
        <3>2. CASE UiEnabled
            BY <1>5, <3>1, <3>2 DEF VisualQADone, VisualInv, IsSeen
        <3>3. CASE ~ UiEnabled
            BY <3>3 DEF VisualInv, IsSeen, IsBlockingVisualResult
        <3> QED
            BY <3>2, <3>3
    <2> QED
        BY <1>1, <1>5, <2>1, <2>2 DEF VisualQADone, IsSeen
<1>6. CASE ReviewUnchanged
    BY <1>1, <1>6 DEF ReviewUnchanged, PhaseInv
<1>7. CASE Moves
    <2>1. CASE StartRun \/ AlreadyCompleted \/ WasCancelled \/ Interrupted \/ SafetyBound
        BY <1>2, <2>1 DEF StartRun, AlreadyCompleted, WasCancelled, Interrupted, SafetyBound
    <2>2. CASE NothingClaimed
        BY <1>2, <1>4, <2>2 DEF NothingClaimed
    <2> QED
        BY <1>3, <1>5, <1>6, <1>7, <2>1, <2>2 DEF Moves
<1>8. CASE Command /\ (pc' = pc \/ command' # "run")
    BY <1>2, <1>8 DEF Command
<1>9. CASE RunIntegrationPhase
    <2>1. AllDone
        BY <1>1, <1>9 DEF DoneInv, RunIntegrationPhase, PhaseInv
    <2>2. tip \in [Work -> Nat] /\ merged \in [Work -> Nat]
        BY Contents DEF Content
    <2>3. ASSUME NEW i \in Work
          PROVE  tip[i] = IF tasks[i] = "completed" THEN tip[i] ELSE merged[i]
        BY <2>1 DEF AllDone, DoneInv
    <2>4. tip = [i \in Work |-> IF tasks[i] = "completed" THEN tip[i] ELSE merged[i]]
        BY <2>2, <2>3
    <2>5. /\ merged' = tip /\ tip' = tip /\ pc = "integrate" /\ pc' = "visual"
          /\ command = "run" /\ UNCHANGED <<status, tasks, qa>>
        BY <1>9, <2>4 DEF RunIntegrationPhase, PhaseInv
    <2> QED
        BY <1>1, <2>5
<1>10. CASE RunVisualQAPhase
    <2>1. /\ pc = "visual" /\ pc' = "visualSave" /\ command = "run"
          /\ UNCHANGED <<status, tasks, merged, tip, qa>>
        BY <1>10 DEF RunVisualQAPhase, PhaseInv
    <2> QED
        BY <1>1, <2>1
<1>11. CASE SaveVisualResult
    <2>1. /\ pc = "visualSave" /\ pc' \in {"visualBlock", "visualFix", "review"}
          /\ command = "run"
          /\ UNCHANGED <<status, tasks, merged, tip, qa>>
        BY <1>11 DEF SaveVisualResult, PhaseInv
    <2>2. pc' = "review" => IsSeen'
        BY <1>11 DEF SaveVisualResult, IsSeen, IsBlockingVisualResult, TypeOK
    <2> QED
        BY <1>1, <2>1, <2>2
<1>12. CASE RunReviewGate \/ ReadStaleReview
    <2>1. CASE pc' = "idle" \/ command # "run"
        BY <1>2, <1>12, <2>1 DEF RunReviewGate, ReadStaleReview, AgentIsSilent
    <2>2. CASE pc' # "idle" /\ command = "run"
        <3>1. /\ pc = "review" /\ pc' \in {"qa", "fix"}
              /\ UNCHANGED <<status, tasks, merged, tip, qa, visual, crashes, command>>
              /\ pc' = "qa" => IsReviewed'
            BY <1>12, <2>2
            DEF RunReviewGate, ReadStaleReview, AgentIsSilent, AfterReview, TypeOK,
                ReviewVerdict, IsReviewed
        <3> QED
            BY <1>1, <2>2, <3>1 DEF IsSeen
    <2> QED
        BY <2>1, <2>2
<1>13. CASE AppendFixTasks
    <2>1. FixTask(loop + 1) \in Work
        BY <1>13, NextRound, Items DEF AppendFixTasks
    <2>2. tasks'[GateTask] = tasks[GateTask] /\ status' \in {status, "running"}
        BY <1>13, <2>1, Items, FixTasksDiffer DEF AppendFixTasks, TypeOK
    <2>3. /\ pc = "fix" /\ pc' \in {"fixRecord", "fixRecordNone"} /\ command = "run"
          /\ UNCHANGED <<merged, tip, qa>>
        BY <1>13 DEF AppendFixTasks, PhaseInv
    <2> QED
        BY <1>1, <2>2, <2>3
<1>14. CASE RecordReviewRound
    <2>1. /\ pc \in {"fixRecord", "fixRecordNone"} /\ pc' \in {"block", "loop"}
          /\ command = "run"
          /\ UNCHANGED <<status, tasks, merged, tip, qa>>
        BY <1>14 DEF RecordReviewRound, PhaseInv
    <2> QED
        BY <1>1, <2>1
<1>15. CASE RunQaGate \/ ReadStaleQa
    <2>1. CASE pc' = "idle" \/ command # "run"
        BY <1>2, <1>15, <2>1 DEF RunQaGate, ReadStaleQa, AgentIsSilent
    <2>2. CASE pc' # "idle" /\ command = "run"
        <3>1. /\ pc = "qa" /\ pc' = "qaRecord"
              /\ UNCHANGED <<status, tasks, merged, tip, visual, crashes, command>>
              /\ IsTested' /\ (IsReviewed => IsReviewed')
            BY <1>15, <2>2
            DEF RunQaGate, WriteQa, ReadStaleQa, AgentIsSilent, AfterQa, IsTested, IsReviewed
        <3> QED
            BY <1>1, <2>2, <3>1 DEF IsSeen
    <2> QED
        BY <2>1, <2>2
<1>16. CASE \/ DispatchRound \/ CreateVisualFixes \/ GateThrows \/ BlockWorkflow
            \/ RecordQaPass \/ Crash
    BY <1>2, <1>16 DEF DispatchRound, CreateVisualFixes, GateThrows, BlockWorkflow,
        RecordQaPass, Crash
<1>17. CASE UNCHANGED vars
    BY <1>1, <1>17 DEF vars, IsSeen, IsReviewed, IsTested
<1> QED
    BY NextCases, <1>7, <1>8, <1>9, <1>10, <1>11, <1>12, <1>13, <1>14, <1>15, <1>16, <1>17
    DEF StandaloneGate, RetryByScope, ManualRetryTask, CancelWorkflow, Command

LEMMA PassStandsStep ==
    ASSUME TypeOK, PhaseInv, RoundInv, DoneInv, DoneInv', ApprovalInv, [Next]_vars, Clean'
    PROVE  PassStands'
<1> USE DEF stateFile, branches, reviewFile, gateFiles, approvals, history, Stop, Go
<1>1. Clean /\ Trail /\ PassStands /\ "qa" \notin meddled
    BY CleanBefore DEF ApprovalInv, Clean
<1>2. CASE qa' # "PASS" \/ (status' # "completed" /\ tasks'[GateTask] # "absent")
    BY <1>2 DEF PassStands
<1>3. CASE UNCHANGED <<stateFile, branches, qa, visual, crashes, approvals, silent>>
    BY <1>1, <1>3, PassKept DEF IsReviewed, IsTested
<1>4. RunsGates /\ pc # "qaRecord" =>
        qa # "PASS" \/ (tasks[GateTask] # "absent" /\ status # "completed")
    BY <1>1, NothingPasses DEF ApprovalInv
<1>5. RunsGates /\ pc \in {"qa", "qaRecord"} => AllIntegrated /\ IsReviewed /\ IsSeen
    BY <1>1 DEF DoneInv, Trail, AllIntegrated, AllDone
<1>6. CASE Moves
    BY <1>3, <1>6, MovesEffect
<1>7. ASSUME NEW gate \in {"review", "qa"}, StandaloneGate(gate)
      PROVE  PassStands'
    BY <1>3, <1>7 DEF StandaloneGate, Command
<1>8. qa' = "PASS" /\ status' = DeriveWorkflowStatus(tasks')
          /\ (status' = "completed" \/ tasks'[GateTask] = "absent") =>
        tasks'[GateTask] = "absent"
    <2>1. SUFFICES ASSUME status' = DeriveWorkflowStatus(tasks'), status' = "completed"
          PROVE  tasks'[GateTask] = "absent"
        OBVIOUS
    <2>2. tasks'[GateTask] \in {"absent", "completed"}
        BY <2>1, DerivedStatus, Items
    <2> QED
        BY <2>2 DEF DoneInv
<1>9. ASSUME NEW S \in SUBSET Item, \A i \in S : tasks[i] \notin {"absent", "completed"},
             Reset(S), Command
      PROVE  PassStands'
    <2>1. SUFFICES ASSUME qa' = "PASS", tasks'[GateTask] = "absent"
          PROVE  Vouched'
        BY <1>8, <1>9 DEF PassStands, Reset
    <2>2. /\ tasks' = [i \in Item |-> IF i \in S THEN "pending" ELSE tasks[i]]
          /\ UNCHANGED <<tip, merged, qa, visual, crashes, reviewed, tested, silent>>
        BY <1>9 DEF Reset, Command
    <2>3. tasks[GateTask] = "absent"
        BY <2>1, <2>2, Items
    <2>4. Vouched
        BY <1>1, <2>1, <2>2, <2>3 DEF PassStands
    <2>5. tasks' = tasks
        <3>1. \A i \in S : i \in Work => FALSE
            BY <1>9, <2>4 DEF Vouched, AllIntegrated
        <3>2. S = {}
            BY <1>9, <2>3, <3>1, Items
        <3> QED
            BY <2>2, <3>2 DEF TypeOK
    <2> QED
        BY <2>2, <2>4, <2>5 DEF Vouched, AllIntegrated, IsReviewed, IsTested, IsSeen
<1>10. ASSUME NEW scope \in {"failed", "blocked"}, RetryByScope(scope)
       PROVE  PassStands'
    BY <1>9, <1>10, Items DEF RetryByScope, WithStatus
<1>11. ASSUME NEW i \in Item, NEW force \in BOOLEAN, ManualRetryTask(i, force)
       PROVE  PassStands'
    <2>1. tasks[i] \notin {"absent", "completed"}
        BY <1>11 DEF ManualRetryTask, Clean
    <2> QED
        BY <1>9, <1>11, <2>1 DEF ManualRetryTask
<1>12. ASSUME NEW force \in BOOLEAN, CancelWorkflow(force)
       PROVE  PassStands'
    <2>1. /\ status' = "cancelled"
          /\ UNCHANGED <<tasks, tip, merged, qa, visual, crashes, reviewed, tested, silent>>
        BY <1>12 DEF CancelWorkflow, Command
    <2> QED
        BY <1>1, <2>1
        DEF PassStands, Vouched, AllIntegrated, IsReviewed, IsTested, IsSeen
<1>13. CASE DispatchRound
    <2>1. SUFFICES ASSUME qa' = "PASS", tasks'[GateTask] = "absent"
          PROVE  FALSE
        BY <1>8, <1>13 DEF PassStands, DispatchRound
    <2>2. PICK S, result :
            /\ S \subseteq WithStatus("pending") \cup WithStatus("retry_wait") /\ S # {}
            /\ result \in [S -> {"completed", "failed", "blocked", "retry_wait"}]
            /\ tasks' = [i \in Item |-> IF i \in S THEN result[i] ELSE tasks[i]]
        BY <1>13 DEF DispatchRound
    <2>3. S \subseteq Work /\ S # {} /\ \A i \in S : tasks[i] \in {"pending", "retry_wait"}
        BY <2>2 DEF WithStatus
    <2>4. tasks[GateTask] = "absent"
        BY <2>1, <2>2, <2>3, Items
    <2>5. qa = "PASS"
        BY <1>13, <2>1 DEF DispatchRound
    <2> QED
        BY <1>1, <2>3, <2>4, <2>5 DEF PassStands, Vouched, AllIntegrated
<1>14. CASE RunIntegrationPhase \/ RunVisualQAPhase \/ SaveVisualResult \/ CreateVisualFixes
            \/ AppendFixTasks \/ BlockWorkflow
    <2>1. RunsGates /\ pc # "qaRecord" /\ qa' = qa
        BY <1>14 DEF RunIntegrationPhase, RunVisualQAPhase, SaveVisualResult, CreateVisualFixes,
            AppendFixTasks, BlockWorkflow, PhaseInv, RunsGates, GatePhase
    <2>2. status' = "completed" => status = "completed"
        BY <1>14 DEF RunIntegrationPhase, RunVisualQAPhase, SaveVisualResult, CreateVisualFixes,
            AppendFixTasks, BlockWorkflow
    <2>3. tasks'[GateTask] = tasks[GateTask]
        <3>1. CASE AppendFixTasks
            <4>1. FixTask(loop + 1) \in Work
                BY <3>1, NextRound, Items DEF AppendFixTasks
            <4> QED
                BY <3>1, <4>1, Items, FixTasksDiffer DEF AppendFixTasks, TypeOK
        <3>2. CASE CreateVisualFixes
            BY <3>2, Items, FixTasksDiffer DEF CreateVisualFixes, TypeOK
        <3> QED
            BY <1>14, <3>1, <3>2
            DEF RunIntegrationPhase, RunVisualQAPhase, SaveVisualResult, BlockWorkflow
    <2> QED
        BY <1>2, <1>4, <2>1, <2>2, <2>3
<1>15. CASE pc = "qa" /\ qa' = "PASS" /\ IsTested'
            /\ UNCHANGED <<stateFile, branches, visual, crashes, reviewed, silent>>
    <2>1. RunsGates
        BY <1>1, <1>15 DEF PhaseInv, RunsGates, GatePhase, TypeOK
    <2> QED
        BY <1>5, <1>15, <2>1 DEF PassStands, Vouched, AllIntegrated, IsReviewed, IsSeen
<1>16. CASE GateThrows
    <2>1. CASE pc = "qa" /\ WriteQa
        BY <1>2, <1>15, <1>16, <2>1 DEF GateThrows, WriteQa, IsTested
    <2>2. CASE UNCHANGED <<qa, tested>>
        BY <1>3, <1>16, <2>2 DEF GateThrows
    <2> QED
        BY <1>16, <2>1, <2>2 DEF GateThrows
<1>17. CASE RunReviewGate \/ ReadStaleReview
    <2>1. /\ UNCHANGED <<stateFile, branches, qa, visual, crashes, tested>>
          /\ IsReviewed => IsReviewed'
          /\ IsTested => IsTested'
        BY <1>17 DEF RunReviewGate, ReadStaleReview, AgentIsSilent, IsReviewed, IsTested
    <2> QED
        BY <1>1, <2>1, PassKept
<1>18. CASE RecordReviewRound
    BY <1>3, <1>18 DEF RecordReviewRound
<1>19. CASE RunQaGate
    BY <1>2, <1>15, <1>19 DEF RunQaGate, WriteQa, IsTested
<1>20. CASE ReadStaleQa
    <2>1. pc = "qa" /\ RunsGates /\ UNCHANGED <<stateFile, qa>>
        BY <1>1, <1>20 DEF ReadStaleQa, AgentIsSilent, PhaseInv, RunsGates, GatePhase, TypeOK
    <2> QED
        BY <1>2, <1>4, <2>1
<1>21. CASE RecordQaPass
    <2>1. /\ RunsGates /\ pc = "qaRecord"
          /\ UNCHANGED <<tasks, branches, visual, crashes, approvals, silent>>
        BY <1>1, <1>21 DEF RecordQaPass, PhaseInv, RunsGates, GatePhase, TypeOK
    <2>2. IsTested
        BY <1>1, <2>1 DEF Trail
    <2> QED
        BY <1>5, <2>1, <2>2 DEF PassStands, Vouched, AllIntegrated, IsReviewed, IsTested, IsSeen
<1>22. CASE Crash
    <2>1. /\ crashes' > 0
          /\ UNCHANGED <<stateFile, branches, qa, visual, approvals, silent>>
        BY <1>22, GatesAssumption DEF Crash, TypeOK
    <2> QED
        BY <1>1, <2>1 DEF PassStands, Vouched, AllIntegrated, IsReviewed, IsTested, IsSeen
<1>23. CASE UNCHANGED vars
    BY <1>3, <1>23 DEF vars
<1> QED
    BY NextCases, <1>6, <1>7, <1>10, <1>11, <1>12, <1>13, <1>14, <1>16, <1>17, <1>18, <1>19,
       <1>20, <1>21, <1>22, <1>23

LEMMA ApprovalStep ==
    ASSUME TypeOK, PhaseInv, RoundInv, VisualInv, DoneInv, DoneInv', ApprovalInv, [Next]_vars
    PROVE  ApprovalInv'
BY TrailStep, PassStandsStep DEF ApprovalInv

LEMMA CompletionStep ==
    ASSUME TypeOK, PhaseInv, DoneInv, ApprovalInv, CompletionApproved, [Next]_vars
    PROVE  CompletionApproved'
<1>1. CASE UNCHANGED vars
    BY <1>1 DEF vars, CompletionApproved, AllIntegrated, IsBlockingVisualResult
<1>2. CASE AlreadyCompleted
    BY <1>2
    DEF AlreadyCompleted, HasPassingQaResult, ApprovalInv, PassStands, Clean, Vouched,
        IsReviewed, IsTested, IsSeen, CompletionApproved, AllIntegrated,
        IsBlockingVisualResult, stateFile, branches, gateFiles, approvals, history
<1>3. CASE RecordQaPass /\ command = "run"
    <2>1. SUFFICES ASSUME Clean, UNCHANGED <<tasks, branches, visual, crashes, approvals, silent>>
          PROVE  Vouched
        BY <1>3
        DEF RecordQaPass, CompletionApproved, Clean, Vouched, AllIntegrated, IsReviewed,
            IsTested, IsSeen, IsBlockingVisualResult, branches, gateFiles, approvals, history
    <2>2. RunsGates /\ pc = "qaRecord"
        BY <1>3 DEF RecordQaPass, RunsGates, GatePhase
    <2>3. AllDone
        BY <2>1, <2>2 DEF DoneInv, Clean
    <2> QED
        BY <2>1, <2>2, <2>3 DEF ApprovalInv, Trail, Vouched, AllIntegrated, AllDone
<1> QED
    BY <1>1, <1>2, <1>3, OutcomeStep DEF CompletionApproved

-----------------------------------------------------------------------------
(* The theorems.                                                           *)

LEMMA GatesInit == Init => GatesInv
<1>1. Init => ExhaustionInv /\ ExhaustionIsReal /\ CompletionApproved
    BY DEF Init, ExhaustionInv, ExhaustionIsReal, CompletionApproved
<1> QED
    BY <1>1, TypeInit, PhaseInit, RoundInit, VisualInit, DoneInit, ApprovalInit DEF GatesInv

LEMMA GatesStep == GatesInv /\ [Next]_vars => GatesInv'
<1> SUFFICES ASSUME GatesInv, [Next]_vars PROVE GatesInv'
    OBVIOUS
<1> USE DEF GatesInv
<1>1. TypeOK'
    BY TypeStep
<1>2. PhaseInv' /\ VisualInv'
    BY PhaseStep, VisualStep
<1>3. RoundInv'
    BY <1>1, RoundStep
<1>4. DoneInv'
    BY DoneStep
<1>5. ExhaustionInv' /\ ExhaustionIsReal'
    BY ExhaustionStep, ExhaustionRealStep
<1>6. ApprovalInv' /\ CompletionApproved'
    BY <1>4, ApprovalStep, CompletionStep
<1> QED
    BY <1>1, <1>2, <1>3, <1>4, <1>5, <1>6

\* What the loop of runWorkflowUntilPause and the commands beside it rely on, wherever
\* a command starts, ends or dies (orchestrator.ts, gates-service.ts).
THEOREM GatesInvariant == Spec => []GatesInv
BY GatesInit, GatesStep, PTL DEF Spec

\* Round, iteration, commands and crashes keep to their bounds: no fix task beyond
\* those a workflow may come to have is appended (orchestrator.ts
\* runQualityGates, review-loop.ts).
THEOREM GatesTypes == Spec => []TypeOK
<1>1. GatesInv => TypeOK
    BY DEF GatesInv
<1> QED
    BY <1>1, GatesInvariant, PTL

\* No fix task of a round beyond max_review_rounds is executed, but for one round
\* for each crash and each command (orchestrator.ts runQualityGates).
THEOREM RoundsAreBounded == Spec => []FixRoundsBounded
<1>1. GatesInv => FixRoundsBounded
    BY DEF GatesInv, RoundInv, FixRoundsBounded, Limit, LimitOf
<1> QED
    BY <1>1, GatesInvariant, PTL

\* A run that never crashed and says that the review rounds are used up is right
\* (orchestrator.ts runQualityGates, applyReviewFixRound).
THEOREM ExhaustionHolds == Spec => []ExhaustionIsReal
<1>1. GatesInv => ExhaustionIsReal
    BY DEF GatesInv
<1> QED
    BY <1>1, GatesInvariant, PTL

\* A run that says "completed" stands for work that is done, integrated, reviewed
\* and tested (orchestrator.ts runWorkflowUntilPause).
THEOREM CompletionIsApproved == Spec => []CompletionApproved
<1>1. GatesInv => CompletionApproved
    BY DEF GatesInv
<1> QED
    BY <1>1, GatesInvariant, PTL

-----------------------------------------------------------------------------
(* Every command runs down. That some step is taken in the end is fairness *)
(* (RunPauses, which TLC checks); that the loop between fixes, Visual QA   *)
(* and the gates cannot go round for ever is safety, and proved here.      *)

\* The tasks a scheduling round may claim.
Waiting == WithStatus("pending") \cup WithStatus("retry_wait")

RoundsLeft == IF loop < MaxReviewRounds THEN MaxReviewRounds - loop ELSE 0

\* An iteration is used up when its fixes, if any, are on their way.
IterationsUsed ==
    IF pc \in {"visualSave", "visualFix"} THEN visual.iterations - 1 ELSE visual.iterations

IterationsLeft ==
    IF IterationsUsed < MaxIterations THEN MaxIterations - IterationsUsed ELSE 0

\* How often the command may still come back to the scheduler with new fixes.
PassesLeft == RoundsLeft + IterationsLeft

\* How far it is from its end, or from its way back.
StepsLeft ==
    CASE pc = "loop" -> 9
      [] pc = "integrate" -> 8
      [] pc = "visual" -> 7
      [] pc = "visualSave" -> 6
      [] pc = "review" -> 5
      [] pc = "fix" -> 4
      [] pc \in {"fixRecord", "fixRecordNone"} -> 3
      [] pc \in {"qa", "visualFix"} -> 2
      [] pc \in {"block", "visualBlock", "qaRecord"} -> 1
      [] pc = "idle" -> 0

\* A pass less; or the same passes and a step less; or another round of the
\* scheduler, with fewer tasks that wait.
Closer ==
    \/ PassesLeft' < PassesLeft
    \/ PassesLeft' = PassesLeft /\ StepsLeft' < StepsLeft
    \/ /\ PassesLeft' = PassesLeft /\ StepsLeft' = StepsLeft
       /\ Waiting' \subseteq Waiting /\ Waiting' # Waiting

\* Whatever the agents answer, however dispatches end and wherever a stale result is
\* read: a step that does not end the command brings it closer to its end.
CommandsRunDown == [][pc # "idle" /\ pc' # "idle" => Closer]_vars

LEMMA PassesAreNumbers ==
    ASSUME TypeOK
    PROVE  RoundsLeft \in Nat /\ IterationsLeft \in Nat
BY GatesAssumption DEF TypeOK, RoundsLeft, IterationsLeft, IterationsUsed, Round

LEMMA FewerPasses ==
    \A r, i, r2, i2 \in Nat :
        /\ r2 = r /\ i2 <= i => r2 + i2 < r + i \/ r2 + i2 = r + i
        /\ r2 <= r /\ i2 = i => r2 + i2 < r + i \/ r2 + i2 = r + i
        /\ r2 = r /\ i2 < i => r2 + i2 < r + i
        /\ r2 < r /\ i2 = i => r2 + i2 < r + i
OBVIOUS

\* Where round and iterations stay, so do the passes.
LEMMA PassesKept ==
    ASSUME UNCHANGED <<loop, visual>>,
           pc \in {"visualSave", "visualFix"} <=> pc' \in {"visualSave", "visualFix"}
    PROVE  PassesLeft' = PassesLeft
BY DEF PassesLeft, RoundsLeft, IterationsLeft, IterationsUsed

\* A step that goes on to what comes later.
LEMMA OnwardIsCloser ==
    ASSUME UNCHANGED <<loop, visual>>, pc' # "idle",
           \/ pc = "loop" /\ pc' = "integrate"
           \/ pc = "integrate" /\ pc' = "visual"
           \/ pc = "visual" /\ pc' \in {"visualBlock", "review"}
           \/ pc = "review" /\ pc' \in {"qa", "fix"}
           \/ pc = "fix" /\ pc' \in {"fixRecord", "fixRecordNone", "block"}
           \/ pc = "qa" /\ pc' = "qaRecord"
    PROVE  Closer
<1>1. PassesLeft' = PassesLeft
    BY PassesKept
<1>2. StepsLeft' < StepsLeft
    BY DEF StepsLeft
<1> QED
    BY <1>1, <1>2 DEF Closer

\* A round of the scheduler that does not end the run: what it claimed waits no
\* more.
LEMMA DispatchIsCloser ==
    ASSUME TypeOK, DispatchRound, pc' # "idle"
    PROVE  Closer
<1>1. PICK S \in (SUBSET (WithStatus("pending") \cup WithStatus("retry_wait"))) \ {{}} :
        \E result \in [S -> {"completed", "failed", "blocked", "retry_wait"}] :
            /\ tasks' = [i \in Item |-> IF i \in S THEN result[i] ELSE tasks[i]]
            /\ IF \E i \in S : result[i] = "retry_wait"
               THEN Stop("retry_scheduled") ELSE Go("loop")
    BY DEF DispatchRound
<1>2. PICK result \in [S -> {"completed", "failed", "blocked", "retry_wait"}] :
        /\ tasks' = [i \in Item |-> IF i \in S THEN result[i] ELSE tasks[i]]
        /\ IF \E i \in S : result[i] = "retry_wait"
           THEN Stop("retry_scheduled") ELSE Go("loop")
    BY <1>1
<1>3. pc = "loop" /\ pc' = "loop" /\ \A i \in S : result[i] # "retry_wait"
    BY <1>2 DEF DispatchRound, Schedules, Stop, Go
<1>4. S \subseteq Waiting /\ S # {} /\ S \subseteq Item /\ Waiting \subseteq Work
    BY <1>1, Items DEF Waiting, WithStatus
<1>5. \A i \in Work : tasks'[i] = IF i \in S THEN result[i] ELSE tasks[i]
    BY <1>2, Items
<1>6. Waiting = {i \in Work : tasks[i] \in {"pending", "retry_wait"}}
      /\ Waiting' = {i \in Work : tasks'[i] \in {"pending", "retry_wait"}}
    BY DEF Waiting, WithStatus
<1>7. \A i \in S : result[i] \notin {"pending", "retry_wait"}
    BY <1>2, <1>3
<1>8. Waiting' \subseteq Waiting /\ S \cap Waiting' = {}
    BY <1>4, <1>5, <1>6, <1>7
<1>9. UNCHANGED <<loop, visual>>
    BY DEF DispatchRound, gateFiles
<1>10. PassesLeft' = PassesLeft /\ StepsLeft' = StepsLeft
    BY <1>3, <1>9, PassesKept DEF StepsLeft
<1> QED
    BY <1>4, <1>8, <1>10 DEF Closer

\* An iteration uses up a pass, or there is none left to use.
LEMMA VisualIsCloser ==
    ASSUME TypeOK, VisualInv, RunVisualQAPhase
    PROVE  Closer
<1>1. pc = "visual" /\ pc' = "visualSave" /\ loop' = loop
    BY DEF RunVisualQAPhase, Go
<1>2. visual'.iterations = visual.iterations + 1 /\ visual.iterations \in Nat
    BY GatesAssumption DEF RunVisualQAPhase, TypeOK
<1>3. IterationsLeft' = IterationsLeft
    BY <1>1, <1>2, GatesAssumption DEF IterationsLeft, IterationsUsed
<1>4. PassesLeft' = PassesLeft /\ StepsLeft' < StepsLeft
    BY <1>1, <1>3 DEF PassesLeft, RoundsLeft, StepsLeft
<1> QED
    BY <1>4 DEF Closer

\* Its result is saved: the way goes on to the review, or to fixes.
LEMMA SavingIsCloser ==
    ASSUME TypeOK, VisualInv, SaveVisualResult
    PROVE  Closer
<1>1. /\ pc = "visualSave" /\ pc' \in {"visualBlock", "visualFix", "review"}
      /\ loop' = loop
    BY DEF SaveVisualResult, Go
<1>2. visual'.iterations = visual.iterations /\ visual.iterations \in Nat \ {0}
    BY <1>1, GatesAssumption DEF SaveVisualResult, TypeOK, VisualInv
<1>3. StepsLeft' < StepsLeft
    BY <1>1 DEF StepsLeft
<1>4. RoundsLeft' = RoundsLeft /\ RoundsLeft \in Nat
    BY <1>1, PassesAreNumbers DEF RoundsLeft
<1>5. IterationsLeft' <= IterationsLeft /\ IterationsLeft' \in Nat /\ IterationsLeft \in Nat
    BY <1>1, <1>2, GatesAssumption DEF IterationsLeft, IterationsUsed
<1>6. PassesLeft' < PassesLeft \/ PassesLeft' = PassesLeft
    BY <1>4, <1>5, FewerPasses, Zenon DEF PassesLeft
<1> QED
    BY <1>3, <1>6 DEF Closer

\* The fixes of an iteration lead back to the scheduler: a pass less.
LEMMA FixingIsCloser ==
    ASSUME TypeOK, VisualInv, CreateVisualFixes
    PROVE  Closer
<1>1. pc = "visualFix" /\ pc' = "loop" /\ loop' = loop /\ visual' = visual
    BY DEF CreateVisualFixes, Go, gateFiles
<1>2. visual.iterations \in 1 .. MaxIterations
    BY <1>1 DEF VisualInv
<1>3. IterationsLeft' < IterationsLeft /\ IterationsLeft' \in Nat /\ IterationsLeft \in Nat
    BY <1>1, <1>2, GatesAssumption DEF IterationsLeft, IterationsUsed
<1>4. RoundsLeft' = RoundsLeft /\ RoundsLeft \in Nat
    BY <1>1, PassesAreNumbers DEF RoundsLeft
<1> QED
    BY <1>3, <1>4, FewerPasses, Zenon DEF Closer, PassesLeft

\* So do those of a review round, which is a round less; beyond the last round the
\* workflow is blocked.
LEMMA RecordingIsCloser ==
    ASSUME TypeOK, RecordReviewRound
    PROVE  Closer
<1>1. /\ pc \in {"fixRecord", "fixRecordNone"}
      /\ loop' = loop + 1 /\ visual' = visual
      /\ pc' \in {"block", "loop"}
      /\ pc' = "loop" => loop' <= MaxReviewRounds
    <2>1. loop' = loop + 1 /\ loop \in Nat
        BY GatesAssumption DEF RecordReviewRound, SaveReviewLoopState, TypeOK, Round
    <2> QED
        BY <2>1, GatesAssumption DEF RecordReviewRound, Go
<1>2. loop \in Nat
    BY GatesAssumption DEF TypeOK, Round
<1>3. IterationsLeft' = IterationsLeft /\ IterationsLeft \in Nat
    BY <1>1, PassesAreNumbers DEF IterationsLeft, IterationsUsed
<1>4. CASE pc' = "loop"
    <2>1. RoundsLeft' < RoundsLeft /\ RoundsLeft' \in Nat /\ RoundsLeft \in Nat
        BY <1>1, <1>2, <1>4, GatesAssumption DEF RoundsLeft
    <2> QED
        BY <1>3, <2>1, FewerPasses, Zenon DEF Closer, PassesLeft
<1>5. CASE pc' = "block"
    <2>1. RoundsLeft' <= RoundsLeft /\ RoundsLeft' \in Nat /\ RoundsLeft \in Nat
        BY <1>1, <1>2, <1>5, GatesAssumption DEF RoundsLeft
    <2>2. PassesLeft' < PassesLeft \/ PassesLeft' = PassesLeft
        BY <1>3, <2>1, FewerPasses, Zenon DEF PassesLeft
    <2>3. StepsLeft' < StepsLeft
        BY <1>1, <1>5 DEF StepsLeft
    <2> QED
        BY <2>2, <2>3 DEF Closer
<1> QED
    BY <1>1, <1>4, <1>5

LEMMA StepsAreCloser ==
    ASSUME GatesInv, [Next]_vars, pc # "idle", pc' # "idle", vars' # vars
    PROVE  Closer
<1>0. TypeOK /\ VisualInv
    BY DEF GatesInv
<1>1. CASE Moves
    <2>1. UNCHANGED <<loop, visual>>
        BY <1>1, MovesEffect DEF gateFiles
    <2>2. \/ pc = "loop" /\ pc' = "integrate"
          \/ pc = "visual" /\ pc' \in {"visualBlock", "review"}
          \/ pc = "fix" /\ pc' = "block"
        BY <1>1 DEF Moves, StartRun, AlreadyCompleted, WasCancelled, Interrupted,
            SafetyBound, StartGates, NothingClaimed, VisualQADone, ReviewUnchanged,
            Schedules, Stop, Go
    <2> QED
        BY <2>1, <2>2, OnwardIsCloser
<1>2. ~ Command
    BY DEF Command
<1>3. CASE \/ \E gate \in {"review", "qa"} : StandaloneGate(gate)
           \/ \E scope \in {"failed", "blocked"} : RetryByScope(scope)
           \/ \E i \in Item, force \in BOOLEAN : ManualRetryTask(i, force)
           \/ \E force \in BOOLEAN : CancelWorkflow(force)
    BY <1>2, <1>3 DEF StandaloneGate, RetryByScope, ManualRetryTask, CancelWorkflow
<1>4. CASE DispatchRound
    BY <1>0, <1>4, DispatchIsCloser
<1>5. CASE RunIntegrationPhase
    BY <1>5, OnwardIsCloser DEF RunIntegrationPhase, Go, gateFiles
<1>6. CASE RunVisualQAPhase
    BY <1>0, <1>6, VisualIsCloser
<1>7. CASE SaveVisualResult
    BY <1>0, <1>7, SavingIsCloser
<1>8. CASE CreateVisualFixes
    BY <1>0, <1>8, FixingIsCloser
<1>9. CASE GateThrows \/ BlockWorkflow \/ RecordQaPass \/ Crash
    BY <1>9 DEF GateThrows, BlockWorkflow, RecordQaPass, Crash, Stop
<1>10. CASE RunReviewGate \/ ReadStaleReview
    <2>1. pc = "review" /\ UNCHANGED <<loop, visual>>
        BY <1>10 DEF RunReviewGate, ReadStaleReview, AgentIsSilent, gateFiles
    <2>2. PICK verdict \in ReviewVerdict : AfterReview(verdict)
        BY <1>0, <1>10 DEF RunReviewGate, ReadStaleReview, TypeOK
    <2>3. pc' \in {"qa", "fix"}
        BY <2>2 DEF AfterReview, ReviewVerdict, Stop, Go
    <2> QED
        BY <2>1, <2>3, OnwardIsCloser
<1>11. CASE AppendFixTasks
    BY <1>11, OnwardIsCloser DEF AppendFixTasks, Go, gateFiles
<1>12. CASE RecordReviewRound
    BY <1>0, <1>12, RecordingIsCloser
<1>13. CASE RunQaGate \/ ReadStaleQa
    <2>1. pc = "qa" /\ UNCHANGED <<loop, visual>> /\ pc' = "qaRecord"
        BY <1>13 DEF RunQaGate, ReadStaleQa, AgentIsSilent, AfterQa, gateFiles, Stop, Go
    <2> QED
        BY <2>1, OnwardIsCloser
<1> QED
    BY NextCases, <1>1, <1>3, <1>4, <1>5, <1>6, <1>7, <1>8, <1>9, <1>10, <1>11, <1>12, <1>13

\* No command goes round for ever, whatever the gates say and the agents do
\* (orchestrator.ts runWorkflowUntilPause, runQualityGates, runVisualQAPhase), and
\* that without the safety bound on the loop's iterations.
THEOREM CommandsComeCloser == Spec => CommandsRunDown
<1>1. GatesInv /\ [Next]_vars => [pc # "idle" /\ pc' # "idle" => Closer]_vars
    BY StepsAreCloser
<1> QED
    BY <1>1, GatesInvariant, PTL DEF Spec, CommandsRunDown
=============================================================================
