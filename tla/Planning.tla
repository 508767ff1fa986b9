------------------------------ MODULE Planning ------------------------------
(***************************************************************************)
(* planWorkflow: from a request, or from a file, to a task graph that      *)
(* workflows can be created from. An optional designer and then the        *)
(* planner are called; a failed call is retried as RetryPolicy says, an    *)
(* answer without a valid plan is rejected and asked for again. An answer  *)
(* holds any number of JSON objects, of which the first valid plan counts; *)
(* whether a plan is valid is found out by GraphValidation, step by step,  *)
(* and by the rules that follow it in validatePlannerPlan.                 *)
(***************************************************************************)
EXTENDS GraphAnalysis, RetryPolicy

CONSTANTS
    NotAPlan,           \* an object that normalization or the schema refuses
    Answers,            \* what the planner may answer: sequences of objects
    Failures,           \* how a call may fail
    KnownCapabilities,  \* getKnownCapabilities of team.yaml
    MaxTransport,       \* retry.max_attempts
    Delays,             \* what retry.base_delay_ms and retry.max_delay_ms may be
    Jitter              \* retry.jitter

\* resolveProviderConfig refuses any other retry configuration; it takes each
\* number for itself, so that the base delay may be above the cap.
ASSUME RetryAssumption ==
    /\ MaxTransport \in Nat \ {0}
    /\ Delays \subseteq [base : Nat \ {0}, max : Nat \ {0}]
    /\ Jitter \in BOOLEAN

\* No pattern stands for a kind without a rule, and a hint is a number of seconds.
ASSUME AnswersAssumption ==
    /\ Answers \subseteq Seq(Graphs \cup {NotAPlan})
    /\ \A f \in Failures :
        /\ f.text \subseteq {TextRules[i] : i \in DOMAIN TextRules}
        /\ f.hint \subseteq Nat

VARIABLES
    delays,     \* the configured delays
    mode,       \* import a plan file, or call the planner, or first the designer
    pc,         \* where planWorkflow is
    attempt,    \* the attempt of the agent that is called
    transport,  \* the attempt of the call
    failure,    \* the last failed call
    wait,       \* the delay before the call that follows it
    answer,     \* the objects of the last answer
    rest,       \* those still to be tried
    plan,       \* plannerResult.tasks
    calls,      \* calls[a]: how often agent a was called
    entries,    \* entries[a]: the entries of its diagnostics
    saved,      \* saved[a]: how many of them are in its diagnostics file
    files       \* the other files of the plan's directory

control == <<delays, mode, pc, attempt, transport, failure, wait, answer, rest, plan>>
record == <<calls, entries, saved, files>>
vars == <<search, control, record>>

BaseDelay == delays.base
MaxDelay == delays.max

Agent == {"designer", "planner"}
Mode == {"import", "plan", "design_and_plan"}
Failed == {"failed", "spawn_failed"}
PC == {"start", "design", "prompt", "parse", "validate", "write", "done"} \cup Failed

AttemptLimit == 3
NoFailure == [text |-> {}, hint |-> {}]

TypeOK ==
    /\ delays \in Delays /\ mode \in Mode /\ pc \in PC
    /\ attempt \in 1 .. AttemptLimit /\ transport \in 1 .. MaxTransport
    /\ failure \in Failures \cup {NoFailure} /\ wait \in Nat
    /\ answer \in Answers \cup {<<>>} /\ Len(rest) <= Len(answer)
    /\ plan \in Graphs \cup {<<>>} /\ tasks \in Graphs \cup {<<>>}
    /\ verdict \in Verdict /\ Visiting \cup Visited \subseteq Ids(tasks)
    /\ root \in 1 .. Len(tasks) + 1
    /\ calls \in [Agent -> Nat] /\ entries \in [Agent -> Nat] /\ saved \in [Agent -> Nat]

Init ==
    /\ NothingValidated
    /\ delays \in Delays
    /\ mode \in Mode
    /\ pc = "start"
    /\ attempt = 1 /\ transport = 1
    /\ failure = NoFailure /\ wait = 0
    /\ answer = <<>> /\ rest = <<>> /\ plan = <<>>
    /\ calls = [a \in Agent |-> 0]
    /\ entries = [a \in Agent |-> 0]
    /\ saved = [a \in Agent |-> 0]
    /\ files = {}

\* diagnostics.push, and writeJson of the agent's diagnostics file.
Note(a) == entries' = [entries EXCEPT ![a] = @ + 1] /\ UNCHANGED saved
NoteAndSave(a) ==
    /\ entries' = [entries EXCEPT ![a] = @ + 1]
    /\ saved' = [saved EXCEPT ![a] = entries[a] + 1]

Call(a) == calls' = [calls EXCEPT ![a] = @ + 1]

-----------------------------------------------------------------------------
\* Calling the agents.

ReadPlanFile ==
    /\ pc = "start" /\ mode = "import"
    /\ \E a \in Answers : answer' = a /\ rest' = a
    /\ pc' = "parse"
    /\ UNCHANGED <<search, delays, mode, attempt, transport, failure, wait, plan, record>>

StartPlanning ==
    /\ pc = "start" /\ mode # "import"
    /\ pc' = IF mode = "design_and_plan" THEN "design" ELSE "prompt"
    /\ UNCHANGED <<search, delays, mode, attempt, transport, failure, wait, answer, rest, plan,
                   record>>

\* createDesignSpec; no call of the designer is repeated for a failed transport.
DesignerAnswers ==
    /\ pc = "design"
    /\ Call("designer") /\ NoteAndSave("designer")
    /\ \/ /\ pc' = "prompt" /\ attempt' = 1
          /\ files' = files \cup {"uiux-design-spec"}
       \/ /\ attempt < AttemptLimit
          /\ attempt' = attempt + 1
          /\ UNCHANGED <<pc, files>>
       \/ /\ attempt = AttemptLimit
          /\ pc' = "failed"
          /\ UNCHANGED <<attempt, files>>
    /\ UNCHANGED <<search, delays, mode, transport, failure, wait, answer, rest, plan>>

DesignerFails ==
    /\ pc = "design"
    /\ Call("designer") /\ NoteAndSave("designer")
    /\ pc' = "failed"
    /\ UNCHANGED <<search, delays, mode, attempt, transport, failure, wait, answer, rest, plan,
                   files>>

\* runPrompt rejects: the agent's process could not be started.
SpawnFails ==
    /\ \/ pc = "design" /\ Call("designer")
       \/ pc = "prompt" /\ Call("planner")
    /\ pc' = "spawn_failed"
    /\ UNCHANGED <<search, delays, mode, attempt, transport, failure, wait, answer, rest, plan,
                   entries, saved, files>>

\* An exit code other than 0. Where the configured delays do not fit, there is no
\* delay to wait for and the error of calculateRetryDelay ends planning.
PromptFails(f) ==
    /\ pc = "prompt"
    /\ Call("planner") /\ NoteAndSave("planner")
    /\ failure' = f
    /\ IF /\ IsRetryableKind(ClassifyProviderFailure(f))
          /\ transport < MaxTransport
          /\ DelaysFit(BaseDelay, MaxDelay)
       THEN /\ wait' \in RetryDelays(transport, f.hint, BaseDelay, MaxDelay, Jitter)
            /\ transport' = transport + 1
            /\ UNCHANGED pc
       ELSE /\ pc' = "failed"
            /\ UNCHANGED <<wait, transport>>
    /\ UNCHANGED <<search, delays, mode, attempt, answer, rest, plan, files>>

PromptAnswers ==
    /\ pc = "prompt"
    /\ Call("planner")
    /\ \E a \in Answers : answer' = a /\ rest' = a
    /\ pc' = "parse"
    /\ UNCHANGED <<search, delays, mode, attempt, transport, failure, wait, plan, entries,
                   saved, files>>

-----------------------------------------------------------------------------
\* parsePlannerOutput: the first object that is a valid plan.

\* What validatePlannerPlan asks of a graph besides its semantics. The agents
\* are those of the orchestration's own phases.
IsPlannable(ts) ==
    \A i \in DOMAIN ts :
        /\ ts[i].agent \notin {"uiux-designer", "reviewer", "qa"}
        /\ ts[i].capabilities \subseteq KnownCapabilities

\* Mutant: the loop over the candidates does not go on after a malformed one.
SkipNothing ==
    /\ pc = "parse" /\ rest # <<>>
    /\ Head(rest) = NotAPlan
    /\ UNCHANGED vars

SkipObject ==
    /\ pc = "parse" /\ rest # <<>>
    /\ Head(rest) = NotAPlan
    /\ rest' = Tail(rest)
    /\ UNCHANGED <<search, delays, mode, pc, attempt, transport, failure, wait, answer, plan,
                   record>>

\* Mutant: `visited` is kept from one candidate to the next.
TryObjectStale ==
    /\ pc = "parse" /\ rest # <<>>
    /\ Head(rest) # NotAPlan
    /\ tasks' = Head(rest) /\ root' = 1 /\ stack' = <<>> /\ UNCHANGED visited
    /\ verdict' = IF IsWellFormed(Head(rest)) THEN "running" ELSE "malformed"
    /\ pc' = "validate"
    /\ UNCHANGED <<delays, mode, attempt, transport, failure, wait, answer, rest, plan, record>>

TryObject ==
    /\ pc = "parse" /\ rest # <<>>
    /\ Head(rest) # NotAPlan
    /\ Begin(Head(rest))
    /\ pc' = "validate"
    /\ UNCHANGED <<delays, mode, attempt, transport, failure, wait, answer, rest, plan, record>>

Validate ==
    /\ pc = "validate"
    /\ Search
    /\ UNCHANGED <<control, record>>

RefuseObject ==
    /\ pc = "validate"
    /\ \/ verdict \in {"malformed", "cycle"}
       \/ verdict = "accepted" /\ ~ IsPlannable(tasks)
    /\ rest' = Tail(rest)
    /\ pc' = "parse"
    /\ UNCHANGED <<search, delays, mode, attempt, transport, failure, wait, answer, plan, record>>

\* Mutant: the rules of validatePlannerPlan beyond the graph are left out.
AcceptAnyGraph ==
    /\ pc = "validate"
    /\ verdict = "accepted"
    /\ plan' = tasks
    /\ pc' = "write"
    /\ IF mode = "import" THEN UNCHANGED <<entries, saved>> ELSE NoteAndSave("planner")
    /\ UNCHANGED <<search, delays, mode, attempt, transport, failure, wait, answer, rest,
                   calls, files>>

\* The plan whose goal and type were replaced by the request's is validated
\* once more; its tasks are the same.
AcceptObject ==
    /\ pc = "validate"
    /\ verdict = "accepted" /\ IsPlannable(tasks)
    /\ plan' = tasks
    /\ pc' = "write"
    /\ IF mode = "import" THEN UNCHANGED <<entries, saved>> ELSE NoteAndSave("planner")
    /\ UNCHANGED <<search, delays, mode, attempt, transport, failure, wait, answer, rest,
                   calls, files>>

RejectPlanFile ==
    /\ pc = "parse" /\ rest = <<>> /\ mode = "import"
    /\ pc' = "failed"
    /\ UNCHANGED <<search, delays, mode, attempt, transport, failure, wait, answer, rest, plan,
                   record>>

\* Mutant: one attempt too many.
RejectAnswerOnceMore ==
    /\ pc = "parse" /\ rest = <<>> /\ mode # "import"
    /\ IF attempt <= AttemptLimit
       THEN /\ attempt' = attempt + 1
            /\ transport' = 1
            /\ pc' = "prompt"
            /\ Note("planner")
       ELSE /\ pc' = "failed"
            /\ NoteAndSave("planner")
            /\ UNCHANGED <<attempt, transport>>
    /\ files' = files \cup {"planner-attempt.raw"}
    /\ UNCHANGED <<search, delays, mode, failure, wait, answer, rest, plan, calls>>

\* Mutant: the error leaves before the diagnostics are written.
RejectAnswerUnsaved ==
    /\ pc = "parse" /\ rest = <<>> /\ mode # "import"
    /\ IF attempt < AttemptLimit
       THEN /\ attempt' = attempt + 1
            /\ transport' = 1
            /\ pc' = "prompt"
       ELSE /\ pc' = "failed"
            /\ UNCHANGED <<attempt, transport>>
    /\ Note("planner")
    /\ files' = files \cup {"planner-attempt.raw"}
    /\ UNCHANGED <<search, delays, mode, failure, wait, answer, rest, plan, calls>>

RejectAnswer ==
    /\ pc = "parse" /\ rest = <<>> /\ mode # "import"
    /\ IF attempt < AttemptLimit
       THEN /\ attempt' = attempt + 1
            /\ transport' = 1
            /\ pc' = "prompt"
            /\ Note("planner")
       ELSE /\ pc' = "failed"
            /\ NoteAndSave("planner")
            /\ UNCHANGED <<attempt, transport>>
    /\ files' = files \cup {"planner-attempt.raw"}
    /\ UNCHANGED <<search, delays, mode, failure, wait, answer, rest, plan, calls>>

SavePlan ==
    /\ pc = "write"
    /\ pc' = "done"
    /\ files' = files \cup {"planner-result.raw", "planner-result", "task-graph"}
    /\ UNCHANGED <<search, delays, mode, attempt, transport, failure, wait, answer, rest, plan,
                   calls, entries, saved>>

-----------------------------------------------------------------------------

Ended == pc \in Failed \cup {"done"} /\ UNCHANGED vars

Next ==
    \/ ReadPlanFile \/ StartPlanning
    \/ DesignerAnswers \/ DesignerFails \/ SpawnFails
    \/ (\E f \in Failures : PromptFails(f)) \/ PromptAnswers
    \/ SkipObject \/ TryObject \/ Validate \/ RefuseObject \/ AcceptObject
    \/ RejectPlanFile \/ RejectAnswer \/ SavePlan
    \/ Ended

\* planWorkflow runs on; that a called agent ends is assumed.
Spec == Init /\ [][Next]_vars /\ WF_vars(Next)

-----------------------------------------------------------------------------
\* Properties.

\* Whether a graph can be worked off, with no search: whatever tasks are left, one
\* of them depends on none of them.
IsAcyclic(ts) ==
    \A S \in SUBSET Ids(ts) : S # {} => \E id \in S : DependsOn(ts, id) \cap S = {}

IsValidPlan(object) ==
    object # NotAPlan /\ IsWellFormed(object) /\ IsAcyclic(object) /\ IsPlannable(object)

Tried == Len(answer) - Len(rest)

\* The plan is the first valid one of the last answer, whatever else the
\* answer contains: no invalid plan passes, and none that is valid is passed over
\* or costs the planner an attempt (parsePlannerOutput with the validators it
\* calls).
FirstValidWins ==
    /\ pc \in {"write", "done"} => IsValidPlan(plan) /\ plan = answer[Tried + 1]
    /\ pc \in {"parse", "validate", "write", "done"} =>
           \A k \in 1 .. Tried : ~ IsValidPlan(answer[k])

\* The report on the plan is a schedule of it (analyzeTaskGraph).
ReportIsSchedule == pc = "done" => IsSchedule(AnalyzeTaskGraph(plan), plan)

\* "Diagnostics are persisted for planning failures" (README.md:693): when
\* planning fails, the diagnostics file has an entry for every call of the agent, also of
\* those whose answer was only noted in memory. A process that could not be
\* started is not covered: its error leaves planWorkflow before anything is written.
FailureIsDiagnosed ==
    pc = "failed" => \A a \in Agent : saved[a] = calls[a]

\* The kinds of failure that pass by themselves.
IsTransient(f) ==
    \/ f.text \cap {"rate_limit", "unavailable", "capacity", "timeout", "network"} # {}
    \/ f.text = {} /\ f.hint # {}

\* A call is repeated exactly if its failure is transient, the budget of this attempt
\* has a call left and the configured cap is not below the base delay, also when the text
\* of the failure speaks of several things. Every attempt has the whole budget
\* (the loops of planWorkflow; calculateRetryDelay throws for such a cap, so that the
\* first transient failure ends planning, whatever budget is left).
RetriesOnlyTransient ==
    [][/\ pc = "prompt" /\ pc' = "failed" =>
              transport = MaxTransport \/ ~ IsTransient(failure') \/ MaxDelay < BaseDelay
       /\ transport' > transport =>
              IsTransient(failure') /\ BaseDelay <= MaxDelay /\ calls' # calls
       /\ attempt' > attempt /\ pc' = "prompt" => transport' = 1]_vars

\* The calls are bounded whatever the agents answer and however they fail.
CallsWithinBudget ==
    /\ calls["planner"] <= AttemptLimit * MaxTransport
    /\ calls["designer"] <= AttemptLimit

\* No hint of the provider, no exponent and no jitter takes a delay out of
\* the configured bounds, but for the fifth that jitter may take off the lower one, and with
\* bounds that exclude each other nothing is waited for (calculateRetryDelay); and
\* the attempts and their retries together keep to the budget of calls.
WaitsWithinBudget ==
    /\ wait # 0 =>
        /\ BaseDelay <= MaxDelay
        /\ wait <= MaxDelay
        /\ 100 * wait + 50 >= 80 * BaseDelay
    /\ CallsWithinBudget

\* Planning comes to an end: every path through attempts, transport retries
\* and candidates, and every search, does.
PlanningEnds == <>(pc \in Failed \cup {"done"})
=============================================================================
