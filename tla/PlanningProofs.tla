--------------------------- MODULE PlanningProofs ---------------------------
(***************************************************************************)
(* What planWorkflow promises holds for any answers of the planner and any *)
(* failures: the first valid plan is taken, failures are documented,       *)
(* retries are bounded. The search's part of it is GraphValidationProofs'. *)
(***************************************************************************)
EXTENDS Planning, GraphValidationProofs, FiniteSetTheorems, WellFoundedInduction

Object == Graphs \cup {NotAPlan}

\* The objects still to be tried are the last of the answer.
RestInv ==
    /\ answer \in Seq(Object) /\ rest \in Seq(Object)
    /\ Len(rest) <= Len(answer)
    /\ \A k \in 1 .. Len(rest) : rest[k] = answer[Tried + k]
    /\ pc = "validate" => rest # <<>>

\* The list that was validated is the one that is tried, and its verdict is of it.
TryInv ==
    pc \in {"validate", "write", "done"} =>
        /\ rest # <<>> /\ tasks = Head(rest) /\ tasks # NotAPlan
        /\ verdict = "malformed" => ~ IsWellFormed(tasks)
        /\ pc # "validate" => verdict = "accepted" /\ IsPlannable(tasks) /\ plan = tasks

\* What was tried before was refused with reason.
RefusedInv ==
    pc \in {"parse", "validate", "write", "done"} =>
        \A k \in 1 .. Tried : ~ IsValidPlan(answer[k])

\* The calls that are not yet in the diagnostics: the planner's last, whose answer
\* is being tried.
DiagnosisInv ==
    /\ mode = "import" => pc \notin {"design", "prompt"}
    /\ pc # "spawn_failed" =>
        /\ entries["designer"] = calls["designer"] /\ saved["designer"] = calls["designer"]
        /\ pc \in {"start", "design", "prompt"} => entries["planner"] = calls["planner"]
        /\ pc \in {"parse", "validate"} /\ mode # "import" =>
            entries["planner"] + 1 = calls["planner"]
        /\ pc \in {"start", "design", "failed"} \/ mode = "import" =>
            saved["planner"] = calls["planner"]

\* What the attempts before this one may have spent.
Spent == (attempt - 1) * MaxTransport

CallsInv ==
    /\ pc = "start" => attempt = 1 /\ transport = 1 /\ calls = [a \in Agent |-> 0]
    /\ pc = "design" => calls["designer"] < attempt /\ transport = 1 /\ calls["planner"] = 0
    /\ pc # "design" => calls["designer"] <= AttemptLimit
    /\ pc = "prompt" => calls["planner"] < Spent + transport
    /\ pc # "design" => calls["planner"] <= Spent + transport

-----------------------------------------------------------------------------
(* The search and cycles.                                                  *)

\* A set of numbers has a least one.
LEMMA LeastNumber ==
    ASSUME NEW T, T \subseteq Nat, T # {}
    PROVE  \E x \in T : \A y \in T : x <= y
<1> DEFINE R == OpToRel(<, Nat)
<1>1. IsWellFoundedOn(R, Nat)
    BY NatLessThanWellFounded
<1>2. \A x, y \in Nat : y < x => <<y, x>> \in R
    BY DEF OpToRel
<1> HIDE DEF R
<1>3. \E x \in T : \A y \in T : ~ (<<y, x>> \in R)
    <2>1. IsWellFoundedOn(R, Nat) /\ T \subseteq Nat /\ T # {}
        BY <1>1
    <2>2. \A Q, S, U : IsWellFoundedOn(Q, S) /\ U \subseteq S /\ U # {} =>
              \E x \in U : \A y \in U : ~ (<<y, x>> \in Q)
        BY WFMin, ZenonT(30)
    <2>3. IsWellFoundedOn(R, Nat) /\ T \subseteq Nat /\ T # {} =>
              \E x \in T : \A y \in T : ~ (<<y, x>> \in R)
        BY <2>2, ZenonT(30)
    <2> QED
        BY <2>1, <2>3
<1>4. PICK x \in T : \A y \in T : ~ (<<y, x>> \in R)
    BY <1>3
<1>5. ASSUME NEW y \in T
      PROVE  x <= y
    <2>1. x \in Nat /\ y \in Nat /\ ~ (<<y, x>> \in R)
        BY <1>4
    <2>2. ~ (y < x)
        BY <1>2, <2>1, Zenon
    <2> QED
        BY <2>1, <2>2
<1> QED
    BY <1>5

\* Of the tasks that are left, the one the search returned from first.
LEMMA AcceptedIsAcyclic ==
    ASSUME SearchInv, verdict = "accepted"
    PROVE  IsWellFormed(tasks) /\ IsAcyclic(tasks)
<1>1. tasks \in Graphs /\ IsWellFormed(tasks) /\ stack = <<>> /\ root > Len(tasks) /\ root \in Nat
    BY DEF SearchInv, SearchTypes, Searching, VerdictInv
<1>2. DOMAIN tasks = 1 .. Len(tasks) /\ Len(tasks) \in Nat
    BY <1>1, GraphsAssumption DEF IsList
<1>3. Ids(tasks) \subseteq Visited
    BY <1>1, <1>2 DEF SearchInv, RootInv, Visiting, Ids
<1>4. DOMAIN visited = 1 .. Len(visited) /\ Len(visited) \in Nat
    BY DEF SearchInv, SearchTypes
<1>5. ASSUME NEW S \in SUBSET Ids(tasks), S # {}
      PROVE  \E id \in S : DependsOn(tasks, id) \cap S = {}
    <2> DEFINE T == {k \in DOMAIN visited : visited[k] \in S}
    <2>1. T \subseteq Nat /\ T # {}
        BY <1>3, <1>4, <1>5 DEF Visited
    <2>2. PICK k \in T : \A j \in T : k <= j
        BY <2>1, LeastNumber
    <2>3. ASSUME NEW d \in DependsOn(tasks, visited[k]), d \in S
          PROVE  FALSE
        <3>1. PICK j \in 1 .. k - 1 : visited[j] = d
            BY <2>2, <2>3 DEF SearchInv, OrderInv
        <3>2. j \in T /\ j < k
            BY <1>4, <2>2, <2>3, <3>1
        <3> QED
            BY <1>4, <2>2, <3>2
    <2> QED
        BY <2>2, <2>3
<1> QED
    BY <1>1, <1>5 DEF IsAcyclic

\* Of the tasks of a circle none is without a dependency on another.
LEMMA CycleIsNotAcyclic ==
    ASSUME SearchInv, verdict = "cycle", CycleIsReal
    PROVE  ~ IsAcyclic(tasks)
<1>1. PICK i \in DOMAIN stack :
        /\ stack[i].id = Dependency
        /\ \A k \in i .. Len(stack) - 1 : stack[k + 1].id \in DependsOn(tasks, stack[k].id)
        /\ Dependency \in DependsOn(tasks, Top.id)
    BY DEF CycleIsReal, ClosesCycle
<1>a. stack \in Seq(Frames)
    BY DEF SearchInv, SearchTypes, Frames
<1>b. DOMAIN stack = 1 .. Len(stack) /\ Len(stack) \in Nat
    BY <1>a
<1>c. \A k \in DOMAIN stack : stack[k] \in Frames
    BY <1>a, <1>b, ElementOfSeq
<1>2. DOMAIN stack = 1 .. Len(stack) /\ Len(stack) \in Nat
      /\ \A k \in DOMAIN stack : stack[k].id \in Ids(tasks)
    BY <1>b, <1>c DEF Frames
<1> DEFINE S == {stack[k].id : k \in i .. Len(stack)}
<1>3. /\ S \subseteq Ids(tasks) /\ stack[i].id \in S
      /\ \A k \in i .. Len(stack) : stack[k].id \in S
    BY <1>2
<1>5. \A id \in S : \E k \in i .. Len(stack) : id = stack[k].id
    OBVIOUS
<1> HIDE DEF S
<1>4. ASSUME NEW k \in i .. Len(stack)
      PROVE  DependsOn(tasks, stack[k].id) \cap S # {}
    <2>1. CASE k < Len(stack)
        <3>1. stack[k + 1].id \in DependsOn(tasks, stack[k].id) /\ stack[k + 1].id \in S
            BY <1>1, <1>2, <1>3, <2>1
        <3> QED
            BY <3>1
    <2>2. CASE k = Len(stack)
        <3>1. stack[i].id \in DependsOn(tasks, stack[k].id)
            BY <1>1, <2>2 DEF Top
        <3> QED
            BY <1>3, <3>1
    <2>3. i \in Int /\ Len(stack) \in Int
        BY <1>2
    <2>4. k < Len(stack) \/ k = Len(stack)
        BY <2>3
    <2> QED
        BY <2>1, <2>2, <2>4
<1>6. \A id \in S : DependsOn(tasks, id) \cap S # {}
    BY <1>4, <1>5
<1> QED
    BY <1>3, <1>6 DEF IsAcyclic

-----------------------------------------------------------------------------
(* What is tried are objects of the answer, and the validator is used as it *)
(* is meant to be.                                                          *)

LEMMA RestInit == Init => RestInv
BY DEF Init, RestInv, Object, Tried

LEMMA RestStep ==
    ASSUME RestInv, [Next]_vars
    PROVE  RestInv'
<1>1. ASSUME UNCHANGED <<answer, rest>>, pc' = "validate" => rest # <<>>
      PROVE  RestInv'
    BY <1>1 DEF RestInv, Tried
<1>2. ASSUME NEW a \in Answers, answer' = a, rest' = a, pc' = "parse"
      PROVE  RestInv'
    <2>1. a \in Seq(Object)
        BY AnswersAssumption DEF Object
    <2>2. Tried' = 0
        BY <1>2, <2>1 DEF Tried
    <2> QED
        BY <1>2, <2>1, <2>2 DEF RestInv
<1>3. ASSUME answer' = answer, rest # <<>>, rest' = Tail(rest), pc' = "parse"
      PROVE  RestInv'
    <2>1. rest' \in Seq(Object) /\ Len(rest') = Len(rest) - 1 /\ Len(rest) \in Nat \ {0}
        BY <1>3 DEF RestInv
    <2>2. \A k \in 1 .. Len(rest') : rest'[k] = rest[k + 1]
        BY <1>3, <2>1 DEF RestInv
    <2>3. Tried' = Tried + 1 /\ Tried \in Nat
        BY <1>3, <2>1 DEF Tried, RestInv
    <2> QED
        BY <1>3, <2>1, <2>2, <2>3 DEF RestInv
<1>4. CASE ReadPlanFile \/ PromptAnswers
    BY <1>2, <1>4 DEF ReadPlanFile, PromptAnswers
<1>5. CASE SkipObject
    BY <1>3, <1>5 DEF SkipObject
<1>6. CASE RefuseObject
    <2>1. rest # <<>>
        BY <1>6 DEF RefuseObject, RestInv
    <2>2. answer' = answer /\ rest' = Tail(rest) /\ pc' = "parse"
        BY <1>6 DEF RefuseObject
    <2> QED
        BY <1>3, <2>1, <2>2
<1>7. CASE TryObject
    BY <1>1, <1>7 DEF TryObject
<1>8. ASSUME UNCHANGED <<answer, rest>>, pc' # "validate" \/ UNCHANGED pc
      PROVE  RestInv'
    BY <1>1, <1>8 DEF RestInv
<1> QED
    BY <1>4, <1>5, <1>6, <1>7, <1>8
    DEF Next, vars, control, StartPlanning, DesignerAnswers, DesignerFails, SpawnFails,
        PromptFails, Validate, AcceptObject, RejectPlanFile, RejectAnswer,
        SavePlan, Ended

LEMMA RestIsOfAnswer == Spec => []RestInv
<1>1. RestInv /\ [Next]_vars => RestInv'
    BY RestStep
<1> QED
    BY RestInit, <1>1, PTL DEF Spec

\* Planning calls the validator with task lists only, and lets it work off each.
THEOREM PlanningValidates == Spec => Validation
<1>1. Init => NothingValidated
    BY DEF Init
<1>2. RestInv /\ [Next]_vars => [(\E ts \in Graphs : Begin(ts)) \/ Search]_search
    <2> SUFFICES ASSUME RestInv, [Next]_vars
                 PROVE  [(\E ts \in Graphs : Begin(ts)) \/ Search]_search
        OBVIOUS
    <2>1. CASE TryObject
        <3>1. Head(rest) \in Graphs
            BY <2>1 DEF TryObject, RestInv, Object
        <3> QED
            BY <2>1, <3>1 DEF TryObject
    <2>2. CASE Validate
        BY <2>2 DEF Validate
    <2> QED
        BY <2>1, <2>2
        DEF Next, vars, ReadPlanFile, StartPlanning, DesignerAnswers, DesignerFails, SpawnFails,
            PromptFails, PromptAnswers, SkipObject, RefuseObject, AcceptObject,
            RejectPlanFile, RejectAnswer, SavePlan, Ended
<1> QED
    BY <1>1, <1>2, RestIsOfAnswer, PTL DEF Spec, Validation

-----------------------------------------------------------------------------
(* Retries.                                                                *)

\* The number of sets of n numbers.
LEMMA PowerIsPositive ==
    ASSUME NEW n \in Nat
    PROVE  2 ^ n \in Nat \ {0}
<1>1. IsFiniteSet(1 .. n) /\ Cardinality(1 .. n) = n
    BY FS_Interval
<1>2. IsFiniteSet(SUBSET (1 .. n)) /\ Cardinality(SUBSET (1 .. n)) = 2 ^ n
    BY <1>1, FS_SUBSET
<1>3. SUBSET (1 .. n) # {}
    OBVIOUS
<1> QED
    BY <1>2, <1>3, FS_EmptySet, FS_CardinalityType

LEMMA DelaysAreBounded ==
    ASSUME delays \in Delays, NEW n \in Nat \ {0}, NEW f \in Failures,
           DelaysFit(BaseDelay, MaxDelay),
           NEW d \in RetryDelays(n, f.hint, BaseDelay, MaxDelay, Jitter)
    PROVE  d \in Nat \ {0} /\ d <= MaxDelay /\ 100 * d + 50 >= 80 * BaseDelay
<1> DEFINE u == UnjitteredDelay(n, f.hint, BaseDelay, MaxDelay)
<1>1. f.hint \subseteq Nat
    BY AnswersAssumption
<1>2. /\ MaxDelay \in Nat \ {0} /\ BaseDelay \in Nat \ {0} /\ BaseDelay <= MaxDelay
      /\ Jitter \in BOOLEAN
    BY RetryAssumption DEF DelaysFit, BaseDelay, MaxDelay
<1>3. u \in Int /\ u <= MaxDelay /\ BaseDelay <= u
    <2>1. CASE \E h \in f.hint : h > 0
        <3> DEFINE h == CHOOSE h \in f.hint : h > 0
        <3>1. h \in Nat
            BY <1>1, <2>1
        <3>2. u = Least(Greatest(h, BaseDelay), MaxDelay)
            BY <2>1 DEF UnjitteredDelay
        <3> HIDE DEF h, u
        <3> QED
            BY <1>2, <3>1, <3>2 DEF Least, Greatest
    <2>2. CASE ~ \E h \in f.hint : h > 0
        <3> DEFINE x == 2 ^ (n - 1)
        <3>1. u = Least(BaseDelay * x, MaxDelay)
            BY <2>2 DEF UnjitteredDelay
        <3>2. n - 1 \in Nat
            OBVIOUS
        <3>3. x \in Nat \ {0}
            BY <3>2, PowerIsPositive
        <3> HIDE DEF u, x
        <3>4. BaseDelay * x \in Int /\ BaseDelay <= BaseDelay * x
            BY <1>2, <3>3
        <3> QED
            BY <1>2, <3>1, <3>4 DEF Least
    <2> QED
        BY <2>1, <2>2
<1>4. d \in IF Jitter THEN Jittered(u, MaxDelay) ELSE {Greatest(1, u)}
    BY DEF RetryDelays
<1> HIDE DEF u
<1>5. CASE Jitter
    <2> DEFINE half == (80 * u + 50) \div 100
               low == Greatest(1, half)
               high == Greatest(1, Least((120 * u + 49) \div 100, MaxDelay))
    <2>1. d \in low .. high
        BY <1>4, <1>5 DEF Jittered
    <2>2. half \in Int /\ (120 * u + 49) \div 100 \in Int
        BY <1>3
    <2>5. 100 * half + 99 >= 80 * u + 50
        BY <1>3
    <2>3. low \in Int /\ low >= 1 /\ low >= half
        BY <2>2 DEF Greatest
    <2>4. high \in Int /\ high <= MaxDelay
        BY <1>2, <2>2 DEF Greatest, Least
    <2> HIDE DEF half, low, high
    <2> QED
        BY <1>2, <1>3, <2>1, <2>2, <2>3, <2>4, <2>5
<1>6. CASE ~ Jitter
    BY <1>2, <1>3, <1>4, <1>6 DEF Greatest
<1> QED
    BY <1>5, <1>6

\* The kinds that are retried come first in the order of the rules.
LEMMA RetriedIsTransient ==
    ASSUME NEW f \in Failures
    PROVE  IsRetryableKind(ClassifyProviderFailure(f)) <=> IsTransient(f)
<1>1. CASE f.text = {}
    BY <1>1 DEF ClassifyProviderFailure, IsRetryableKind, IsTransient
<1>2. CASE f.text # {}
    <2> DEFINE First(i) == /\ TextRules[i] \in f.text
                           /\ \A j \in 1 .. i - 1 : TextRules[j] \notin f.text
               i == CHOOSE i \in DOMAIN TextRules : First(i)
    <2>1. f.text \subseteq {"rate_limit", "unavailable", "capacity", "timeout", "network",
                            "authentication", "configuration"}
        BY AnswersAssumption DEF TextRules
    <2>2. DOMAIN TextRules = 1 .. 7
        BY DEF TextRules
    <2>3. \E k \in DOMAIN TextRules : First(k)
        <3>1. CASE "rate_limit" \in f.text
            <4>1. First(1)
                BY <3>1 DEF TextRules
            <4> QED
                BY <2>2, <4>1
        <3>2. CASE "rate_limit" \notin f.text /\ "unavailable" \in f.text
            <4>1. First(2)
                BY <3>2 DEF TextRules
            <4> QED
                BY <2>2, <4>1
        <3>3. CASE f.text \cap {"rate_limit", "unavailable"} = {} /\ "capacity" \in f.text
            <4>1. First(3)
                BY <3>3 DEF TextRules
            <4> QED
                BY <2>2, <4>1
        <3>4. CASE f.text \cap {"rate_limit", "unavailable", "capacity"} = {}
                   /\ "timeout" \in f.text
            <4>1. First(4)
                BY <3>4 DEF TextRules
            <4> QED
                BY <2>2, <4>1
        <3>5. CASE f.text \cap {"rate_limit", "unavailable", "capacity", "timeout"} = {}
                   /\ "network" \in f.text
            <4>1. First(5)
                BY <3>5 DEF TextRules
            <4> QED
                BY <2>2, <4>1
        <3>6. CASE f.text \cap {"rate_limit", "unavailable", "capacity", "timeout", "network"} = {}
                   /\ "authentication" \in f.text
            <4>1. First(6)
                BY <3>6 DEF TextRules
            <4> QED
                BY <2>2, <4>1
        <3>7. CASE f.text = {"configuration"}
            <4>1. First(7)
                BY <3>7 DEF TextRules
            <4> QED
                BY <2>2, <4>1
        <3> QED
            BY <1>2, <2>1, <3>1, <3>2, <3>3, <3>4, <3>5, <3>6, <3>7
    <2>4. i \in DOMAIN TextRules /\ First(i)
        BY <2>3
    <2>5. ClassifyProviderFailure(f) = TextRules[i]
        BY <1>2 DEF ClassifyProviderFailure, FirstMatch
    <2> HIDE DEF i
    <2>6. CASE i <= 5
        BY <1>2, <2>2, <2>4, <2>5, <2>6 DEF TextRules, IsRetryableKind, IsTransient
    <2>7. CASE i > 5
        <3>1. \A j \in 1 .. 5 : TextRules[j] \notin f.text
            BY <2>2, <2>4, <2>7
        <3>2. ~ IsTransient(f)
            BY <1>2, <3>1 DEF TextRules, IsTransient
        <3>3. TextRules[i] \in {"authentication", "configuration"}
            BY <2>2, <2>4, <2>7 DEF TextRules
        <3> QED
            BY <2>5, <3>2, <3>3 DEF IsRetryableKind
    <2> QED
        BY <2>2, <2>4, <2>6, <2>7
<1> QED
    BY <1>1, <1>2

-----------------------------------------------------------------------------
(* Types.                                                                  *)

\* The part of the types that planning itself is responsible for.
ControlTypes ==
    /\ delays \in Delays /\ mode \in Mode /\ pc \in PC
    /\ attempt \in 1 .. AttemptLimit /\ transport \in 1 .. MaxTransport
    /\ failure \in Failures \cup {NoFailure} /\ wait \in Nat
    /\ answer \in Answers \cup {<<>>}
    /\ plan \in Graphs \cup {<<>>} /\ tasks \in Graphs \cup {<<>>}
    /\ root \in 1 .. Len(tasks) + 1
    /\ calls \in [Agent -> Nat] /\ entries \in [Agent -> Nat] /\ saved \in [Agent -> Nat]

LEMMA TypesSplit ==
    ASSUME SearchInv, RestInv
    PROVE  TypeOK <=> ControlTypes
<1>1. verdict \in Verdict
    BY DEF SearchInv, SearchTypes
<1>2. Visited \subseteq Ids(tasks)
    <2>1. visited \in Seq(Ids(tasks))
        BY DEF SearchInv, SearchTypes
    <2> QED
        BY <2>1, ElementOfSeq DEF Visited
<1>3. Visiting \subseteq Ids(tasks)
    <2>1. stack \in Seq(Frames)
        BY DEF SearchInv, SearchTypes, Frames
    <2>2. \A k \in DOMAIN stack : stack[k] \in Frames
        BY <2>1, ElementOfSeq
    <2> QED
        BY <2>2 DEF Visiting, Frames
<1>4. Len(rest) <= Len(answer)
    BY DEF RestInv
<1> QED
    BY <1>1, <1>2, <1>3, <1>4 DEF TypeOK, ControlTypes

LEMMA ControlInit == Init => ControlTypes
<1>1. MaxTransport \in Nat \ {0}
    BY RetryAssumption
<1> QED
    BY <1>1
    DEF Init, NothingValidated, ControlTypes, PC, Failed, Mode, AttemptLimit, Agent

LEMMA ControlStep ==
    ASSUME ControlTypes, RestInv, [Next]_vars
    PROVE  ControlTypes'
<1> USE DEF ControlTypes, Note, NoteAndSave, Call, Agent, PC, Failed, Mode, AttemptLimit
<1>1. MaxTransport \in Nat \ {0}
    BY RetryAssumption
<1>2. CASE ReadPlanFile \/ PromptAnswers
    <2>1. answer' \in Answers /\ pc' = "parse" /\ calls' \in [Agent -> Nat]
        BY <1>2 DEF ReadPlanFile, PromptAnswers, record
    <2> QED
        BY <1>2, <2>1 DEF ReadPlanFile, PromptAnswers, search, record
<1>3. CASE DesignerAnswers \/ DesignerFails \/ SpawnFails
    <2>1. \E a \in Agent :
            /\ calls' = [calls EXCEPT ![a] = @ + 1]
            /\ NoteAndSave(a) \/ UNCHANGED <<entries, saved>>
        BY <1>3 DEF DesignerAnswers, DesignerFails, SpawnFails
    <2>4. calls' \in [Agent -> Nat] /\ entries' \in [Agent -> Nat] /\ saved' \in [Agent -> Nat]
        <3>1. PICK a \in Agent :
                /\ calls' = [calls EXCEPT ![a] = @ + 1]
                /\ NoteAndSave(a) \/ UNCHANGED <<entries, saved>>
            BY <2>1
        <3>2. calls \in [Agent -> Nat] /\ entries \in [Agent -> Nat] /\ saved \in [Agent -> Nat]
            OBVIOUS
        <3> HIDE DEF ControlTypes, Agent
        <3>3. calls' \in [Agent -> Nat]
            BY <3>1, <3>2
        <3>4. CASE NoteAndSave(a)
            BY <3>2, <3>3, <3>4
        <3>5. CASE UNCHANGED <<entries, saved>>
            BY <3>2, <3>3, <3>5
        <3> QED
            BY <3>1, <3>4, <3>5
    <2>5. attempt \in 1 .. 3 /\ pc \in PC
        OBVIOUS
    <2> HIDE DEF ControlTypes, Note, NoteAndSave, Call
    <2>2. attempt' \in 1 .. 3 /\ pc' \in PC
        BY <1>3, <2>5 DEF DesignerAnswers, DesignerFails, SpawnFails
    <2>3. UNCHANGED <<search, delays, mode, transport, failure, wait, answer, rest, plan>>
        BY <1>3 DEF DesignerAnswers, DesignerFails, SpawnFails
    <2> QED
        BY <2>2, <2>3, <2>4 DEF search, ControlTypes
<1>4. ASSUME NEW f \in Failures, PromptFails(f)
      PROVE  ControlTypes'
    <2>1. wait' \in Nat
        BY <1>1, <1>4, DelaysAreBounded DEF PromptFails
    <2>4. transport \in 1 .. MaxTransport
        OBVIOUS
    <2>2. transport' \in 1 .. MaxTransport
        <3> HIDE DEF ControlTypes, Note, NoteAndSave, Call
        <3> QED
            BY <1>1, <1>4, <2>4 DEF PromptFails
    <2>3. failure' = f /\ pc' \in PC
        BY <1>4 DEF PromptFails
    <2>5. calls' \in [Agent -> Nat] /\ entries' \in [Agent -> Nat] /\ saved' \in [Agent -> Nat]
        BY <1>4 DEF PromptFails
    <2>6. UNCHANGED <<tasks, root, delays, mode, attempt, answer, plan>>
        BY <1>4 DEF PromptFails, search
    <2> HIDE DEF Note, NoteAndSave, Call, Agent, PC, Failed, Mode
    <2> QED
        BY <2>1, <2>2, <2>3, <2>5, <2>6
<1>5. CASE StartPlanning \/ SkipObject
    <2>1. pc' \in PC
        BY <1>5 DEF StartPlanning, SkipObject
    <2> QED
        BY <1>5, <2>1 DEF StartPlanning, SkipObject, search, record
<1>6. CASE TryObject
    <2>1. Head(rest) \in Graphs
        BY <1>6 DEF TryObject, RestInv, Object
    <2>2. Len(Head(rest)) \in Nat
        BY <2>1, GraphsAssumption DEF IsList
    <2>3. tasks' = Head(rest) /\ root' = 1 /\ pc' = "validate"
          /\ UNCHANGED <<delays, mode, attempt, transport, failure, wait, answer, rest, plan,
                         record>>
        BY <1>6 DEF TryObject, Begin
    <2> QED
        BY <2>1, <2>2, <2>3 DEF record
<1>7. CASE Validate
    <2>1. Len(tasks) \in Nat
        BY GraphsAssumption DEF IsList
    <2>2. tasks' = tasks /\ (root' = root \/ (root' = root + 1 /\ root <= Len(tasks)))
        BY <1>7 DEF Validate, Search, VisitRoot, VisitDependency, FindCycle, Return, Accept
    <2>3. root \in 1 .. Len(tasks) + 1
        OBVIOUS
    <2>4. root' \in 1 .. Len(tasks) + 1
        <3> HIDE DEF ControlTypes
        <3> QED
            BY <2>1, <2>2, <2>3
    <2> QED
        BY <1>7, <2>2, <2>4 DEF Validate, control, record
<1>8. CASE RefuseObject \/ RejectPlanFile
    BY <1>8 DEF RefuseObject, RejectPlanFile, search, record
<1>9. CASE AcceptObject
    BY <1>9 DEF AcceptObject, search
<1>10. CASE RejectAnswer
    <2>1. Note("planner") \/ NoteAndSave("planner")
        BY <1>10 DEF RejectAnswer
    <2>2. entries' \in [Agent -> Nat] /\ saved' \in [Agent -> Nat]
        BY <2>1
    <2>3. attempt \in 1 .. 3 /\ transport \in 1 .. MaxTransport
        OBVIOUS
    <2>4. attempt' \in 1 .. 3 /\ transport' \in 1 .. MaxTransport /\ pc' \in {"prompt", "failed"}
        <3> HIDE DEF ControlTypes, Note, NoteAndSave, Call
        <3> QED
            BY <1>1, <1>10, <2>3 DEF RejectAnswer
    <2>5. UNCHANGED <<search, delays, mode, failure, wait, answer, rest, plan, calls>>
        BY <1>10 DEF RejectAnswer
    <2> QED
        BY <2>2, <2>4, <2>5 DEF search
<1>11. CASE SavePlan
    BY <1>11 DEF SavePlan, search
<1>12. CASE UNCHANGED vars
    BY <1>12 DEF vars, search, control, record
<1> QED
    BY <1>2, <1>3, <1>4, <1>5, <1>6, <1>7, <1>8, <1>9, <1>10, <1>11, <1>12 DEF Next, Ended

-----------------------------------------------------------------------------
(* The first valid plan.                                                   *)

LEMMA TryStep ==
    ASSUME RestInv, TryInv, [Next]_vars
    PROVE  TryInv'
<1> USE DEF TryInv
<1>1. CASE TryObject
    BY <1>1 DEF TryObject, Begin
<1>2. CASE Validate
    BY <1>2 DEF Validate, control, Search, VisitRoot, VisitDependency, FindCycle, Return, Accept
<1>3. CASE AcceptObject
    BY <1>3 DEF AcceptObject, search
<1>4. CASE SavePlan
    BY <1>4 DEF SavePlan, search
<1>5. CASE UNCHANGED vars
    BY <1>5 DEF vars, search, control
<1>6. ASSUME pc' \notin {"validate", "write", "done"}
      PROVE  TryInv'
    BY <1>6
<1> QED
    BY <1>1, <1>2, <1>3, <1>4, <1>5, <1>6
    DEF Next, ReadPlanFile, StartPlanning, DesignerAnswers, DesignerFails, SpawnFails,
        PromptFails, PromptAnswers, SkipObject, RefuseObject, RejectPlanFile, RejectAnswer,
        Ended, Failed

\* A verdict of the search is the right answer to whether the list is valid.
LEMMA VerdictDecides ==
    ASSUME SearchInv, VerdictIsRight, RestInv, TryInv, pc = "validate"
    PROVE  /\ verdict = "accepted" /\ IsPlannable(tasks) => IsValidPlan(tasks)
           /\ verdict \in {"malformed", "cycle"} => ~ IsValidPlan(tasks)
           /\ ~ IsPlannable(tasks) => ~ IsValidPlan(tasks)
           /\ tasks = Head(rest) /\ rest # <<>>
<1>1. tasks = Head(rest) /\ rest # <<>> /\ tasks # NotAPlan
      /\ (verdict = "malformed" => ~ IsWellFormed(tasks))
    BY DEF TryInv
<1>2. verdict = "accepted" => IsWellFormed(tasks) /\ IsAcyclic(tasks)
    BY AcceptedIsAcyclic
<1>3. verdict = "cycle" => ~ IsAcyclic(tasks)
    BY CycleIsNotAcyclic DEF VerdictIsRight
<1> QED
    BY <1>1, <1>2, <1>3 DEF IsValidPlan

LEMMA RefusedStep ==
    ASSUME SearchInv, VerdictIsRight, RestInv, RestInv', TryInv, RefusedInv, [Next]_vars
    PROVE  RefusedInv'
<1>1. ASSUME UNCHANGED <<answer, rest>>,
             pc \in {"parse", "validate", "write", "done"}
               \/ pc' \notin {"parse", "validate", "write", "done"}
      PROVE  RefusedInv'
    BY <1>1 DEF RefusedInv, Tried
<1>2. ASSUME answer' = rest', answer' \in Seq(Object)
      PROVE  RefusedInv'
    <2>1. Tried' = 0
        BY <1>2 DEF Tried
    <2> QED
        BY <2>1 DEF RefusedInv
<1>3. ASSUME pc \in {"parse", "validate"}, answer' = answer, rest # <<>>, rest' = Tail(rest),
             ~ IsValidPlan(Head(rest))
      PROVE  RefusedInv'
    <2>1. /\ Len(rest') = Len(rest) - 1 /\ Len(rest) \in Nat \ {0}
          /\ Len(answer) \in Nat /\ Len(rest) <= Len(answer)
        BY <1>3 DEF RestInv
    <2>2. Tried' = Tried + 1 /\ Tried \in Nat
        BY <1>3, <2>1 DEF Tried
    <2>3. answer[Tried + 1] = Head(rest)
        BY <1>3, <2>1 DEF RestInv
    <2>4. ASSUME NEW k \in 1 .. Tried'
          PROVE  ~ IsValidPlan(answer'[k])
        <3>1. CASE k = Tried + 1
            BY <1>3, <2>3, <3>1
        <3>2. CASE k \in 1 .. Tried
            BY <1>3, <3>2 DEF RefusedInv
        <3> QED
            BY <2>2, <3>1, <3>2
    <2> QED
        BY <2>4 DEF RefusedInv
<1>4. CASE ReadPlanFile \/ PromptAnswers
    BY <1>2, <1>4 DEF ReadPlanFile, PromptAnswers, RestInv
<1>5. CASE SkipObject
    <2>1. pc = "parse" /\ answer' = answer /\ rest # <<>> /\ rest' = Tail(rest)
          /\ Head(rest) = NotAPlan
        BY <1>5 DEF SkipObject
    <2> QED
        BY <1>3, <2>1 DEF IsValidPlan
<1>6. CASE RefuseObject
    <2>1. pc = "validate" /\ answer' = answer /\ rest' = Tail(rest)
        BY <1>6 DEF RefuseObject
    <2>2. ~ IsValidPlan(tasks)
        BY <1>6, <2>1, VerdictDecides DEF RefuseObject
    <2>3. tasks = Head(rest) /\ rest # <<>>
        BY <2>1, VerdictDecides
    <2> QED
        BY <1>3, <2>1, <2>2, <2>3
<1> QED
    BY <1>1, <1>4, <1>5, <1>6
    DEF Next, vars, control, StartPlanning, DesignerAnswers, DesignerFails, SpawnFails,
        PromptFails, TryObject, Validate, AcceptObject, RejectPlanFile, RejectAnswer,
        SavePlan, Ended, Failed

-----------------------------------------------------------------------------
(* Diagnostics and budgets.                                                *)

LEMMA DiagnosisStep ==
    ASSUME ControlTypes, DiagnosisInv, [Next]_vars
    PROVE  DiagnosisInv'
<1> USE DEF ControlTypes, DiagnosisInv, Note, NoteAndSave, Call, Agent
<1>1. CASE ReadPlanFile \/ PromptAnswers
    BY <1>1 DEF ReadPlanFile, PromptAnswers, record
<1>2. CASE StartPlanning \/ SkipObject \/ RejectPlanFile
    BY <1>2 DEF StartPlanning, SkipObject, RejectPlanFile, record
<1>3. CASE DesignerAnswers
    BY <1>3 DEF DesignerAnswers
<1>4. CASE DesignerFails
    BY <1>4 DEF DesignerFails
<1>5. CASE SpawnFails
    BY <1>5 DEF SpawnFails
<1>6. ASSUME NEW f \in Failures, PromptFails(f)
      PROVE  DiagnosisInv'
    BY <1>6 DEF PromptFails
<1>7. CASE TryObject \/ Validate \/ RefuseObject
    BY <1>7 DEF TryObject, Validate, RefuseObject, control, record
<1>8. CASE AcceptObject
    BY <1>8 DEF AcceptObject
<1>9. CASE RejectAnswer
    BY <1>9 DEF RejectAnswer
<1>10. CASE SavePlan
    BY <1>10 DEF SavePlan
<1>11. CASE UNCHANGED vars
    BY <1>11 DEF vars, control, record
<1> QED
    BY <1>1, <1>2, <1>3, <1>4, <1>5, <1>6, <1>7, <1>8, <1>9, <1>10, <1>11 DEF Next, Ended

\* An attempt after this one begins with what this one and those before it spent.
LEMMA SpentGrows ==
    ASSUME ControlTypes
    PROVE  /\ Spent \in Nat /\ MaxTransport \in Nat \ {0}
           /\ attempt' = attempt + 1 => Spent' = Spent + MaxTransport
           /\ attempt = 1 => Spent = 0
           /\ attempt' = 1 => Spent' = 0
           /\ attempt' = attempt => Spent' = Spent
           /\ Spent + MaxTransport <= AttemptLimit * MaxTransport
<1>1. MaxTransport \in Nat \ {0} /\ attempt \in {1, 2, 3}
    BY RetryAssumption DEF ControlTypes, AttemptLimit
<1> QED
    BY <1>1 DEF Spent, AttemptLimit

LEMMA CallsStep ==
    ASSUME ControlTypes, CallsInv, [Next]_vars
    PROVE  CallsInv'
<1> USE DEF CallsInv, Call, Agent
<1>1. /\ calls \in [Agent -> Nat] /\ attempt \in 1 .. 3 /\ transport \in 1 .. MaxTransport
      /\ AttemptLimit = 3
    BY DEF ControlTypes, AttemptLimit
<1> USE <1>1, SpentGrows
<1>2. CASE ReadPlanFile \/ StartPlanning
    BY <1>2 DEF ReadPlanFile, StartPlanning, record
<1>3. CASE DesignerAnswers
    BY <1>3 DEF DesignerAnswers
<1>4. CASE DesignerFails \/ SpawnFails
    BY <1>4 DEF DesignerFails, SpawnFails
<1>5. ASSUME NEW f \in Failures, PromptFails(f)
      PROVE  CallsInv'
    BY <1>5 DEF PromptFails
<1>6. CASE PromptAnswers
    BY <1>6 DEF PromptAnswers
<1>7. CASE RejectAnswer
    BY <1>7 DEF RejectAnswer
<1>8. CASE AcceptObject \/ SavePlan
    BY <1>8 DEF AcceptObject, SavePlan
<1>9. ASSUME UNCHANGED <<attempt, transport, calls>>, pc' \notin {"start", "design", "prompt"},
             pc # "design"
      PROVE  CallsInv'
    BY <1>9
<1>10. CASE SkipObject \/ TryObject \/ Validate \/ RefuseObject \/ RejectPlanFile
    BY <1>9, <1>10
    DEF SkipObject, TryObject, Validate, RefuseObject, RejectPlanFile, control, record
<1>11. CASE UNCHANGED vars
    BY <1>11 DEF vars, control, record
<1> QED
    BY <1>2, <1>3, <1>4, <1>5, <1>6, <1>7, <1>8, <1>10, <1>11 DEF Next, Ended

-----------------------------------------------------------------------------
(* What planning promises.                                                 *)

WaitInv ==
    wait # 0 =>
        /\ BaseDelay <= MaxDelay
        /\ wait <= MaxDelay
        /\ 100 * wait + 50 >= 80 * BaseDelay

LEMMA WaitStep ==
    ASSUME ControlTypes, WaitInv, [Next]_vars
    PROVE  WaitInv'
<1>0. UNCHANGED delays
    BY DEF Next, vars, control, ReadPlanFile, StartPlanning, DesignerAnswers, DesignerFails,
           SpawnFails, PromptFails, PromptAnswers, SkipObject, TryObject, Validate,
           RefuseObject, AcceptObject, RejectPlanFile, RejectAnswer, SavePlan, Ended
<1>1. ASSUME NEW f \in Failures, PromptFails(f), wait' # wait
      PROVE  WaitInv'
    <2>1. transport \in Nat \ {0}
        BY RetryAssumption DEF ControlTypes
    <2>2. /\ wait' \in RetryDelays(transport, f.hint, BaseDelay, MaxDelay, Jitter)
          /\ DelaysFit(BaseDelay, MaxDelay)
        BY <1>1 DEF PromptFails
    <2>3. wait' <= MaxDelay /\ 100 * wait' + 50 >= 80 * BaseDelay
        BY <2>1, <2>2, DelaysAreBounded DEF ControlTypes
    <2> QED
        BY <1>0, <2>2, <2>3 DEF WaitInv, DelaysFit, BaseDelay, MaxDelay
<1>2. CASE UNCHANGED wait
    BY <1>0, <1>2 DEF WaitInv, BaseDelay, MaxDelay
<1> QED
    BY <1>1, <1>2
    DEF Next, vars, control, ReadPlanFile, StartPlanning, DesignerAnswers, DesignerFails,
        SpawnFails, PromptAnswers, SkipObject, TryObject, Validate, RefuseObject,
        AcceptObject, RejectPlanFile, RejectAnswer, SavePlan, Ended

PlanInv ==
    /\ SearchInv /\ VerdictIsRight
    /\ RestInv /\ ControlTypes /\ TryInv /\ RefusedInv
    /\ DiagnosisInv /\ CallsInv /\ WaitInv

LEMMA PlanInit ==
    ASSUME Init
    PROVE  ControlTypes /\ TryInv /\ RefusedInv /\ DiagnosisInv /\ CallsInv /\ WaitInv
<1>1. ControlTypes
    BY ControlInit
<1>2. Spent = 0
    BY SpentGrows, <1>1 DEF Init
<1>3. /\ pc = "start" /\ attempt = 1 /\ transport = 1 /\ wait = 0
      /\ calls = [a \in Agent |-> 0] /\ entries = calls /\ saved = calls
    BY DEF Init
<1>4. calls["designer"] = 0 /\ calls["planner"] = 0
    BY <1>3 DEF Agent
<1>5. TryInv /\ RefusedInv /\ WaitInv
    BY <1>3 DEF TryInv, RefusedInv, WaitInv
<1>6. DiagnosisInv
    BY <1>3 DEF DiagnosisInv
<1>7. CallsInv
    BY <1>2, <1>3, <1>4 DEF CallsInv, AttemptLimit
<1> QED
    BY <1>1, <1>5, <1>6, <1>7

LEMMA PlanHolds == Spec => []PlanInv
<1>1. Spec => []SearchInv /\ []VerdictIsRight
    BY PlanningValidates, SearchIsSound, VerdictsAreRight, PTL
<1>2. /\ SearchInv /\ VerdictIsRight /\ RestInv /\ RestInv'
      /\ ControlTypes /\ TryInv /\ RefusedInv /\ DiagnosisInv /\ CallsInv /\ WaitInv
      /\ [Next]_vars
      => (ControlTypes /\ TryInv /\ RefusedInv /\ DiagnosisInv /\ CallsInv /\ WaitInv)'
    BY ControlStep, TryStep, RefusedStep, DiagnosisStep, CallsStep, WaitStep
<1>3. Init => ControlTypes /\ TryInv /\ RefusedInv /\ DiagnosisInv /\ CallsInv /\ WaitInv
    BY PlanInit
<1> QED
    BY <1>1, <1>2, <1>3, RestIsOfAnswer, PTL DEF Spec, PlanInv

\* Every variable of planWorkflow keeps to its type; in particular no attempt
\* and no transport retry is begun beyond its limit.
THEOREM PlanningTypes == Spec => []TypeOK
<1>1. PlanInv => TypeOK
    BY TypesSplit DEF PlanInv
<1> QED
    BY <1>1, PlanHolds, PTL

\* parsePlannerOutput takes the first object of the answer that is a valid
\* plan, for any answers and any rules of validity.
THEOREM FirstValidPlanWins == Spec => []FirstValidWins
<1>1. ASSUME PlanInv
      PROVE  FirstValidWins
    <2>1. \A k \in 1 .. Tried : pc \in {"parse", "validate", "write", "done"} =>
              ~ IsValidPlan(answer[k])
        BY <1>1 DEF PlanInv, RefusedInv
    <2>2. ASSUME pc \in {"write", "done"}
          PROVE  IsValidPlan(plan) /\ plan = answer[Tried + 1]
        <3>1. rest # <<>> /\ plan = Head(rest) /\ plan = tasks /\ plan # NotAPlan
              /\ verdict = "accepted" /\ IsPlannable(plan)
            BY <1>1, <2>2 DEF PlanInv, TryInv
        <3>2. IsValidPlan(plan)
            BY <1>1, <3>1, AcceptedIsAcyclic DEF PlanInv, IsValidPlan
        <3>3. answer[Tried + 1] = Head(rest)
            BY <1>1, <3>1 DEF PlanInv, RestInv
        <3> QED
            BY <3>1, <3>2, <3>3
    <2> QED
        BY <2>1, <2>2 DEF FirstValidWins
<1> QED
    BY <1>1, PlanHolds, PTL

\* Whenever planWorkflow gives up, each agent's diagnostics file has an entry
\* for every call that was made of it.
THEOREM FailuresAreDiagnosed == Spec => []FailureIsDiagnosed
<1>1. PlanInv => FailureIsDiagnosed
    BY DEF PlanInv, DiagnosisInv, FailureIsDiagnosed, Agent
<1> QED
    BY <1>1, PlanHolds, PTL

\* Delays keep to the configured bounds, and calls to the product of attempts
\* and transport attempts, for any configuration the resolver lets through.
THEOREM WaitsAreBounded == Spec => []WaitsWithinBudget
<1>1. ASSUME PlanInv
      PROVE  WaitsWithinBudget
    <2>1. calls \in [Agent -> Nat] /\ attempt \in 1 .. 3 /\ transport \in 1 .. MaxTransport
        BY <1>1 DEF PlanInv, ControlTypes, AttemptLimit
    <2>2. Spent \in Nat /\ MaxTransport \in Nat \ {0}
          /\ Spent + MaxTransport <= AttemptLimit * MaxTransport
        BY <1>1, SpentGrows DEF PlanInv
    <2>3. AttemptLimit * MaxTransport \in Nat
        BY <2>2 DEF AttemptLimit
    <2>4. calls["planner"] <= Spent + transport
        BY <1>1, <2>1, <2>2 DEF PlanInv, CallsInv, Agent
    <2>5. calls["planner"] <= AttemptLimit * MaxTransport
        BY <2>1, <2>2, <2>3, <2>4 DEF Agent
    <2>6. calls["designer"] <= AttemptLimit
        BY <1>1, <2>1 DEF PlanInv, CallsInv, Agent, AttemptLimit
    <2> QED
        BY <1>1, <2>5, <2>6 DEF PlanInv, WaitInv, WaitsWithinBudget, CallsWithinBudget
<1> QED
    BY <1>1, PlanHolds, PTL

\* A call is repeated exactly if its failure is a transient one, whatever else
\* its text says, the budget has a call left and the configured delays fit; each attempt has
\* the whole budget of repetitions.
THEOREM RetriesAreTransient == Spec => RetriesOnlyTransient
<1> DEFINE A == /\ pc = "prompt" /\ pc' = "failed" =>
                       transport = MaxTransport \/ ~ IsTransient(failure') \/ MaxDelay < BaseDelay
                /\ transport' > transport =>
                       IsTransient(failure') /\ BaseDelay <= MaxDelay /\ calls' # calls
                /\ attempt' > attempt /\ pc' = "prompt" => transport' = 1
<1>1. ASSUME PlanInv, [Next]_vars
      PROVE  [A]_vars
    <2>1. /\ transport \in 1 .. MaxTransport /\ MaxTransport \in Nat \ {0}
          /\ attempt \in 1 .. 3 /\ calls \in [Agent -> Nat]
          /\ BaseDelay \in Nat /\ MaxDelay \in Nat
        BY <1>1, RetryAssumption
        DEF PlanInv, ControlTypes, AttemptLimit, BaseDelay, MaxDelay
    <2>2. ASSUME NEW f \in Failures, PromptFails(f)
          PROVE  A
        <3>1. failure' = f /\ calls' # calls /\ attempt' = attempt
            BY <2>1, <2>2 DEF PromptFails, Call, Agent
        <3>2. CASE IsTransient(f) /\ transport < MaxTransport /\ BaseDelay <= MaxDelay
            <4>1. pc' = "prompt" /\ pc = "prompt"
                BY <2>2, <3>2, RetriedIsTransient DEF PromptFails, DelaysFit
            <4> QED
                BY <2>1, <3>1, <3>2, <4>1
        <3>3. CASE ~ (IsTransient(f) /\ transport < MaxTransport /\ BaseDelay <= MaxDelay)
            <4>1. transport' = transport
                BY <2>2, <3>3, RetriedIsTransient DEF PromptFails, DelaysFit
            <4>2. transport = MaxTransport \/ ~ IsTransient(f) \/ MaxDelay < BaseDelay
                BY <2>1, <3>3
            <4> QED
                BY <2>1, <3>1, <4>1, <4>2
        <3> QED
            BY <3>2, <3>3
    <2>3. CASE RejectAnswer
        BY <2>1, <2>3 DEF RejectAnswer
    <2>4. CASE DesignerAnswers
        BY <2>1, <2>4 DEF DesignerAnswers
    <2>5. ASSUME UNCHANGED <<attempt, transport>>, pc # "prompt" \/ pc' # "failed"
          PROVE  A
        BY <2>1, <2>5
    <2> QED
        BY <1>1, <2>2, <2>3, <2>4, <2>5
        DEF Next, ReadPlanFile, StartPlanning, DesignerFails, SpawnFails, PromptAnswers,
            SkipObject, TryObject, Validate, RefuseObject, AcceptObject, RejectPlanFile,
            SavePlan, Ended, control
<1>2. Spec => [][A]_vars
    BY <1>1, PlanHolds, PTL DEF Spec
<1> QED
    BY <1>2 DEF RetriesOnlyTransient

-----------------------------------------------------------------------------
(* The report on an accepted graph.                                        *)

\* What Max returns of a finite set of numbers. Were there sets without a greatest
\* number, the smallest of them would have one.
LEMMA MaxOfNumbers ==
    ASSUME NEW S \in SUBSET Nat, IsFiniteSet(S), S # {}
    PROVE  Max(S) \in S /\ \A y \in S : y <= Max(S)
<1> DEFINE HasMax(U) == \E x \in U : \A y \in U : x >= y
           T == {n \in Nat : \E U \in SUBSET S : U # {} /\ Cardinality(U) = n /\ ~ HasMax(U)}
<1>1. ASSUME T # {}
      PROVE  FALSE
    <2>1. PICK n \in T : \A m \in T : n <= m
        BY <1>1, LeastNumber
    <2>2. PICK U \in SUBSET S : U # {} /\ Cardinality(U) = n /\ ~ HasMax(U)
        OBVIOUS
    <2>3. PICK x \in U : TRUE
        BY <2>2
    <2>4. IsFiniteSet(U)
        BY FS_Subset
    <2>5. Cardinality(U \ {x}) = n - 1 /\ Cardinality(U \ {x}) \in Nat
        BY <2>2, <2>3, <2>4, FS_RemoveElement, FS_CardinalityType
    <2>6. n \in Nat /\ n - 1 \in Nat /\ n - 1 \notin T
        BY <2>1, <2>5
    <2>7. U \ {x} = {} \/ HasMax(U \ {x})
        BY <2>5, <2>6
    <2>8. CASE U \ {x} = {}
        <3>1. U = {x} /\ x \in Nat
            BY <2>3, <2>8
        <3> QED
            BY <2>2, <3>1
    <2>9. CASE HasMax(U \ {x})
        <3>1. PICK z \in U \ {x} : \A y \in U \ {x} : z >= y
            BY <2>9
        <3>2. x \in Nat /\ z \in Nat /\ U \subseteq Nat
            BY <2>3
        <3>3. CASE x >= z
            <4>1. \A y \in U : x >= y
                BY <3>1, <3>2, <3>3
            <4> QED
                BY <2>2, <2>3, <4>1
        <3>4. CASE z >= x
            BY <2>2, <3>1, <3>2, <3>4
        <3> QED
            BY <3>2, <3>3, <3>4
    <2> QED
        BY <2>7, <2>8, <2>9
<1>2. Cardinality(S) \in Nat /\ S \in SUBSET S
    BY FS_CardinalityType
<1>3. HasMax(S)
    BY <1>1, <1>2
<1>4. PICK x \in S : \A y \in S : x >= y
    BY <1>3
<1>5. Max(S) \in S /\ \A y \in S : Max(S) >= y
    BY <1>4 DEF Max
<1> QED
    BY <1>5

\* The tasks of a list are finitely many, and so are the dependencies of one.
LEMMA FewTasks ==
    ASSUME NEW ts \in Graphs
    PROVE  IsFiniteSet(Ids(ts))
<1> DEFINE f == [i \in DOMAIN ts |-> ts[i].id]
<1>1. DOMAIN ts = 1 .. Len(ts) /\ Len(ts) \in Nat
    BY GraphsAssumption DEF IsList
<1>2. IsFiniteSet(DOMAIN ts)
    BY <1>1, FS_Interval
<1>3. f \in Surjection(DOMAIN ts, Ids(ts))
    BY DEF Surjection, Ids
<1> QED
    BY <1>2, <1>3, FS_Surjection

LEMMA FewDependencies ==
    ASSUME NEW ts \in Graphs, IsWellFormed(ts), NEW id \in Ids(ts)
    PROVE  DependsOn(ts, id) \subseteq Ids(ts) /\ IsFiniteSet(DependsOn(ts, id))
<1> DEFINE s == DepsOf(ts, id)
           f == [j \in DOMAIN s |-> s[j]]
<1>1. DOMAIN s = 1 .. Len(s) /\ Len(s) \in Nat /\ DependsOn(ts, id) \subseteq Ids(ts)
    BY DependenciesAreTasks DEF IsList
<1>2. IsFiniteSet(DOMAIN s)
    BY <1>1, FS_Interval
<1>3. f \in Surjection(DOMAIN s, DependsOn(ts, id))
    BY DEF Surjection, DependsOn
<1> QED
    BY <1>1, <1>2, <1>3, FS_Surjection

\* A set of tasks that has every task whose dependencies it has is all of them.
LEMMA AcyclicInduction ==
    ASSUME NEW ts, IsAcyclic(ts), NEW G,
           \A id \in Ids(ts) : DependsOn(ts, id) \cap Ids(ts) \subseteq G => id \in G
    PROVE  Ids(ts) \subseteq G
<1>1. ASSUME Ids(ts) \ G # {}
      PROVE  FALSE
    <2>1. PICK id \in Ids(ts) \ G : DependsOn(ts, id) \cap (Ids(ts) \ G) = {}
        BY <1>1 DEF IsAcyclic
    <2> QED
        BY <2>1
<1> QED
    BY <1>1

\* What computeDependencyDepth computes for one task from the depths of others.
Level(ts, f, id) == Max({0} \cup {f[d] + 1 : d \in DependsOn(ts, id)})

\* The depths of the tasks in D, none of which depends on a task outside D.
IsDepthOn(ts, f, D) ==
    \A id \in D : DependsOn(ts, id) \subseteq D /\ f[id] = Level(ts, f, id)

LEMMA LevelIsNumber ==
    ASSUME NEW ts \in Graphs, IsWellFormed(ts), NEW id \in Ids(ts), NEW f \in [Ids(ts) -> Nat]
    PROVE  /\ Level(ts, f, id) \in Nat
           /\ Level(ts, f, id) = 0 <=> DependsOn(ts, id) = {}
           /\ \A d \in DependsOn(ts, id) : f[d] < Level(ts, f, id)
<1> DEFINE D == DependsOn(ts, id)
           g == [d \in D |-> f[d] + 1]
           E == {f[d] + 1 : d \in D}
<1>0. DependsOn(ts, id) \subseteq Ids(ts) /\ IsFiniteSet(DependsOn(ts, id))
    BY FewDependencies
<1>1. D \subseteq Ids(ts) /\ IsFiniteSet(D)
    BY <1>0
<1> HIDE DEF D
<1>2. g \in Surjection(D, E)
    BY DEF Surjection
<1>3. IsFiniteSet(E) /\ E \in SUBSET (Nat \ {0})
    BY <1>1, <1>2, FS_Surjection
<1>4. IsFiniteSet({0} \cup E)
    BY <1>3, FS_AddElement, FS_Union, FS_Singleton
<1>5. Max({0} \cup E) \in {0} \cup E /\ \A y \in {0} \cup E : y <= Max({0} \cup E)
    <2> DEFINE M == {0} \cup E
    <2>1. M \in SUBSET Nat /\ M # {} /\ IsFiniteSet(M)
        BY <1>3, <1>4
    <2> HIDE DEF M
    <2>2. Max(M) \in M /\ \A y \in M : y <= Max(M)
        BY <2>1, MaxOfNumbers
    <2> QED
        BY <2>2 DEF M
<1>6. Level(ts, f, id) = Max({0} \cup E)
    BY DEF Level, D
<1>7. \A d \in D : f[d] \in Nat /\ f[d] + 1 \in {0} \cup E
    BY <1>1
<1>8. D = {} <=> E = {}
    OBVIOUS
<1> HIDE DEF E
<1> DEFINE l == Level(ts, f, id)
<1>9. l \in {0} \cup E /\ \A y \in {0} \cup E : y <= l
    BY <1>5, <1>6
<1> HIDE DEF l
<1>10. l \in Nat
    BY <1>3, <1>9
<1>11. \A d \in D : f[d] < l
    BY <1>7, <1>9, <1>10
<1>12. l = 0 <=> D = {}
    BY <1>3, <1>8, <1>9, <1>10
<1> QED
    BY <1>10, <1>11, <1>12 DEF D, l

\* Of two functions that agree on its dependencies a task gets the same level.
LEMMA LevelDepends ==
    ASSUME NEW ts, NEW id, NEW f, NEW g, \A d \in DependsOn(ts, id) : f[d] = g[d]
    PROVE  Level(ts, f, id) = Level(ts, g, id)
<1>1. {f[d] + 1 : d \in DependsOn(ts, id)} = {g[d] + 1 : d \in DependsOn(ts, id)}
    OBVIOUS
<1> QED
    BY <1>1 DEF Level

\* Every task of a graph without cycles has a depth: what has one can be extended by a
\* task that depends on nothing else, until nothing is left.
LEMMA DepthsExist ==
    ASSUME NEW ts \in Graphs, IsWellFormed(ts), IsAcyclic(ts)
    PROVE  \E f \in [Ids(ts) -> Nat] : IsDepthOn(ts, f, Ids(ts))
<1> DEFINE I == Ids(ts)
           Left(D) == Cardinality(I \ D)
           T == {n \in Nat : \E D \in SUBSET I, f \in [I -> Nat] :
                                 IsDepthOn(ts, f, D) /\ Left(D) = n}
<1>1. \A D \in SUBSET I : IsFiniteSet(I \ D) /\ Left(D) \in Nat
    BY FewTasks, FS_Difference, FS_CardinalityType
<1>2. T # {}
    <2>1. [id \in I |-> 0] \in [I -> Nat] /\ IsDepthOn(ts, [id \in I |-> 0], {})
        BY DEF IsDepthOn
    <2>2. Left({}) \in T
        BY <1>1, <2>1
    <2> QED
        BY <2>2
<1>3. PICK n \in T : \A m \in T : n <= m
    BY <1>2, LeastNumber
<1>4. PICK D \in SUBSET I, f \in [I -> Nat] : IsDepthOn(ts, f, D) /\ Left(D) = n
    OBVIOUS
<1>5. ASSUME D # I
      PROVE  FALSE
    <2>1. PICK id \in I \ D : DependsOn(ts, id) \cap (I \ D) = {}
        BY <1>5 DEF IsAcyclic
    <2>2. DependsOn(ts, id) \subseteq D
        BY <2>1, FewDependencies
    <2> DEFINE E == D \cup {id}
               g == [f EXCEPT ![id] = Level(ts, f, id)]
    <2>3. g \in [I -> Nat] /\ g[id] = Level(ts, f, id) /\ \A d \in D : g[d] = f[d]
        BY <2>1, LevelIsNumber
    <2> HIDE DEF g
    <2>4. ASSUME NEW x \in E
          PROVE  DependsOn(ts, x) \subseteq E /\ g[x] = Level(ts, g, x)
        <3>1. DependsOn(ts, x) \subseteq D /\ g[x] = Level(ts, f, x)
            BY <1>4, <2>2, <2>3 DEF IsDepthOn
        <3>2. Level(ts, f, x) = Level(ts, g, x)
            BY <2>3, <3>1, LevelDepends
        <3> QED
            BY <3>1, <3>2
    <2>5. IsDepthOn(ts, g, E) /\ E \in SUBSET I
        BY <2>1, <2>4 DEF IsDepthOn
    <2>6. I \ E = (I \ D) \ {id}
        OBVIOUS
    <2>7. Cardinality((I \ D) \ {id}) = Cardinality(I \ D) - 1
        <3>1. IsFiniteSet(I \ D) /\ id \in I \ D
            BY <1>1, <2>1
        <3> QED
            BY <3>1, FS_RemoveElement
    <2>8. n \in Nat /\ Left(E) \in Nat /\ Left(E) = n - 1
        BY <1>1, <1>3, <1>4, <2>5, <2>6, <2>7
    <2>9. Left(E) \in T
        BY <2>3, <2>5, <2>8
    <2>10. n <= Left(E)
        BY <1>3, <2>9
    <2> QED
        BY <2>8, <2>10
<1> QED
    BY <1>4, <1>5

\* computeDependencyDepth ends with the level of every task above those of its
\* dependencies.
LEMMA DepthsAreLevels ==
    ASSUME NEW ts \in Graphs, IsWellFormed(ts), IsAcyclic(ts)
    PROVE  /\ Depths(ts) \in [Ids(ts) -> Nat]
           /\ \A id \in Ids(ts) : Depths(ts)[id] = Level(ts, Depths(ts), id)
<1> DEFINE I == Ids(ts)
           IsFixed(f) == f = [id \in I |-> Level(ts, f, id)]
<1>1. PICK f \in [I -> Nat] : IsDepthOn(ts, f, I)
    BY DepthsExist
<1>2. IsFixed(f)
    BY <1>1 DEF IsDepthOn
<1>3. Depths(ts) = CHOOSE depth : depth = [id \in I |-> Level(ts, depth, id)]
    BY DEF Depths, Level
<1>4. IsFixed(Depths(ts))
    BY <1>2, <1>3
<1> DEFINE g == Depths(ts)
           G == {id \in I : g[id] = f[id]}
<1> HIDE DEF g
<1>5. ASSUME NEW id \in I, DependsOn(ts, id) \cap I \subseteq G
      PROVE  id \in G
    <2>1. \A d \in DependsOn(ts, id) : g[d] = f[d]
        BY <1>5, FewDependencies
    <2>2. Level(ts, g, id) = Level(ts, f, id)
        BY <2>1, LevelDepends
    <2> QED
        BY <1>2, <1>4, <2>2 DEF g
<1>6. I \subseteq G
    BY <1>5, AcyclicInduction
<1>7. g = f
    BY <1>1, <1>4, <1>6 DEF g
<1> QED
    BY <1>1, <1>4, <1>7 DEF g

\* The groups of a graph without cycles are a schedule of it.
LEMMA AnalysisIsSchedule ==
    ASSUME NEW ts \in Graphs, IsWellFormed(ts), IsAcyclic(ts)
    PROVE  IsSchedule(AnalyzeTaskGraph(ts), ts)
<1> DEFINE I == Ids(ts)
           g == Depths(ts)
           top == Max({g[id] : id \in I})
           groups == [level \in 0 .. top |-> {id \in I : g[id] = level}]
           analysis == AnalyzeTaskGraph(ts)
<1>1. g \in [I -> Nat] /\ \A id \in I : g[id] = Level(ts, g, id)
    BY DepthsAreLevels
<1>2. /\ analysis.groups = groups
      /\ analysis.roots = {id \in I : DependsOn(ts, id) = {}}
      /\ analysis.warnings = ConflictWarnings(ts)
    BY DEF AnalyzeTaskGraph
<1> HIDE DEF g, analysis
<1>3. ASSUME NEW id \in I
      PROVE  /\ g[id] = 0 <=> DependsOn(ts, id) = {}
             /\ DependsOn(ts, id) \subseteq I
             /\ \A d \in DependsOn(ts, id) : g[d] < g[id]
    BY <1>1, <1>3, LevelIsNumber, FewDependencies
<1>4. top \in Nat /\ \A id \in I : g[id] \in 0 .. top
    <2> DEFINE S == {g[id] : id \in I}
               f == [id \in I |-> g[id]]
    <2>1. f \in Surjection(I, S) /\ S \in SUBSET Nat
        BY <1>1 DEF Surjection
    <2>2. IsFiniteSet(S)
        BY <2>1, FewTasks, FS_Surjection
    <2>3. S # {}
        <3>1. DOMAIN ts = 1 .. Len(ts) /\ Len(ts) \in Nat /\ Len(ts) > 0
            BY GraphsAssumption DEF IsList, IsWellFormed
        <3>2. 1 \in DOMAIN ts
            BY <3>1
        <3>3. ts[1].id \in I
            BY <3>2 DEF Ids
        <3> QED
            BY <3>3
    <2> HIDE DEF S
    <2>4. Max(S) \in S /\ \A y \in S : y <= Max(S)
        BY <2>1, <2>2, <2>3, MaxOfNumbers
    <2>5. top \in Nat /\ \A y \in S : y \in 0 .. top
        BY <2>1, <2>4 DEF S
    <2> HIDE DEF top
    <2> QED
        BY <2>5 DEF S
<1> HIDE DEF top
<1>5. UNION {groups[l] : l \in DOMAIN groups} = I
    BY <1>1, <1>4
<1>6. groups[0] = {id \in I : DependsOn(ts, id) = {}}
    BY <1>3, <1>4
<1>7. ASSUME NEW l \in 0 .. top, NEW a \in groups[l]
      PROVE  DependsOn(ts, a) \subseteq UNION {groups[k] : k \in 0 .. l - 1}
    <2>1. a \in I /\ g[a] = l
        BY <1>7
    <2>2. ASSUME NEW d \in DependsOn(ts, a)
          PROVE  g[d] \in 0 .. l - 1 /\ d \in groups[g[d]]
        BY <1>1, <1>3, <1>4, <2>1
    <2> QED
        BY <2>2
\* What a task transitively depends on has a smaller depth than it has.
<1>8. ASSUME NEW a \in I, NEW b \in Ancestors(ts, a)
      PROVE  g[b] < g[a]
    <2> DEFINE Known == UNION {DependsOn(ts, i) : i \in I}
               A == {x \in Known : g[x] < g[a]}
    <2>1. Known \subseteq I
        BY <1>3
    <2>2. DependsOn(ts, a) \subseteq A
        BY <1>3
    <2>3. ASSUME NEW x \in A \cap I
          PROVE  DependsOn(ts, x) \subseteq A
        BY <1>1, <1>3, <2>1
    <2>4. A \in SUBSET Known
        OBVIOUS
    <2>5. b \in A
        BY <2>2, <2>3, <2>4 DEF Ancestors
    <2> QED
        BY <2>5
<1>9. ASSUME NEW l \in 0 .. top, NEW a \in groups[l], NEW b \in groups[l], a # b
      PROVE  AreIndependent(ts, a, b)
    <2>1. a \in I /\ b \in I /\ g[a] = l /\ g[b] = l /\ l \in Nat
        BY <1>9
    <2> QED
        BY <1>8, <1>9, <2>1 DEF AreIndependent
<1>10. ASSUME NEW i \in DOMAIN ts, NEW j \in DOMAIN ts, NEW l \in 0 .. top, i < j,
              {ts[i].id, ts[j].id} \subseteq groups[l],
              NEW d \in ts[i].domains \cap ts[j].domains
       PROVE  <<ts[i].id, ts[j].id, d>> \in ConflictWarnings(ts)
    <2>1. i # j
        BY <1>10, GraphsAssumption DEF IsList
    <2>2. ts[i].id # ts[j].id
        BY <2>1 DEF IsWellFormed, HasUniqueIds
    <2>3. AreIndependent(ts, ts[i].id, ts[j].id)
        BY <1>9, <1>10, <2>2
    <2> DEFINE p == <<i, j>>
               Shared(q) == {<<ts[q[1]].id, ts[q[2]].id, e>> :
                                 e \in ts[q[1]].domains \cap ts[q[2]].domains}
    <2>4. p \in (DOMAIN ts) \X (DOMAIN ts) /\ p[1] = i /\ p[2] = j
        OBVIOUS
    <2>5. <<ts[i].id, ts[j].id, d>> \in Shared(p)
        BY <2>4
    <2> QED
        BY <1>10, <2>3, <2>4, <2>5 DEF ConflictWarnings
<1> HIDE DEF groups
<1>11. DOMAIN groups = 0 .. top
    BY DEF groups
<1>12. \A i, j \in DOMAIN ts, l \in DOMAIN analysis.groups :
           i < j /\ {ts[i].id, ts[j].id} \subseteq analysis.groups[l] =>
             \A d \in ts[i].domains \cap ts[j].domains :
               <<ts[i].id, ts[j].id, d>> \in analysis.warnings
    BY <1>2, <1>10, <1>11
<1>13. \A l \in DOMAIN analysis.groups : \A a \in analysis.groups[l] :
         /\ DependsOn(ts, a) \subseteq UNION {analysis.groups[k] : k \in 0 .. l - 1}
         /\ \A b \in analysis.groups[l] \ {a} : AreIndependent(ts, a, b)
    BY <1>2, <1>7, <1>9, <1>11
<1>14. UNION {analysis.groups[l] : l \in DOMAIN analysis.groups} = Ids(ts)
       /\ analysis.groups[0] = analysis.roots
    BY <1>2, <1>5, <1>6
<1> QED
    BY <1>12, <1>13, <1>14 DEF IsSchedule, analysis

\* Whatever graph was accepted, the parallel groups that `amiral plan` reports of
\* it are a schedule: no task is missing, every dependency is in an earlier group, no
\* two tasks of a group depend on each other, and those of them that the scheduler
\* would hold apart are named in a warning (analyzeTaskGraph).
THEOREM ReportsAreSchedules == Spec => []ReportIsSchedule
<1>1. ASSUME PlanInv
      PROVE  ReportIsSchedule
    <2>1. ASSUME pc = "done"
          PROVE  IsSchedule(AnalyzeTaskGraph(plan), plan)
        <3>1. plan = tasks /\ verdict = "accepted" /\ tasks \in Graphs
            BY <1>1, <2>1 DEF PlanInv, TryInv, SearchInv, SearchTypes, Searching
        <3>2. IsWellFormed(plan) /\ IsAcyclic(plan)
            BY <1>1, <3>1, AcceptedIsAcyclic DEF PlanInv
        <3> QED
            BY <3>1, <3>2, AnalysisIsSchedule
    <2> QED
        BY <2>1 DEF ReportIsSchedule
<1> QED
    BY <1>1, PlanHolds, PTL

-----------------------------------------------------------------------------
(* Planning runs down. That a called agent answers at all is assumed       *)
(* (PlanningEnds, which TLC checks); that no path through attempts, failed *)
(* calls, rejected answers and candidates goes on for ever is proved here. *)

\* What is still ahead, besides the part that planWorkflow is in.
PartsLeft ==
    CASE pc = "start" -> 4
      [] pc = "design" -> 3
      [] pc \in {"prompt", "parse", "validate"} -> 2
      [] pc = "write" -> 1
      [] pc \in Failed \cup {"done"} -> 0

\* The calls that the attempt has left, until it has an answer.
CallsLeft == IF pc = "prompt" THEN MaxTransport - transport + 1 ELSE 0

\* A part less; an attempt more; a call less; an object of the answer less; the
\* validation of an object begun; its verdict found, or the search for it closer. None of
\* these can happen for ever unless one named before it happens, and the attempts have
\* a limit.
PlanningCloser ==
    \/ PartsLeft' < PartsLeft
    \/ /\ PartsLeft' = PartsLeft /\ attempt' \in attempt + 1 .. AttemptLimit
    \/ /\ PartsLeft' = PartsLeft /\ attempt' = attempt
       /\ \/ CallsLeft' < CallsLeft
          \/ CallsLeft' = CallsLeft /\ Len(rest') < Len(rest)
          \/ /\ CallsLeft' = CallsLeft /\ rest' = rest
             /\ \/ pc = "parse" /\ pc' = "validate"
                \/ /\ pc = "validate" /\ pc' = "validate" /\ verdict = "running"
                   /\ verdict' # "running" \/ SearchCloser

PlanningRunsDown == [][PlanningCloser]_vars

PartsFit ==
    /\ pc = "start" => PartsLeft = 4
    /\ pc = "design" => PartsLeft = 3
    /\ pc \in {"prompt", "parse", "validate"} => PartsLeft = 2
    /\ pc = "write" => PartsLeft = 1
    /\ pc \in {"failed", "spawn_failed", "done"} => PartsLeft = 0

LEMMA PartsByPlace == PartsFit /\ PartsFit'
<1>1. PartsFit
    BY DEF PartsFit, PartsLeft, Failed
<1> QED
    BY <1>1, PTL

\* The steps of the planner's part that reject, repeat or take an answer.
LEMMA PromptIsCloser ==
    ASSUME ControlTypes, RestInv,
           (\E f \in Failures : PromptFails(f)) \/ PromptAnswers \/ RejectAnswer
    PROVE  PlanningCloser
<1>0. /\ MaxTransport \in Nat \ {0} /\ transport \in 1 .. MaxTransport
      /\ attempt \in 1 .. AttemptLimit /\ AttemptLimit = 3
    BY RetryAssumption DEF ControlTypes, AttemptLimit
<1>1. CASE PromptAnswers
    <2>1. pc = "prompt" /\ pc' = "parse" /\ attempt' = attempt
        BY <1>1 DEF PromptAnswers
    <2>2. PartsLeft' = PartsLeft /\ CallsLeft' = 0 /\ CallsLeft = MaxTransport - transport + 1
        BY <2>1, PartsByPlace DEF PartsFit, CallsLeft
    <2>3. CallsLeft' < CallsLeft
        BY <1>0, <2>2
    <2> QED
        BY <2>1, <2>2, <2>3 DEF PlanningCloser
<1>2. ASSUME NEW f \in Failures, PromptFails(f)
      PROVE  PlanningCloser
    <2>1. pc = "prompt" /\ attempt' = attempt
        BY <1>2 DEF PromptFails
    <2>2. CASE pc' = "failed"
        <3>1. PartsLeft' = 0 /\ PartsLeft = 2
            BY <2>1, <2>2, PartsByPlace DEF PartsFit
        <3> QED
            BY <3>1 DEF PlanningCloser
    <2>3. CASE pc' = "prompt" /\ transport' = transport + 1
        <3>1. /\ PartsLeft' = PartsLeft
              /\ CallsLeft = MaxTransport - transport + 1
              /\ CallsLeft' = MaxTransport - (transport + 1) + 1
            BY <2>1, <2>3, PartsByPlace DEF PartsFit, CallsLeft
        <3>2. CallsLeft' < CallsLeft
            BY <1>0, <3>1
        <3> QED
            BY <2>1, <3>1, <3>2 DEF PlanningCloser
    <2>4. pc' = "failed" \/ (pc' = "prompt" /\ transport' = transport + 1)
        BY <1>2, <2>1 DEF PromptFails
    <2> QED
        BY <2>2, <2>3, <2>4
<1>3. CASE RejectAnswer
    <2>1. pc = "parse"
        BY <1>3 DEF RejectAnswer
    <2>2. CASE attempt < AttemptLimit
        <3>1. pc' = "prompt" /\ attempt' = attempt + 1
            BY <1>3, <2>2 DEF RejectAnswer
        <3>2. PartsLeft' = PartsLeft
            BY <2>1, <3>1, PartsByPlace DEF PartsFit
        <3>3. attempt' \in attempt + 1 .. AttemptLimit
            BY <1>0, <2>2, <3>1
        <3> QED
            BY <3>2, <3>3 DEF PlanningCloser
    <2>3. CASE ~ (attempt < AttemptLimit)
        <3>1. pc' = "failed"
            BY <1>3, <2>3 DEF RejectAnswer
        <3>2. PartsLeft' = 0 /\ PartsLeft = 2
            BY <2>1, <3>1, PartsByPlace DEF PartsFit
        <3> QED
            BY <3>2 DEF PlanningCloser
    <2> QED
        BY <2>2, <2>3
<1> QED
    BY <1>1, <1>2, <1>3

\* The steps through the objects of an answer.
LEMMA ObjectIsCloser ==
    ASSUME RestInv, SearchInv,
           SkipObject \/ TryObject \/ Validate \/ RefuseObject \/ AcceptObject
    PROVE  PlanningCloser
<1>1. CASE SkipObject \/ RefuseObject
    <2>1. /\ rest # <<>> /\ rest' = Tail(rest) /\ attempt' = attempt
          /\ pc \in {"parse", "validate"} /\ pc' = "parse"
        BY <1>1 DEF SkipObject, RefuseObject, RestInv
    <2>2. Len(rest') < Len(rest)
        BY <2>1 DEF RestInv
    <2>3. PartsLeft' = PartsLeft /\ CallsLeft' = CallsLeft
        BY <2>1, PartsByPlace DEF PartsFit, CallsLeft
    <2> QED
        BY <2>1, <2>2, <2>3 DEF PlanningCloser
<1>2. CASE TryObject
    <2>1. pc = "parse" /\ pc' = "validate" /\ attempt' = attempt /\ rest' = rest
        BY <1>2 DEF TryObject
    <2>2. PartsLeft' = PartsLeft /\ CallsLeft' = CallsLeft
        BY <2>1, PartsByPlace DEF PartsFit, CallsLeft
    <2> QED
        BY <2>1, <2>2 DEF PlanningCloser
<1>3. CASE Validate
    <2>1. /\ pc = "validate" /\ pc' = "validate" /\ attempt' = attempt /\ rest' = rest
          /\ Search
        BY <1>3 DEF Validate, control
    <2>2. verdict = "running"
        BY <2>1 DEF Search, VisitRoot, VisitDependency, FindCycle, Return, Accept
    <2>3. verdict' # "running" \/ SearchCloser
        BY <2>1, SearchComesCloser
    <2>4. PartsLeft' = PartsLeft /\ CallsLeft' = CallsLeft
        BY <2>1, PartsByPlace DEF PartsFit, CallsLeft
    <2> QED
        BY <2>1, <2>2, <2>3, <2>4 DEF PlanningCloser
<1>4. CASE AcceptObject
    <2>1. pc = "validate" /\ pc' = "write"
        BY <1>4 DEF AcceptObject
    <2>2. PartsLeft' = 1 /\ PartsLeft = 2
        BY <2>1, PartsByPlace DEF PartsFit
    <2> QED
        BY <2>2 DEF PlanningCloser
<1> QED
    BY <1>1, <1>2, <1>3, <1>4

LEMMA PlanningComesCloser ==
    ASSUME ControlTypes, RestInv, SearchInv, Next, ~ Ended
    PROVE  PlanningCloser
<1>1. CASE ReadPlanFile \/ StartPlanning
    <2>1. pc = "start" /\ pc' \in {"parse", "design", "prompt"}
        BY <1>1 DEF ReadPlanFile, StartPlanning
    <2>2. PartsLeft = 4 /\ PartsLeft' \in {2, 3}
        BY <2>1, PartsByPlace DEF PartsFit
    <2> QED
        BY <2>2 DEF PlanningCloser
<1>2. CASE DesignerAnswers \/ DesignerFails
    <2>1. /\ pc = "design" /\ attempt \in 1 .. 3 /\ AttemptLimit = 3
          /\ \/ pc' \in {"prompt", "failed"}
             \/ pc' = "design" /\ attempt < AttemptLimit /\ attempt' = attempt + 1
        BY <1>2 DEF DesignerAnswers, DesignerFails, ControlTypes, AttemptLimit
    <2>2. CASE pc' \in {"prompt", "failed"}
        <3>1. PartsLeft = 3 /\ PartsLeft' \in {2, 0}
            BY <2>1, <2>2, PartsByPlace DEF PartsFit
        <3> QED
            BY <3>1 DEF PlanningCloser
    <2>3. CASE pc' = "design" /\ attempt < AttemptLimit /\ attempt' = attempt + 1
        <3>1. PartsLeft' = PartsLeft
            BY <2>1, <2>3, PartsByPlace DEF PartsFit
        <3>2. attempt' \in attempt + 1 .. AttemptLimit
            BY <2>1, <2>3
        <3> QED
            BY <3>1, <3>2 DEF PlanningCloser
    <2> QED
        BY <2>1, <2>2, <2>3
<1>3. CASE SpawnFails
    <2>1. pc \in {"design", "prompt"} /\ pc' = "spawn_failed"
        BY <1>3 DEF SpawnFails
    <2>2. PartsLeft \in {2, 3} /\ PartsLeft' = 0
        BY <2>1, PartsByPlace DEF PartsFit
    <2> QED
        BY <2>2 DEF PlanningCloser
<1>4. CASE RejectPlanFile \/ SavePlan
    <2>1. /\ pc \in {"parse", "write"} /\ pc' \in {"failed", "done"}
        BY <1>4 DEF RejectPlanFile, SavePlan
    <2>2. PartsLeft \in {1, 2} /\ PartsLeft' = 0
        BY <2>1, PartsByPlace DEF PartsFit
    <2> QED
        BY <2>2 DEF PlanningCloser
<1> QED
    BY <1>1, <1>2, <1>3, <1>4, PromptIsCloser, ObjectIsCloser DEF Next

\* Whatever the agents answer, whatever fails and however tangled the graphs are,
\* planWorkflow does only finitely many things: every step is closer to its end
\* (planWorkflow, createDesignSpec, parsePlannerOutput, assertNoDependencyCycles).
THEOREM PlanningIsFinite == Spec => PlanningRunsDown
<1>1. PlanInv /\ [Next]_vars => [PlanningCloser]_vars
    BY PlanningComesCloser DEF PlanInv, Ended
<1> QED
    BY <1>1, PlanHolds, PTL DEF Spec, PlanningRunsDown
=============================================================================
