------------------------- MODULE CapabilityRouting -------------------------
(***************************************************************************)
(* selectAgentForTask: the agent that a ready task is given to. Agents are *)
(* numbered in the order of localeCompare, which decides ties.             *)
(***************************************************************************)
EXTENDS Integers, Sequences

CONSTANTS
    NumAgents,
    GateAgents,     \* reviewer and qa
    Capabilities,   \* Capabilities[a]: those of agent a in team.yaml
    Priority        \* Priority[a]: its routing_priority

Agent == 1 .. NumAgents

ASSUME AgentAssumption ==
    /\ NumAgents \in Nat
    /\ GateAgents \subseteq Agent
    /\ DOMAIN Capabilities = Agent
    /\ Priority \in [Agent -> Int]

\* The bonus of the i-th preferred agent.
Preference(a, preferred) ==
    IF \E i \in DOMAIN preferred : preferred[i] = a
    THEN LET i == CHOOSE i \in DOMAIN preferred :
                     preferred[i] = a /\ \A j \in 1 .. i - 1 : preferred[j] # a
         IN IF 25 - 5 * (i - 1) > 1 THEN 25 - 5 * (i - 1) ELSE 1
    ELSE 0

\* Of the agents that have all capabilities; the matches add the same to each.
Score(a, preferred) == Preference(a, preferred) + Priority[a]

Candidates(required) == {a \in Agent : required \subseteq Capabilities[a]}

IsRouted(routing) == routing.mode = "auto" /\ routing.required # {}

\* The agents that may be given a task that has `agent`: none if nobody
\* satisfies the requirements, which is an error.
SelectAgent(agent, routing) ==
    IF ~ IsRouted(routing) THEN {agent}
    ELSE LET Beats(a, b) == \/ Score(a, routing.preferred) > Score(b, routing.preferred)
                            \/ /\ Score(a, routing.preferred) = Score(b, routing.preferred)
                               /\ a <= b
         IN {a \in Candidates(routing.required) :
                \A b \in Candidates(routing.required) : Beats(a, b)}
=============================================================================
