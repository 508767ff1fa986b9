----------------------------- MODULE MCDelivery -----------------------------
(***************************************************************************)
(* Agents 1 and 2 are developers, agent 3 is the reviewer, whose           *)
(* routing_priority is above that of agent 1 as in team.yaml, and who has  *)
(* a capability that a developer has, too.                                 *)
(***************************************************************************)
EXTENDS Delivery

MCCapabilities == <<{"general/clean-code"}, {"backend/nodejs"},
                    {"general/clean-code", "review/code"}>>
MCPriority == <<5, 20, 10>>

Auto(preferred) ==
    [mode |-> "auto", required |-> {"general/clean-code"}, preferred |-> preferred]
Fixed == [mode |-> "fixed", required |-> {}, preferred |-> <<>>]

\* A planned task and a fix task, two leases each; the preference for agent 1
\* outweighs the reviewer's priority.
MCFirstAgent == <<2, 2>>
MCRouting == <<Auto(<<1>>), Fixed>>
MCMaxLeases == <<2, 2>>
MCPolicies == {{"completed"}, {"failed"}, {"completed", "failed", "branches"}}

\* Two planned tasks, one lease each; without a preference the reviewer wins.
MCUnguidedRouting == <<Fixed, Auto(<<>>)>>
MCOneLease == <<1, 1>>
=============================================================================
