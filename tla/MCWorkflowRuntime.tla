------------------------- MODULE MCWorkflowRuntime -------------------------
(***************************************************************************)
(* An instance of WorkflowRuntime for TLC with two slots. Tasks 1 and 2    *)
(* are independent and share a conflict domain, task 3 depends on task 1   *)
(* and may run beside task 2, and task 4 has nothing to do with the        *)
(* others, so that it competes with each of them for the slots.            *)
(***************************************************************************)
EXTENDS WorkflowRuntime

MCDeps == <<{}, {}, {1}, {}>>
MCDomains == <<{"api"}, {"api", "db"}, {"ui"}, {"ops"}>>
MCMaxAttempts == <<2, 2, 1, 1>>
=============================================================================
