------------------------- MODULE MCProjectCommands -------------------------
(***************************************************************************)
(* An instance of ProjectCommands for TLC: three commands and the ids of   *)
(* two workflows.                                                          *)
(***************************************************************************)
EXTENDS ProjectCommands

CONSTANTS a, b, c, v, w

MCCommand == {a, b, c}
MCReader == {c}
MCEvaluator == {a}
MCWorkflow == {v, w}
MCEarlier == {v}
=============================================================================
