--------------------------- MODULE MCRuntimeLock ---------------------------
(***************************************************************************)
(* An instance of RuntimeLock for TLC: four commands, of which a and b may *)
(* get the same pid, one after the other.                                  *)
(***************************************************************************)
EXTENDS RuntimeLock, TLC

CONSTANTS a, b, c, d

MCCommand == {a, b, c, d}
MCPidOf == (a :> 1) @@ (b :> 1) @@ (c :> 2) @@ (d :> 3)
=============================================================================
