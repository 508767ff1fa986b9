---------------------------- MODULE ProjectLock ----------------------------
(***************************************************************************)
(* What a command may take the project lock for: between its acquisition   *)
(* and its release, or its death, no other command has it. RuntimeLock     *)
(* implements this module file operation by file operation.                *)
(***************************************************************************)
CONSTANT Command    \* the commands started in the project

VARIABLE holder     \* those that hold the lock

Init == holder = {}

Acquire(c) == holder = {} /\ holder' = {c}

\* A command that dies holding the lock releases it: the file it leaves is stale.
Release(c) == holder = {c} /\ holder' = {}

Next == \E c \in Command : Acquire(c) \/ Release(c)

Spec == Init /\ [][Next]_holder
=============================================================================
