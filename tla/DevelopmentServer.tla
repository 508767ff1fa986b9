------------------------- MODULE DevelopmentServer -------------------------
(***************************************************************************)
(* The development server of Visual QA. VisualQAService.evaluate probes    *)
(* ui.server.ready_url, launches start_command if nobody answers, polls    *)
(* until somebody does, has the routes evaluated and stops what it         *)
(* launched: SIGTERM, and SIGKILL after the shutdown timeout. Meanwhile    *)
(* its process may exit or ignore SIGTERM. Whether anybody answers, and    *)
(* who does, its process or another one, is open at every probe.           *)
(*                                                                         *)
(* The actions are the steps of the evaluation of one command c, and Exit  *)
(* is of its process.                                                      *)
(***************************************************************************)
EXTENDS Naturals

CONSTANTS
    Command,        \* the commands started in the project, one evaluation each
    StartCommand,   \* whether ui.server.start_command is configured
    MaxPolls        \* bound: how often an evaluation polls before its deadline

VARIABLES
    stage,      \* stage[c]: where the evaluation of c is
    polls,      \* polls[c]: how often it polled
    child       \* child[c]: the process it launched

vars == <<stage, polls, child>>

Stage == {"probe", "poll", "ready", "evaluate", "stop", "shutdown", "done"}

\* A process that was sent a signal goes on until it exits.
Child == {"none", "running", "terminated", "killed", "exited"}

Init ==
    /\ stage = [c \in Command |-> "probe"]
    /\ polls = [c \in Command |-> 0]
    /\ child = [c \in Command |-> "none"]

IsRunning(c) == child[c] \in {"running", "terminated", "killed"}

Go(c, s) == stage' = [stage EXCEPT ![c] = s]

-----------------------------------------------------------------------------
\* DevelopmentServerManager.start.

\* A server that is there already is not owned.
ProbeFirst(c) ==
    /\ stage[c] = "probe"
    /\ \E answered \in BOOLEAN :
        /\ Go(c, IF answered THEN "evaluate" ELSE "poll")
        /\ child' = IF ~ answered /\ StartCommand
                    THEN [child EXCEPT ![c] = "running"] ELSE child
    /\ UNCHANGED polls

\* Mutant: a start that failed leaves its process behind.
GiveUpAtOnce(c) ==
    /\ stage[c] = "poll"
    /\ Go(c, "done")
    /\ UNCHANGED <<polls, child>>

\* The process has exited, or the deadline has passed.
GiveUp(c) ==
    /\ stage[c] = "poll"
    /\ Go(c, "stop")
    /\ UNCHANGED <<polls, child>>

Poll(c) ==
    /\ stage[c] = "poll"
    /\ child[c] # "exited"
    /\ polls[c] < MaxPolls
    /\ polls' = [polls EXCEPT ![c] = polls[c] + 1]
    /\ Go(c, "ready")
    /\ UNCHANGED <<child>>

\* Whoever answers makes the server ready, the process launched here or not.
ProbeAgain(c) ==
    /\ stage[c] = "ready"
    /\ \E answered \in BOOLEAN : Go(c, IF answered THEN "evaluate" ELSE "poll")
    /\ UNCHANGED <<polls, child>>

-----------------------------------------------------------------------------
\* The evaluation, which may throw, and session.stop in any case.

Evaluate(c) ==
    /\ stage[c] = "evaluate"
    /\ Go(c, "stop")
    /\ UNCHANGED <<polls, child>>

Terminate(c) ==
    /\ stage[c] = "stop"
    /\ IF child[c] = "none"
       THEN Go(c, "done") /\ UNCHANGED child
       ELSE /\ Go(c, "shutdown")
            /\ child' = [child EXCEPT ![c] = IF @ = "running" THEN "terminated" ELSE @]
    /\ UNCHANGED polls

\* The process exits within the shutdown timeout, or is killed; nobody waits for
\* it to exit then.
Shutdown(c) ==
    /\ stage[c] = "shutdown"
    /\ child' = [child EXCEPT ![c] = IF @ = "terminated" THEN "killed" ELSE @]
    /\ Go(c, "done")
    /\ UNCHANGED polls

Step(c) ==
    \/ ProbeFirst(c)
    \/ GiveUp(c)
    \/ Poll(c)
    \/ ProbeAgain(c)
    \/ Evaluate(c)
    \/ Terminate(c)
    \/ Shutdown(c)

Exit(c) ==
    /\ IsRunning(c)
    /\ child' = [child EXCEPT ![c] = "exited"]
    /\ UNCHANGED <<stage, polls>>

-----------------------------------------------------------------------------
TypeOK ==
    /\ stage \in [Command -> Stage]
    /\ polls \in [Command -> 0 .. MaxPolls]
    /\ child \in [Command -> Child]
=============================================================================
