---------------------------- MODULE RuntimeLock ----------------------------
(***************************************************************************)
(* The project lock .amiral/amiral.lock, which every command that changes  *)
(* runtime state takes for its whole duration. Looking at the file,        *)
(* quarantining a stale one and creating the new one are separate file     *)
(* system calls; proper-lockfile's mutex on amiral.lock.guard serializes   *)
(* them. A holder removes its file without the mutex. A command may die    *)
(* between any two calls, and the operating system may give the pid of a   *)
(* dead command to a new one.                                              *)
(***************************************************************************)
EXTENDS Integers, FiniteSets

CONSTANTS
    Command,    \* the commands started in the project, one process each
    PidOf,      \* PidOf[c]: the pid of c's process
    MaxCrashes  \* bound: how many commands die before their end

ASSUME MaxCrashesAssumption == MaxCrashes \in Nat

VARIABLES
    pc,         \* where each command is
    lockFile,   \* amiral.lock: whether it exists, and whose record it holds
    guard,      \* the command that made amiral.lock.guard, if any
    crashed,    \* the commands that died before their end
    acquired    \* history: the commands that got the lock

vars == <<pc, lockFile, guard, crashed, acquired>>

\* In the order of acquireLock and releaseLock; "created" has opened the new
\* file, "recorded" has written it, "holding" runs the body of withLock.
Step ==
    {"new", "acquiring", "guarded", "stale", "cleared", "created", "recorded",
     "holding", "removing", "ended"}

\* A file without a valid record (just opened, or left by a crash) has no holder.
NoFile == [present |-> FALSE, holder |-> {}]
InvalidFile == [present |-> TRUE, holder |-> {}]
\* Mutant: the record has the pid only.
FileWithoutToken(c) == [present |-> TRUE, holder |-> {PidOf[c]}]

FileOf(c) == [present |-> TRUE, holder |-> {c}]

Init ==
    /\ pc = [c \in Command |-> "new"]
    /\ lockFile \in {NoFile, InvalidFile}
    /\ guard = {}
    /\ crashed = {}
    /\ acquired = {}

Alive(c) == pc[c] \notin {"new", "ended"}

\* process.kill(pid, 0) cannot tell a dead process from another with its pid.
IsProcessAlive(pid) == \E c \in Command : Alive(c) /\ PidOf[c] = pid

Go(c, step) == pc' = [pc EXCEPT ![c] = step]

-----------------------------------------------------------------------------
Start(c) ==
    /\ pc[c] = "new"
    /\ ~ IsProcessAlive(PidOf[c])
    /\ Go(c, "acquiring")
    /\ UNCHANGED <<lockFile, guard, crashed, acquired>>

\* Mutant: the lock is acquired without the mutex.
AcquireWithoutMutex(c) ==
    /\ pc[c] = "acquiring"
    /\ guard' = {c}
    /\ Go(c, "guarded")
    /\ UNCHANGED <<lockFile, crashed, acquired>>

\* The mutex is free, or a dead process left it and it has gone stale.
AcquireMutex(c) ==
    /\ pc[c] = "acquiring"
    /\ \A d \in guard : ~ Alive(d)
    /\ guard' = {c}
    /\ Go(c, "guarded")
    /\ UNCHANGED <<lockFile, crashed, acquired>>

\* The retries run out while the mutex exists.
MutexBusy(c) ==
    /\ pc[c] = "acquiring"
    /\ guard # {}
    /\ Go(c, "ended")
    /\ UNCHANGED <<lockFile, guard, crashed, acquired>>

\* Mutant: every valid record counts, also that of a dead process.
HeldByAnyRecord == lockFile.holder # {}

HeldByLiveProcess == \E d \in lockFile.holder : IsProcessAlive(PidOf[d])

RefuseHeld(c) ==
    /\ pc[c] = "guarded"
    /\ HeldByLiveProcess
    /\ guard' = {}
    /\ Go(c, "ended")
    /\ UNCHANGED <<lockFile, crashed, acquired>>

FindStale(c) ==
    /\ pc[c] = "guarded"
    /\ ~ HeldByLiveProcess
    /\ Go(c, "stale")
    /\ UNCHANGED <<lockFile, guard, crashed, acquired>>

\* Mutant: only a missing file makes way for the new one.
QuarantineNothing(c) ==
    /\ pc[c] = "stale"
    /\ Go(c, "cleared")
    /\ UNCHANGED <<lockFile, guard, crashed, acquired>>

\* Whatever file is there now is renamed away and deleted.
Quarantine(c) ==
    /\ pc[c] = "stale"
    /\ lockFile' = NoFile
    /\ Go(c, "cleared")
    /\ UNCHANGED <<guard, crashed, acquired>>

\* open(path, "wx") is refused where a file exists.
CreateFile(c) ==
    /\ pc[c] = "cleared"
    /\ IF lockFile.present
       THEN guard' = {} /\ Go(c, "ended") /\ UNCHANGED lockFile
       ELSE lockFile' = InvalidFile /\ Go(c, "created") /\ UNCHANGED guard
    /\ UNCHANGED <<crashed, acquired>>

WriteRecord(c) ==
    /\ pc[c] = "created"
    /\ lockFile' = FileOf(c)
    /\ Go(c, "recorded")
    /\ UNCHANGED <<guard, crashed, acquired>>

ReleaseMutex(c) ==
    /\ pc[c] = "recorded"
    /\ guard' = {}
    /\ acquired' = acquired \cup {c}
    /\ Go(c, "holding")
    /\ UNCHANGED <<lockFile, crashed>>

\* releaseLock reads the file: only a record with the own pid and token counts.
ReadOwnRecord(c) ==
    /\ pc[c] = "holding"
    /\ Go(c, IF lockFile.holder = {c} THEN "removing" ELSE "ended")
    /\ UNCHANGED <<lockFile, guard, crashed, acquired>>

RemoveFile(c) ==
    /\ pc[c] = "removing"
    /\ lockFile' = NoFile
    /\ Go(c, "ended")
    /\ UNCHANGED <<guard, crashed, acquired>>

\* The process dies, or exits on a second signal; its files stay behind.
Crash(c) ==
    /\ Alive(c)
    /\ Cardinality(crashed) < MaxCrashes
    /\ crashed' = crashed \cup {c}
    /\ Go(c, "ended")
    /\ UNCHANGED <<lockFile, guard, acquired>>

-----------------------------------------------------------------------------
AcquireLock(c) ==
    \/ AcquireMutex(c)
    \/ MutexBusy(c)
    \/ RefuseHeld(c)
    \/ FindStale(c)
    \/ Quarantine(c)
    \/ CreateFile(c)
    \/ WriteRecord(c)
    \/ ReleaseMutex(c)

ReleaseLock(c) == ReadOwnRecord(c) \/ RemoveFile(c)

Next == \E c \in Command : Start(c) \/ AcquireLock(c) \/ ReleaseLock(c) \/ Crash(c)

Spec == Init /\ [][Next]_vars

\* A process goes on until it ends, and the body of withLock returns.
FairSpec == Spec /\ \A c \in Command : WF_vars(AcquireLock(c) \/ ReleaseLock(c))

-----------------------------------------------------------------------------
TypeOK ==
    /\ pc \in [Command -> Step]
    /\ lockFile \in [present : BOOLEAN, holder : SUBSET Command]
    /\ guard \subseteq Command
    /\ crashed \subseteq Command
    /\ acquired \subseteq Command

Holder == {c \in Command : pc[c] \in {"recorded", "holding", "removing"}}

\* No two commands hold the lock at a time.
MutualExclusion == \A c, d \in Holder : c = d

Lock == INSTANCE ProjectLock WITH holder <- Holder

\* The files amount to a lock, whoever died where and whichever pids were used
\* again: a command gets it when nobody has it, and loses it only by its own release
\* or death (runtime-lock.ts acquireLock, releaseLock). The commands of
\* ProjectCommands take this lock.
ImplementsLock == Lock!Spec

\* While a command holds the lock the file says so: no contender quarantines a
\* live holder's file and no late release removes it.
HolderIsRecorded == \A c \in Holder : lockFile = FileOf(c)

\* The contenders cannot all turn each other away: when every command has ended
\* and none of them died, one of them had the lock.
SomeoneAcquired ==
    Command # {} /\ crashed = {} /\ (\A c \in Command : pc[c] = "ended") => acquired # {}

\* The record of a dead command whose pid another process has by now.
PidIsReused == \E d \in lockFile.holder : ~ Alive(d) /\ IsProcessAlive(PidOf[d])

\* A dead command cannot keep the lock, neither by its record nor by a file it did
\* not come to write: a contender that has the mutex while the recorded process is
\* dead gets the lock, unless it dies itself or the recorded pid is used again before it looks
\* (runtime-lock.ts acquireLock).
StaleIsTakenOver ==
    \A c \in Command :
        pc[c] = "guarded" /\ (\A d \in lockFile.holder : ~ IsProcessAlive(PidOf[d]))
            ~> c \in acquired \cup crashed \/ PidIsReused
=============================================================================
