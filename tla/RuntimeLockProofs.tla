------------------------- MODULE RuntimeLockProofs -------------------------
(***************************************************************************)
(* The project lock excludes commands from each other for any number of    *)
(* commands, any assignment of pids to them and any number of crashes.     *)
(***************************************************************************)
EXTENDS RuntimeLock, TLAPS

\* The steps between the acquisition of the mutex and its release.
Critical == {"guarded", "stale", "cleared", "created", "recorded"}

\* A live command in the critical section owns the mutex.
MutexOwned == \A c \in Command : pc[c] \in Critical => guard = {c}

\* Once a contender took the recorded holder for dead, nobody holds the lock
\* until that contender does.
NoHolderReplaced ==
    \A c \in Command : pc[c] \in {"stale", "cleared", "created"} => Holder = {}

LockInv == TypeOK /\ MutexOwned /\ NoHolderReplaced /\ HolderIsRecorded

LockFile == [present : BOOLEAN, holder : SUBSET Command]

\* What acquireLock and releaseLock leave in the file is well formed.
LEMMA FilesAreTyped ==
    /\ NoFile \in LockFile
    /\ InvalidFile \in LockFile
    /\ \A c \in Command : FileOf(c) \in LockFile
<1>1. {} \in SUBSET Command /\ \A c \in Command : {c} \in SUBSET Command
    OBVIOUS
<1>2. QED
    BY <1>1 DEF NoFile, InvalidFile, FileOf, LockFile

\* The record names its holder.
LEMMA FileOfInjective ==
    ASSUME NEW c, NEW d, FileOf(c) = FileOf(d)
    PROVE  c = d
<1>1. FileOf(c).holder = {c} /\ FileOf(d).holder = {d}
    BY DEF FileOf
<1>2. QED
    BY <1>1

\* HolderIsRecorded makes the holder unique.
LEMMA RecordedIsExclusive == HolderIsRecorded => MutualExclusion
<1>1. ASSUME HolderIsRecorded, NEW c \in Holder, NEW d \in Holder
      PROVE  c = d
    <2>1. FileOf(c) = FileOf(d)
        BY <1>1 DEF HolderIsRecorded
    <2>2. QED
        BY <2>1, FileOfInjective
<1>2. QED
    BY <1>1 DEF MutualExclusion

\* The invariant holds before any command has started.
LEMMA LockInit == Init => LockInv
<1>1. SUFFICES ASSUME Init PROVE LockInv
    OBVIOUS
<1>2. TypeOK
    BY <1>1, FilesAreTyped DEF Init, TypeOK, Step, LockFile
<1>3. \A c \in Command : pc[c] = "new"
    BY <1>1 DEF Init
<1>4. QED
    BY <1>2, <1>3 DEF LockInv, MutexOwned, NoHolderReplaced, HolderIsRecorded, Holder, Critical

\* Every step of every command preserves the invariant.
LEMMA LockStep == LockInv /\ [Next]_vars => LockInv'
<1> SUFFICES ASSUME LockInv, [Next]_vars PROVE LockInv'
    OBVIOUS
<1> USE DEF LockInv, Go
<1>1. ASSUME NEW c \in Command, Start(c) PROVE LockInv'
    <2>1. TypeOK'
        BY <1>1 DEF Start, TypeOK, Step
    <2>2. Holder' = Holder
        BY <1>1 DEF Start, TypeOK, Holder
    <2>3. (MutexOwned /\ NoHolderReplaced)'
        BY <1>1, <2>2 DEF Start, TypeOK, MutexOwned, NoHolderReplaced, Critical
    <2>4. HolderIsRecorded'
        BY <1>1, <2>2 DEF Start, HolderIsRecorded
    <2>5. QED
        BY <2>1, <2>3, <2>4
<1>2. ASSUME NEW c \in Command, AcquireMutex(c) PROVE LockInv'
    <2>1. TypeOK'
        BY <1>2 DEF AcquireMutex, TypeOK, Step
    <2>2. Holder' = Holder
        BY <1>2 DEF AcquireMutex, TypeOK, Holder
    <2>3. \A d \in Command : pc[d] \notin Critical
        BY <1>2 DEF AcquireMutex, MutexOwned, Alive, Critical
    <2>4. (MutexOwned /\ NoHolderReplaced)'
        BY <1>2, <2>2, <2>3 DEF AcquireMutex, TypeOK, MutexOwned, NoHolderReplaced, Critical
    <2>5. HolderIsRecorded'
        BY <1>2, <2>2 DEF AcquireMutex, HolderIsRecorded
    <2>6. QED
        BY <2>1, <2>4, <2>5
<1>3. ASSUME NEW c \in Command, MutexBusy(c) \/ Crash(c) PROVE LockInv'
    <2>1. TypeOK'
        BY <1>3 DEF MutexBusy, Crash, TypeOK, Step
    <2>2. Holder' \subseteq Holder /\ UNCHANGED <<lockFile, guard>>
        BY <1>3 DEF MutexBusy, Crash, TypeOK, Holder
    <2>3. (MutexOwned /\ NoHolderReplaced)'
        BY <1>3, <2>2 DEF MutexBusy, Crash, TypeOK, MutexOwned, NoHolderReplaced, Critical
    <2>4. HolderIsRecorded'
        BY <2>2 DEF HolderIsRecorded
    <2>5. QED
        BY <2>1, <2>3, <2>4
<1>4. ASSUME NEW c \in Command, RefuseHeld(c) PROVE LockInv'
    <2>1. TypeOK'
        BY <1>4 DEF RefuseHeld, TypeOK, Step
    <2>2. Holder' = Holder
        BY <1>4 DEF RefuseHeld, TypeOK, Holder
    <2>3. \A d \in Command : pc[d] \in Critical => d = c
        BY <1>4 DEF RefuseHeld, MutexOwned, Critical
    <2>4. (MutexOwned /\ NoHolderReplaced)'
        BY <1>4, <2>2, <2>3 DEF RefuseHeld, TypeOK, MutexOwned, NoHolderReplaced, Critical
    <2>5. HolderIsRecorded'
        BY <1>4, <2>2 DEF RefuseHeld, HolderIsRecorded
    <2>6. QED
        BY <2>1, <2>4, <2>5
<1>5. ASSUME NEW c \in Command, FindStale(c) PROVE LockInv'
    <2>1. TypeOK'
        BY <1>5 DEF FindStale, TypeOK, Step
    <2>2. Holder = {}
        <3>1. ASSUME NEW d \in Holder PROVE HeldByLiveProcess
            <4>1. d \in Command /\ d \in lockFile.holder
                BY <3>1 DEF Holder, HolderIsRecorded, FileOf
            <4>2. Alive(d)
                BY <3>1 DEF Holder, Alive
            <4>3. QED
                BY <4>1, <4>2 DEF HeldByLiveProcess, IsProcessAlive
        <3>2. QED
            BY <1>5, <3>1 DEF FindStale
    <2>3. Holder' = {}
        BY <1>5, <2>2 DEF FindStale, TypeOK, Holder
    <2>4. (MutexOwned /\ NoHolderReplaced /\ HolderIsRecorded)'
        BY <1>5, <2>3 DEF FindStale, TypeOK, MutexOwned, NoHolderReplaced, HolderIsRecorded, Critical
    <2>5. QED
        BY <2>1, <2>4
<1>6. ASSUME NEW c \in Command, Quarantine(c) \/ CreateFile(c) PROVE LockInv'
    <2>1. TypeOK'
        BY <1>6, FilesAreTyped DEF Quarantine, CreateFile, TypeOK, Step, LockFile
    <2>2. Holder = {}
        BY <1>6 DEF Quarantine, CreateFile, NoHolderReplaced
    <2>3. Holder' = {}
        BY <1>6, <2>2 DEF Quarantine, CreateFile, TypeOK, Holder
    <2>4. \A d \in Command : pc[d] \in Critical => d = c
        BY <1>6 DEF Quarantine, CreateFile, MutexOwned, Critical
    <2>5. (MutexOwned /\ NoHolderReplaced /\ HolderIsRecorded)'
        BY <1>6, <2>3, <2>4
        DEF Quarantine, CreateFile, TypeOK, MutexOwned, NoHolderReplaced, HolderIsRecorded, Critical
    <2>6. QED
        BY <2>1, <2>5
<1>7. ASSUME NEW c \in Command, WriteRecord(c) PROVE LockInv'
    <2>1. TypeOK'
        BY <1>7, FilesAreTyped DEF WriteRecord, TypeOK, Step, LockFile
    <2>2. Holder' = {c}
        <3>1. Holder = {}
            BY <1>7 DEF WriteRecord, NoHolderReplaced
        <3>2. QED
            BY <1>7, <3>1 DEF WriteRecord, TypeOK, Holder
    <2>3. HolderIsRecorded'
        BY <1>7, <2>2 DEF WriteRecord, HolderIsRecorded
    <2>4. \A d \in Command : pc[d] \in Critical => d = c
        BY <1>7 DEF WriteRecord, MutexOwned, Critical
    <2>5. (MutexOwned /\ NoHolderReplaced)'
        BY <1>7, <2>4 DEF WriteRecord, TypeOK, MutexOwned, NoHolderReplaced, Critical
    <2>6. QED
        BY <2>1, <2>3, <2>5
<1>8. ASSUME NEW c \in Command, ReleaseMutex(c) PROVE LockInv'
    <2>1. TypeOK'
        BY <1>8 DEF ReleaseMutex, TypeOK, Step
    <2>2. Holder' = Holder
        BY <1>8 DEF ReleaseMutex, TypeOK, Holder
    <2>3. HolderIsRecorded'
        BY <1>8, <2>2 DEF ReleaseMutex, HolderIsRecorded
    <2>4. \A d \in Command : pc[d] \in Critical => d = c
        BY <1>8 DEF ReleaseMutex, MutexOwned, Critical
    <2>5. (MutexOwned /\ NoHolderReplaced)'
        BY <1>8, <2>2, <2>4 DEF ReleaseMutex, TypeOK, MutexOwned, NoHolderReplaced, Critical
    <2>6. QED
        BY <2>1, <2>3, <2>5
<1>9. ASSUME NEW c \in Command, ReadOwnRecord(c) PROVE LockInv'
    <2>1. TypeOK'
        BY <1>9 DEF ReadOwnRecord, TypeOK, Step
    <2>2. Holder' \subseteq Holder /\ UNCHANGED <<lockFile, guard>>
        BY <1>9 DEF ReadOwnRecord, TypeOK, Holder
    <2>3. HolderIsRecorded'
        BY <2>2 DEF HolderIsRecorded
    <2>4. (MutexOwned /\ NoHolderReplaced)'
        BY <1>9, <2>2 DEF ReadOwnRecord, TypeOK, MutexOwned, NoHolderReplaced, Critical
    <2>5. QED
        BY <2>1, <2>3, <2>4
<1>10. ASSUME NEW c \in Command, RemoveFile(c) PROVE LockInv'
    <2>1. TypeOK'
        BY <1>10, FilesAreTyped DEF RemoveFile, TypeOK, Step, LockFile
    <2>2. Holder = {c}
        <3>1. c \in Holder
            BY <1>10 DEF RemoveFile, Holder
        <3>2. QED
            BY <3>1, RecordedIsExclusive DEF MutualExclusion
    <2>3. Holder' = {}
        BY <1>10, <2>2 DEF RemoveFile, TypeOK, Holder
    <2>4. (MutexOwned /\ NoHolderReplaced /\ HolderIsRecorded)'
        BY <1>10, <2>3
        DEF RemoveFile, TypeOK, MutexOwned, NoHolderReplaced, HolderIsRecorded, Critical
    <2>5. QED
        BY <2>1, <2>4
<1>11. ASSUME UNCHANGED vars PROVE LockInv'
    BY <1>11
    DEF vars, TypeOK, MutexOwned, NoHolderReplaced, HolderIsRecorded, Holder
<1>12. QED
    BY <1>1, <1>2, <1>3, <1>4, <1>5, <1>6, <1>7, <1>8, <1>9, <1>10, <1>11
    DEF Next, AcquireLock, ReleaseLock

\* The strengthened invariant holds in every run of the lock protocol.
THEOREM LockInvariance == Spec => []LockInv
BY LockInit, LockStep, PTL DEF Spec

\* At most one command holds the project lock, whichever commands crashed at
\* whichever system call and whichever pids were used again.
THEOREM LockExcludes == Spec => []MutualExclusion
<1>1. LockInv => MutualExclusion
    BY RecordedIsExclusive DEF LockInv
<1>2. QED
    BY <1>1, LockInvariance, PTL

\* The lock file names its holder for as long as the lock is held: neither a
\* takeover nor a release by somebody else touches it.
THEOREM HolderStaysRecorded == Spec => []HolderIsRecorded
<1>1. LockInv => HolderIsRecorded
    BY DEF LockInv
<1>2. QED
    BY <1>1, LockInvariance, PTL

\* In terms of the abstract lock a step acquires it, releases it or does not concern it.
LEMMA LockStepMaps == LockInv /\ [Next]_vars => [Lock!Next]_Holder
<1> SUFFICES ASSUME LockInv, [Next]_vars PROVE [Lock!Next]_Holder
    OBVIOUS
<1> USE DEF LockInv, Go
<1>1. ASSUME NEW c \in Command,
             \/ Start(c)
             \/ AcquireMutex(c)
             \/ MutexBusy(c)
             \/ RefuseHeld(c)
             \/ FindStale(c)
             \/ Quarantine(c)
             \/ CreateFile(c)
             \/ ReleaseMutex(c)
      PROVE  Holder' = Holder
    BY <1>1
    DEF TypeOK, Holder, Start, AcquireMutex, MutexBusy, RefuseHeld, FindStale, Quarantine,
        CreateFile, ReleaseMutex
<1>2. ASSUME NEW c \in Command, WriteRecord(c) PROVE Lock!Acquire(c)
    <2>1. Holder = {}
        BY <1>2 DEF WriteRecord, NoHolderReplaced
    <2>2. Holder' = {c}
        BY <1>2, <2>1 DEF WriteRecord, TypeOK, Holder
    <2>3. QED
        BY <2>1, <2>2 DEF Lock!Acquire
<1>3. ASSUME NEW c \in Command, ReadOwnRecord(c) \/ RemoveFile(c) \/ Crash(c)
      PROVE  Holder' = Holder \/ Lock!Release(c)
    <2>1. Holder' = Holder \/ Holder' = Holder \ {c}
        BY <1>3 DEF ReadOwnRecord, RemoveFile, Crash, TypeOK, Holder
    <2>2. CASE c \in Holder
        <3>1. Holder = {c}
            BY <2>2, RecordedIsExclusive DEF MutualExclusion
        <3>2. QED
            BY <2>1, <3>1 DEF Lock!Release
    <2>3. CASE c \notin Holder
        BY <2>1, <2>3
    <2>4. QED
        BY <2>2, <2>3
<1>4. ASSUME UNCHANGED vars PROVE Holder' = Holder
    BY <1>4 DEF vars, Holder
<1>5. QED
    BY <1>1, <1>2, <1>3, <1>4 DEF Next, AcquireLock, ReleaseLock, Lock!Next

\* The lock protocol implements the abstract lock, for any number of commands and of
\* crashes and any assignment of pids.
THEOREM LockRefines == Spec => ImplementsLock
<1>1. Init => Lock!Init
    BY DEF Init, Lock!Init, Holder
<1>2. QED
    BY <1>1, LockStepMaps, LockInvariance, PTL DEF Spec, ImplementsLock, Lock!Spec

\* Every variable of the protocol keeps its type.
THEOREM LockTypes == Spec => []TypeOK
<1>1. LockInv => TypeOK
    BY DEF LockInv
<1>2. QED
    BY <1>1, LockInvariance, PTL

-----------------------------------------------------------------------------
(* The contenders do not all give up.                                      *)

\* Who takes the mutex goes through with it: it finds no holder while nobody has
\* had the lock, and no file where it has just cleared one. So a contender that
\* was turned away leaves one behind that was not.
Contention ==
    /\ \A c \in Command : pc[c] = "cleared" => lockFile = NoFile
    /\ crashed = {} /\ acquired = {} =>
        /\ \A c \in Command : pc[c] \notin {"holding", "removing"}
        /\ guard # {} => \E c \in Command : pc[c] \in Critical
        /\ lockFile.holder # {} => \E c \in Command : pc[c] = "recorded"
        /\ (\E c \in Command : pc[c] = "ended") => \E c \in Command : pc[c] \in Critical

LEMMA ContentionInit == Init => Contention
BY DEF Init, Contention, NoFile, InvalidFile

LEMMA ContentionStep ==
    ASSUME LockInv, Contention, [Next]_vars
    PROVE  Contention'
<1> USE DEF Contention, Go, Critical
<1>1. \A c, d \in Command : pc[c] \in Critical /\ pc[d] \in Critical => c = d
    BY DEF LockInv, MutexOwned
<1>2. /\ NoFile.holder = {} /\ ~ NoFile.present /\ InvalidFile.holder = {}
      /\ pc \in [Command -> Step]
    BY DEF NoFile, InvalidFile, LockInv, TypeOK
<1>3. ASSUME NEW c \in Command, Start(c) \/ AcquireMutex(c) \/ FindStale(c)
      PROVE  Contention'
    BY <1>1, <1>2, <1>3 DEF Start, AcquireMutex, FindStale
<1>4. ASSUME NEW c \in Command, MutexBusy(c)
      PROVE  Contention'
    BY <1>1, <1>2, <1>4 DEF MutexBusy
<1>5. ASSUME NEW c \in Command, RefuseHeld(c)
      PROVE  Contention'
    <2>1. crashed = {} => acquired # {}
        BY <1>1, <1>5 DEF RefuseHeld, HeldByLiveProcess
    <2> QED
        BY <1>2, <1>5, <2>1 DEF RefuseHeld
<1>6. ASSUME NEW c \in Command, Quarantine(c)
      PROVE  Contention'
    BY <1>1, <1>2, <1>6 DEF Quarantine
<1>7. ASSUME NEW c \in Command, CreateFile(c)
      PROVE  Contention'
    <2>1. lockFile' = InvalidFile /\ pc' = [pc EXCEPT ![c] = "created"] /\ UNCHANGED guard
        BY <1>2, <1>7 DEF CreateFile
    <2> QED
        BY <1>1, <1>2, <1>7, <2>1 DEF CreateFile
<1>8. ASSUME NEW c \in Command, WriteRecord(c)
      PROVE  Contention'
    BY <1>1, <1>2, <1>8 DEF WriteRecord
<1>9. ASSUME NEW c \in Command, ReleaseMutex(c)
      PROVE  Contention'
    BY <1>1, <1>2, <1>9 DEF ReleaseMutex
<1>10. ASSUME NEW c \in Command, ReadOwnRecord(c) \/ RemoveFile(c)
       PROVE  Contention'
    BY <1>1, <1>2, <1>10 DEF ReadOwnRecord, RemoveFile
<1>11. ASSUME NEW c \in Command, Crash(c)
       PROVE  Contention'
    <2>1. crashed' # {}
        BY <1>11 DEF Crash, LockInv, TypeOK
    <2> QED
        BY <1>2, <1>11, <2>1 DEF Crash
<1>12. CASE UNCHANGED vars
    BY <1>12 DEF vars
<1> QED
    BY <1>3, <1>4, <1>5, <1>6, <1>7, <1>8, <1>9, <1>10, <1>11, <1>12
    DEF Next, AcquireLock, ReleaseLock

\* However many commands contend, one of them gets the lock unless one of them dies:
\* they cannot all refuse each other (acquireLock's check, its quarantine and the
\* exclusive creation of the file).
THEOREM SomeContenderAcquires == Spec => []SomeoneAcquired
<1>1. Init => Contention
    BY ContentionInit
<1>2. LockInv /\ Contention /\ [Next]_vars => Contention'
    BY ContentionStep
<1>3. Contention => SomeoneAcquired
    BY DEF Contention, SomeoneAcquired, Critical
<1> QED
    BY <1>1, <1>2, <1>3, LockInvariance, PTL DEF Spec
=============================================================================
