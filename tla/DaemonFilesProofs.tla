-------------------------- MODULE DaemonFilesProofs --------------------------
(***************************************************************************)
(* Theorems about the daemon's lock.  With anyone free to unlink the pid   *)
(* file, what flock still gives is LocksAreExclusive.  When nobody unlinks *)
(* it, as long as daemons only start and crash, it gives what it is there  *)
(* for: OneDaemon, and names that lead to the daemon that serves.          *)
(***************************************************************************)
EXTENDS DaemonFiles, TLAPS

(***************************************************************************)
(* The strengthening of LocksAreExclusive: a daemon past acquireLock owns  *)
(* the lock of the file it has open.  Two daemons with the same file would *)
(* both be that lock's one owner.                                          *)
(***************************************************************************)
FilesTypeOK ==
  /\ pc \in [Daemons -> DaemonStates]
  /\ fd \in [Daemons -> Files \union {None}]
  /\ pidFile \in Files \union {None}
  /\ locked \in [Files -> Daemons \union {None}]

\* A daemon that has its pid file open.
OpenFile(d) == pc[d] \notin {"idle", "open", "dead"}

LockInv ==
  /\ FilesTypeOK
  /\ \A d \in Daemons : OpenFile(d) => fd[d] \in Files
  /\ \A d \in Holders : locked[fd[d]] = d
  /\ \A f \in Files : locked[f] # None => locked[f] \in Holders

LEMMA LockInvInit == Init => LockInv
BY FilesAssumption DEF Init, LockInv, FilesTypeOK, OpenFile, Holders,
   HolderStates, DaemonStates, Files

\* LockInv gives the property.
LEMMA LockInvSuffices == LockInv => LocksAreExclusive
BY DEF LockInv, LocksAreExclusive

\* A daemon that exits takes its lock with it, and no other.
LEMMA DieKeepsLocks ==
  ASSUME LockInv, NEW d, Die(d), UNCHANGED <<fd, pidFile>>
  PROVE  LockInv'
BY FilesAssumption DEF LockInv, FilesTypeOK, Die, Goto, Unlocked, Running,
   OpenFile, Holders, HolderStates, DaemonStates, Files

\* Steps that leave the lock and the daemons' places alone.
LEMMA StutterKeepsLocks ==
  ASSUME LockInv, UNCHANGED <<pc, fd, locked>>, pidFile' \in {pidFile, None}
  PROVE  LockInv'
BY DEF LockInv, FilesTypeOK, OpenFile, Holders, HolderStates, DaemonStates, Files

\* A daemon that moves on inside, or stays outside, the locked region.
LEMMA MoveKeepsLocks ==
  ASSUME LockInv, NEW d \in Daemons, NEW label \in DaemonStates,
         Goto(d, label), UNCHANGED <<fd, locked>>, pidFile' \in {pidFile, None},
         d \in Holders <=> label \in HolderStates,
         OpenFile(d) \/ label \in {"open", "dead"}
  PROVE  LockInv'
BY DEF LockInv, FilesTypeOK, Goto, OpenFile, Holders, HolderStates, DaemonStates, Files
-----------------------------------------------------------------------------
LEMMA LockInvStep == LockInv /\ [Next]_vars => LockInv'
<1> SUFFICES ASSUME LockInv, [Next]_vars PROVE LockInv'
  OBVIOUS
<1>1. ASSUME NEW d \in Daemons, OpenPidFile(d) PROVE LockInv'
  BY <1>1, FilesAssumption DEF OpenPidFile, LockInv, FilesTypeOK, Goto,
     OpenFile, Holders, HolderStates, DaemonStates, Files
<1>2. ASSUME NEW d \in Daemons, AcquireLock(d) PROVE LockInv'
  <2>1. CASE locked[fd[d]] = None /\ locked' = [locked EXCEPT ![fd[d]] = d]
             /\ Goto(d, "unlink")
    BY <1>2, <2>1, FilesAssumption DEF AcquireLock, LockInv, FilesTypeOK, Goto,
       OpenFile, Holders, HolderStates, DaemonStates, Files
  <2>2. CASE locked[fd[d]] # None /\ Goto(d, "dead") /\ UNCHANGED locked
    BY <1>2, <2>2, MoveKeepsLocks
       DEF AcquireLock, Holders, HolderStates, DaemonStates, OpenFile, supVars
  <2> QED BY <1>2, <2>1, <2>2 DEF AcquireLock
<1>3. ASSUME NEW d \in Daemons, RemoveStaleSocket(d) PROVE LockInv'
  BY <1>3, MoveKeepsLocks DEF RemoveStaleSocket, Holders, HolderStates, DaemonStates, OpenFile
<1>4. ASSUME NEW d \in Daemons, Listen(d) PROVE LockInv'
  <2>1. CASE Goto(d, "writePid") /\ UNCHANGED locked
    BY <1>4, <2>1, MoveKeepsLocks DEF Listen, Holders, HolderStates, DaemonStates, OpenFile
  <2>2. CASE locked' = Unlocked(d) /\ Goto(d, "dead")
    BY <1>4, <2>2, DieKeepsLocks DEF Listen, Die, Running
  <2> QED BY <1>4, <2>1, <2>2 DEF Listen
<1>5. ASSUME NEW d \in Daemons, WritePidLocked(d) PROVE LockInv'
  <2>1. CASE Goto(d, "serve") /\ UNCHANGED locked
    BY <1>5, <2>1, MoveKeepsLocks
       DEF WritePidLocked, Holders, HolderStates, DaemonStates, OpenFile
  <2>2. CASE locked' = Unlocked(d) /\ Goto(d, "dead")
    BY <1>5, <2>2, DieKeepsLocks DEF WritePidLocked, Die, Running
  <2> QED BY <1>5, <2>1, <2>2 DEF WritePidLocked
<1>6. ASSUME NEW d \in Daemons, CloseListener(d) PROVE LockInv'
  BY <1>6, MoveKeepsLocks DEF CloseListener, Holders, HolderStates, DaemonStates, OpenFile
<1>7. ASSUME NEW d \in Daemons, ReleaseLock(d) PROVE LockInv'
  BY <1>7, FilesAssumption DEF ReleaseLock, LockInv, FilesTypeOK, Goto,
     Unlocked, OpenFile, Holders, HolderStates, DaemonStates, Files
<1>8. ASSUME NEW d \in Daemons, RemoveSocket(d) PROVE LockInv'
  BY <1>8, MoveKeepsLocks DEF RemoveSocket, Holders, HolderStates, DaemonStates, OpenFile
<1>9. ASSUME NEW d \in Daemons, RemovePid(d) PROVE LockInv'
  BY <1>9, MoveKeepsLocks DEF RemovePid, Holders, HolderStates, DaemonStates, OpenFile
<1>10. ASSUME NEW d \in Daemons, Crash(d) PROVE LockInv'
  BY <1>10, DieKeepsLocks DEF Crash
<1>11. ASSUME NEW s \in Supervisors, KillDaemon(s) PROVE LockInv'
  BY <1>11, DieKeepsLocks, StutterKeepsLocks DEF KillDaemon
<1>12. ASSUME NEW s \in Supervisors, SpawnWorker(s) PROVE LockInv'
  <2>1. CASE UNCHANGED pc
    BY <1>12, <2>1, StutterKeepsLocks DEF SpawnWorker, fileVars
  <2>2. ASSUME NEW d \in Daemons, pc[d] = "idle", Goto(d, "open")
        PROVE  LockInv'
    BY <1>12, <2>2, MoveKeepsLocks
       DEF SpawnWorker, fileVars, Holders, HolderStates, DaemonStates
  <2> QED BY <1>12, <2>1, <2>2 DEF SpawnWorker
<1>13. ASSUME NEW s \in Supervisors,
              \/ CheckPid(s) \/ Ping(s) \/ Terminate(s) \/ StopWait(s)
              \/ UnlinkPid(s) \/ UnlinkSocket(s) \/ WaitForSocket(s) \/ Exit(s)
       PROVE  LockInv'
  BY <1>13, StutterKeepsLocks DEF CheckPid, Ping, Terminate, StopWait,
     UnlinkPid, UnlinkSocket, WaitForSocket, Exit, daemonVars, fileVars
<1>14. CASE UNCHANGED vars
  BY <1>14, StutterKeepsLocks DEF vars
<1> QED
  BY <1>1, <1>2, <1>3, <1>4, <1>5, <1>6, <1>7, <1>8, <1>9, <1>10, <1>11,
     <1>12, <1>13, <1>14 DEF Next, DaemonStep, SupStep

(***************************************************************************)
(* However many daemons and commands there are, and whatever is unlinked,  *)
(* killed or crashes: flock keeps daemons that opened the same file apart, *)
(* and no lock is left behind (daemon_unix.go:18-38).                      *)
(***************************************************************************)
THEOREM LocksStayExclusive == Spec => []LocksAreExclusive
<1>1. Init => LockInv
  BY LockInvInit
<1>2. LockInv /\ [Next]_vars => LockInv'
  BY LockInvStep
<1>3. LockInv => LocksAreExclusive
  BY LockInvSuffices
<1> QED BY <1>1, <1>2, <1>3, PTL DEF Spec
-----------------------------------------------------------------------------
(***************************************************************************)
(* Daemons left to themselves: the name of the pid file keeps its meaning, *)
(* every daemon has the same file open, and the socket is its lock's       *)
(* owner's.                                                                *)
(***************************************************************************)
NamesInv ==
  /\ text \in [Files -> Daemons \union {None}]
  /\ \A d \in Daemons :
       /\ pc[d] \in {"idle", "open", "lock", "unlink", "listen", "writePid",
                     "serve", "dead"}
       /\ OpenFile(d) => fd[d] = pidFile
       /\ pc[d] \in {"writePid", "serve"} => sock = d
       /\ pc[d] = "serve" => text[fd[d]] = d

UndisturbedInv ==
  /\ LockInv
  /\ sup = [s \in Supervisors |-> sup[s]]
  /\ Undisturbed => NamesInv

LEMMA UndisturbedInvInit == Init => UndisturbedInv
<1> SUFFICES ASSUME Init PROVE UndisturbedInv
  OBVIOUS
<1>1. LockInv
  BY LockInvInit
<1>2. NamesInv
  BY FilesAssumption DEF Init, NamesInv, OpenFile, Files
<1>3. sup = [s \in Supervisors |-> sup[s]]
  BY DEF Init
<1> QED BY <1>1, <1>2, <1>3 DEF UndisturbedInv

LEMMA UndisturbedInvSuffices == UndisturbedInv => UndisturbedIsFindable
BY FilesAssumption DEF UndisturbedInv, NamesInv, LockInv, FilesTypeOK, OneDaemon,
   UndisturbedIsFindable, ServingIsFindable, Findable, OpenFile, Holders,
   HolderStates, Files

\* Commands move, but none comes or goes.
LEMMA SupStaysFunction ==
  ASSUME sup = [s \in Supervisors |-> sup[s]], [Next]_vars
  PROVE  (sup = [s \in Supervisors |-> sup[s]])'
<1>1. CASE UNCHANGED sup
  BY <1>1
<1>2. ASSUME NEW s \in Supervisors, NEW label, SupGoto(s, label)
      PROVE  (sup = [r \in Supervisors |-> sup[r]])'
  BY <1>2 DEF SupGoto
<1>3. ASSUME NEW d \in Daemons, DaemonStep(d) \/ Crash(d) PROVE UNCHANGED sup
  BY <1>3 DEF supVars, DaemonStep, OpenPidFile, AcquireLock, RemoveStaleSocket, Listen,
     WritePidLocked, CloseListener, ReleaseLock, RemoveSocket, RemovePid, Crash
<1>4. ASSUME NEW s \in Supervisors, SupStep(s) \/ Exit(s)
      PROVE  UNCHANGED sup \/ \E label : SupGoto(s, label)
  <2> USE DEF supVars
  <2>1. CASE CheckPid(s) \/ Ping(s)
    BY <2>1 DEF CheckPid, Ping
  <2>2. CASE Terminate(s) \/ KillDaemon(s) \/ StopWait(s)
    BY <2>2 DEF Terminate, KillDaemon, StopWait
  <2>3. CASE UnlinkPid(s) \/ UnlinkSocket(s)
    BY <2>3 DEF UnlinkPid, UnlinkSocket
  <2>4. CASE SpawnWorker(s) \/ WaitForSocket(s) \/ Exit(s)
    BY <2>4 DEF SpawnWorker, WaitForSocket, Exit
  <2> QED BY <1>4, <2>1, <2>2, <2>3, <2>4 DEF SupStep
<1> QED BY <1>1, <1>2, <1>3, <1>4 DEF Next, vars

\* A daemon's own step: a holder's touches no other holder, for there is none.
LEMMA DaemonKeepsNames ==
  ASSUME UndisturbedInv, Undisturbed, LockInv', NEW d \in Daemons,
         DaemonStep(d) \/ Crash(d)
  PROVE  NamesInv'
<1>1. \A a, b \in Holders : a = b
  BY UndisturbedInvSuffices DEF UndisturbedIsFindable, OneDaemon
<1> USE FilesAssumption
    DEF UndisturbedInv, Undisturbed, NamesInv, LockInv, FilesTypeOK, Goto, OpenFile, Files
<1>2. CASE OpenPidFile(d)
  BY <1>2 DEF OpenPidFile
<1>3. CASE AcquireLock(d)
  BY <1>3 DEF AcquireLock
<1>4. CASE RemoveStaleSocket(d)
  BY <1>1, <1>4 DEF RemoveStaleSocket, Holders, HolderStates
<1>5. CASE Listen(d)
  BY <1>1, <1>5 DEF Listen, Holders, HolderStates
<1>6. CASE WritePidLocked(d)
  BY <1>1, <1>6 DEF WritePidLocked, Holders, HolderStates
<1>7. CASE Crash(d)
  BY <1>7 DEF Crash, Die
<1>8. CASE CloseListener(d) \/ ReleaseLock(d) \/ RemoveSocket(d) \/ RemovePid(d)
  BY <1>8 DEF CloseListener, ReleaseLock, RemoveSocket, RemovePid
<1> QED
  BY <1>2, <1>3, <1>4, <1>5, <1>6, <1>7, <1>8 DEF DaemonStep

\* A command's step that leaves the daemons undisturbed only looks at them.
LEMMA CommandOnlyLooks ==
  ASSUME UndisturbedInv, Undisturbed', NEW s \in Supervisors, SupStep(s) \/ Exit(s)
  PROVE  Undisturbed /\ UNCHANGED <<daemonVars, fileVars>>
<1> USE DEF UndisturbedInv, Undisturbed, SupGoto
<1>1. CASE CheckPid(s)
  BY <1>1 DEF CheckPid, daemonVars
<1>2. CASE Ping(s)
  BY <1>2 DEF Ping, daemonVars
<1>3. CASE Terminate(s)
  BY <1>3 DEF Terminate
<1>4. CASE KillDaemon(s)
  BY <1>4 DEF KillDaemon, AfterKill, Killing
<1>5. CASE StopWait(s) \/ UnlinkPid(s) \/ UnlinkSocket(s)
  BY <1>5 DEF StopWait, UnlinkPid, UnlinkSocket
<1>6. CASE SpawnWorker(s) \/ WaitForSocket(s) \/ Exit(s)
  BY <1>6 DEF SpawnWorker, WaitForSocket, Exit
<1> QED
  BY <1>1, <1>2, <1>3, <1>4, <1>5, <1>6 DEF SupStep

LEMMA UndisturbedInvStep == UndisturbedInv /\ [Next]_vars => UndisturbedInv'
<1> SUFFICES ASSUME UndisturbedInv, [Next]_vars PROVE UndisturbedInv'
  OBVIOUS
<1>1. LockInv'
  BY LockInvStep DEF UndisturbedInv
<1>2. (sup = [s \in Supervisors |-> sup[s]])'
  BY SupStaysFunction DEF UndisturbedInv
<1>3. ASSUME Undisturbed' PROVE NamesInv'
  <2>1. ASSUME NEW d \in Daemons, DaemonStep(d) \/ Crash(d) PROVE NamesInv'
    <3>1. Undisturbed
      BY <1>3, <2>1 DEF Undisturbed, supVars, DaemonStep, OpenPidFile, AcquireLock,
         RemoveStaleSocket, Listen, WritePidLocked, CloseListener, ReleaseLock,
         RemoveSocket, RemovePid, Crash
    <3> QED BY <1>1, <2>1, <3>1, DaemonKeepsNames
  <2>2. ASSUME NEW s \in Supervisors, SupStep(s) \/ Exit(s) PROVE NamesInv'
    BY <1>3, <2>2, CommandOnlyLooks DEF UndisturbedInv, NamesInv, OpenFile,
       daemonVars, fileVars
  <2>3. CASE UNCHANGED vars
    BY <1>3, <2>3 DEF UndisturbedInv, Undisturbed, NamesInv, OpenFile, vars
  <2> QED BY <2>1, <2>2, <2>3 DEF Next
<1> QED BY <1>1, <1>2, <1>3 DEF UndisturbedInv

(***************************************************************************)
(* However many daemons are started, wherever they crash and whatever      *)
(* commands look on: as long as none is told to stop and no name is        *)
(* unlinked, one at most is past the lock, and the one that serves is      *)
(* found through the socket and the pid file (daemon.go:344-373).          *)
(***************************************************************************)
THEOREM LockKeepsDaemonsApart == Spec => []UndisturbedIsFindable
<1>1. Init => UndisturbedInv
  BY UndisturbedInvInit
<1>2. UndisturbedInv /\ [Next]_vars => UndisturbedInv'
  BY UndisturbedInvStep
<1>3. UndisturbedInv => UndisturbedIsFindable
  BY UndisturbedInvSuffices
<1> QED BY <1>1, <1>2, <1>3, PTL DEF Spec
=============================================================================
