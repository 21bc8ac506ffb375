------------------------------ MODULE LockFile ------------------------------
(***************************************************************************)
(* LockContext (fssecure): an flock on a file below the project, which the *)
(* project, Git cache, chart cache and toolchain locks are.  Processes     *)
(* make the file, open it, wait for the lock of the inode they opened, and *)
(* only then look whether the path still names that inode.  The owner of   *)
(* the project may remove or replace the file at any moment.               *)
(***************************************************************************)
EXTENDS Naturals, FiniteSets

CONSTANTS
    Lockers,     \* processes
    MaxInodes,   \* how many lock files there have been
    NoFile, Unlocked

ASSUME LockBounds ==
    /\ IsFiniteSet(Lockers) /\ MaxInodes \in Nat \ {0}
    /\ Unlocked \notin Lockers /\ NoFile \notin Nat

LockInodes == 1 .. MaxInodes

VARIABLES
    path,      \* the inode the path names, a link (0), or NoFile
    inodes,    \* how many inodes were made
    flocks,    \* inode -> the process that has its lock
    stage,     \* process -> step of LockContext
    fd,        \* process -> inode it opened
    wiped      \* inodes taken off the path while a process held them

lockVars == <<path, inodes, flocks, stage, fd, wiped>>

LockInit ==
    /\ path \in {NoFile, 0} /\ inodes = 0 /\ flocks = [i \in LockInodes |-> Unlocked]
    /\ stage = [p \in Lockers |-> "out"] /\ fd = [p \in Lockers |-> NoFile] /\ wiped = {}

At(p, from, to) == stage[p] = from /\ stage' = [stage EXCEPT ![p] = to]

Make == inodes < MaxInodes /\ inodes' = inodes + 1 /\ path' = inodes + 1

\* unlock, and the end of a process, close the descriptor.
Unlock(p) ==
    /\ fd' = [fd EXCEPT ![p] = NoFile]
    /\ flocks' = [i \in LockInodes |-> IF flocks[i] = p THEN Unlocked ELSE flocks[i]]

\* O_CREAT|O_EXCL makes the file; EEXIST opens it.  Anything but a regular file fails.
ensureRegular(p) ==
    \/ path = NoFile /\ At(p, "out", "ensured") /\ Make /\ UNCHANGED <<flocks, fd, wiped>>
    \/ path \in LockInodes /\ At(p, "out", "ensured") /\ UNCHANGED <<path, inodes, flocks, fd, wiped>>
    \/ path = 0 /\ At(p, "out", "failed") /\ UNCHANGED <<path, inodes, flocks, fd, wiped>>

\* The lock opens the path without O_CREAT and with O_NOFOLLOW.
openLock(p) ==
    /\ IF path \in LockInodes THEN At(p, "ensured", "waiting") /\ fd' = [fd EXCEPT ![p] = path]
       ELSE At(p, "ensured", "failed") /\ UNCHANGED fd
    /\ UNCHANGED <<path, inodes, flocks, wiped>>

\* TryLockContext asks again every interval.
TryLock(p) ==
    /\ At(p, "waiting", "locked") /\ flocks[fd[p]] = Unlocked
    /\ flocks' = [flocks EXCEPT ![fd[p]] = p]
    /\ UNCHANGED <<path, inodes, fd, wiped>>

\* The context ends while it waits.
CancelLock(p) ==
    /\ At(p, "waiting", "failed") /\ Unlock(p) /\ UNCHANGED <<path, inodes, wiped>>

MutantVerifyLock(p) ==
    At(p, "locked", "held") /\ UNCHANGED <<path, inodes, fd, flocks, wiped>>

\* The path must still name the locked inode.
verifyLock(p) ==
    /\ IF path = fd[p] THEN At(p, "locked", "held") /\ UNCHANGED <<fd, flocks>>
       ELSE At(p, "locked", "failed") /\ Unlock(p)
    /\ UNCHANGED <<path, inodes, wiped>>

release(p) ==
    /\ At(p, "held", "out") /\ Unlock(p) /\ UNCHANGED <<path, inodes, wiped>>

\* The command that failed is started again.
retryLock(p) == At(p, "failed", "out") /\ UNCHANGED <<path, inodes, flocks, fd, wiped>>

\* The kernel drops the locks of a process that dies.
dieLocked(p) ==
    /\ stage[p] \in {"waiting", "locked", "held"} /\ stage' = [stage EXCEPT ![p] = "out"]
    /\ Unlock(p) /\ UNCHANGED <<path, inodes, wiped>>

\* The owner removes the file, puts a link there, or restores a file.
wipeLock ==
    /\ path' \in {NoFile, 0} /\ path' # path /\ inodes < MaxInodes
    /\ wiped' = wiped \cup {i \in LockInodes : i = path /\ \E p \in Lockers : stage[p] = "held" /\ fd[p] = i}
    /\ UNCHANGED <<inodes, flocks, stage, fd>>

LockStep(p) == ensureRegular(p) \/ openLock(p) \/ TryLock(p) \/ verifyLock(p) \/ release(p) \/ retryLock(p)
LockNext == (\E p \in Lockers : LockStep(p) \/ CancelLock(p) \/ dieLocked(p)) \/ wipeLock

LockSpec == LockInit /\ [][LockNext]_lockVars

(***************************************************************************)
(* Properties                                                              *)
(***************************************************************************)
\* The state is well formed; a process that has or waits for a lock has it open.
LockTypeOK ==
    /\ path \in LockInodes \cup {NoFile, 0} /\ inodes \in 0 .. MaxInodes
    /\ \A p \in Lockers : /\ stage[p] \in {"locked", "held"} <=> \E i \in LockInodes : flocks[i] = p
                          /\ stage[p] \in {"locked", "held"} => flocks[fd[p]] = p

\* Two processes are never both inside: whatever became of the file while they
\* waited, a second holder exists only when the file was taken away from under a
\* process that was inside.
OneHolder ==
    \A p, q \in Lockers :
        p # q /\ stage[p] = "held" /\ stage[q] = "held" => fd[p] \in wiped \/ fd[q] \in wiped
=============================================================================
