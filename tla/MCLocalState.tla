---------------------------- MODULE MCLocalState ----------------------------
(***************************************************************************)
(* What Atum keeps on the workstation, in one model: managed files and     *)
(* locks, the caches, the credentials, private input to Ansible, and the   *)
(* files that stand for a cluster.  Each is the ground another stands on   *)
(* and they share no variable, so a behaviour exercises one of them and    *)
(* leaves the others in their initial states.                              *)
(***************************************************************************)
EXTENDS Credentials, ManagedFile, LockFile, ContentCache, Lifecycle, PrivateInput

VARIABLE focus

Parts == {"credentials", "file", "lock", "cache", "life", "input"}

localStateVars == <<credVars, fileVars, lockVars, cacheVars, lifeVars, inputVars, focus>>

\* One process applies, the other runs the secrets commands.
MCRuns == [p \in {"apply", "tool"} |-> IF p = "apply" THEN {"apply"} ELSE {"init", "commit", "validate", "render"}]

\* The parts that choose an initial state choose it only for their own behaviours.
MCInit ==
    /\ focus \in Parts
    /\ CredInit /\ FileInit /\ LockInit /\ CacheInit /\ LifeInit /\ InputInit
    /\ focus # "file" => names = <<Absent>> /\ op = [p \in Procs |-> "write"]
    /\ focus # "lock" => path = NoFile
    /\ focus # "cache" => cache = "git"
    /\ focus # "input" => fifo = "absent"

InCredentials(A) ==
    focus = "credentials" /\ A /\ UNCHANGED <<fileVars, lockVars, cacheVars, lifeVars, inputVars, focus>>
InFile(A) ==
    focus = "file" /\ A /\ UNCHANGED <<credVars, lockVars, cacheVars, lifeVars, inputVars, focus>>
InLock(A) ==
    focus = "lock" /\ A /\ UNCHANGED <<credVars, fileVars, cacheVars, lifeVars, inputVars, focus>>
InCache(A) ==
    focus = "cache" /\ A /\ UNCHANGED <<credVars, fileVars, lockVars, lifeVars, inputVars, focus>>
InLife(A) ==
    focus = "life" /\ A /\ UNCHANGED <<credVars, fileVars, lockVars, cacheVars, inputVars, focus>>
InInput(A) ==
    focus = "input" /\ A /\ UNCHANGED <<credVars, fileVars, lockVars, cacheVars, lifeVars, focus>>

MCNext ==
    \/ InCredentials(CredNext) \/ InFile(FileNext) \/ InLock(LockNext) \/ InCache(CacheNext)
    \/ InLife(LifeNext) \/ InInput(InputNext)

\* The fairness of the modules.  A behaviour stays in its part, where only that
\* part's disjunct is ever enabled: one condition states one of each part's.
Going(n) ==
    \/ InCredentials(Step(IF n = 1 THEN "apply" ELSE "tool"))
    \/ InCache(\E u \in Users : CacheStep(u))
    \/ InLife(IF n = 1 THEN ApplyStep ELSE DestroyStep)
    \/ InInput(Goroutine \/ Ansible \/ Caller)
Coming(n) ==
    \/ InCredentials(CASE n = 1 -> relock("apply") [] n = 2 -> Begin("apply", "apply") [] n = 3 -> Begin("tool", "render"))
    \/ InCache(\E u \in Users : CASE n = 1 -> Arrives(u) [] n = 2 -> Builds(u, "partial") [] n = 3 -> Builds(u, "whole"))
    \/ n = 1 /\ InLife(recover)

MCSpec ==
    /\ MCInit /\ [][MCNext]_localStateVars
    /\ WF_localStateVars(Going(1)) /\ WF_localStateVars(Going(2))
    /\ SF_localStateVars(Coming(1)) /\ SF_localStateVars(Coming(2)) /\ SF_localStateVars(Coming(3))

\* Nothing on the workstation stays broken: once the stored credentials stay
\* loadable, render and apply succeed (RerunsSucceed); assets and toolchains repair
\* themselves (CacheRepairs); the owner who destroys after a refused apply has a
\* cluster again (LifeRecovers); private input always returns (InputReturns).
LocalStateRecovers ==
    []<>(CASE focus = "credentials" -> Rerunnable => Applied
           [] focus = "cache" /\ cache \in SelfRepairing -> Served
           [] focus = "life" -> applyAt = "done"
           [] focus = "input" -> caller = "returned"
           [] OTHER -> TRUE)

\* The types of all parts; who is inside a locked cache or past a flock has the lock.
LocalTypeOK ==
    CredTypeOK /\ FileTypeOK /\ LockTypeOK /\ CacheTypeOK /\ LifeTypeOK /\ InputTypeOK

\* Reported success is true: the published source is whole and the cluster can use it
\* (PublishedIsWhole, AppliedAgrees), an apply left one cluster and a destroy none
\* (DoneIsOneCluster, DestroyedIsForgotten), and private input was read to its last
\* byte (ReportedIsDelivered).
ReportsAreTrue ==
    /\ PublishedIsWhole /\ AppliedAgrees
    /\ DoneIsOneCluster /\ DestroyedIsForgotten
    /\ ReportedIsDelivered
=============================================================================
