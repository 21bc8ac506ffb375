-------------------------- MODULE LocalStateProofs --------------------------
(***************************************************************************)
(* What Atum keeps on the workstation, for any number of processes, users, *)
(* chunks, faults and interruptions: the project lock, the caches, apply   *)
(* against destroy and private input, and, together with the managed files *)
(* and the credentials, the properties of MCLocalState.                    *)
(***************************************************************************)
EXTENDS MCLocalState, StoredStateProofs

(***************************************************************************)
(* The project lock.  OneHolder is not inductive by itself: that two       *)
(* processes cannot hold the same inode comes from flock, and that they    *)
(* cannot hold two different ones from the look at the path after the lock,*)
(* whose outcome is remembered for as long as a process is inside.         *)
(***************************************************************************)
LockStages == {"out", "ensured", "waiting", "locked", "held", "failed"}

(* The variables have their types.                                          *)
LockTypes ==
    /\ path \in LockInodes \cup {NoFile, 0} /\ inodes \in 0 .. MaxInodes
    /\ flocks \in [LockInodes -> Lockers \cup {Unlocked}]
    /\ stage \in [Lockers -> LockStages]
    /\ fd \in [Lockers -> LockInodes \cup {NoFile}]
    /\ wiped \subseteq LockInodes

(* A process has the flock of at most the inode it opened, from TryLock to  *)
(* the end of its descriptor.                                               *)
Locks(p) ==
    /\ stage[p] \in {"waiting", "locked", "held"} => fd[p] \in LockInodes
    /\ stage[p] \in {"locked", "held"} => flocks[fd[p]] = p
    /\ \A i \in LockInodes : flocks[i] = p => stage[p] \in {"locked", "held"}

(* The path names the inode of a process inside, unless it was taken away.  *)
PathNames(p) == stage[p] = "held" => fd[p] \in wiped \/ path = fd[p]

LockInv == LockTypes /\ \A p \in Lockers : Locks(p) /\ PathNames(p)

(* No process is inside before the first one opens the file.                *)
LEMMA LockInitially == LockInit => LockInv
BY LockBounds DEF LockInit, LockInv, LockTypes, Locks, PathNames, LockStages, LockInodes

(* Every step of LockContext, every death and every removal keeps it.       *)
LEMMA LockPreserved == LockInv /\ [LockNext]_lockVars => LockInv'
<1> SUFFICES ASSUME LockInv, [LockNext]_lockVars
             PROVE  LockInv'
  OBVIOUS
<1> USE LockBounds DEF LockInv, LockTypes, Locks, PathNames, LockStages, LockInodes
<1>1. ASSUME NEW p \in Lockers, ensureRegular(p)
      PROVE  LockInv'
  <2>1. CASE path = NoFile /\ At(p, "out", "ensured") /\ Make /\ UNCHANGED <<flocks, fd, wiped>>
    <3>1. LockTypes' /\ \A q \in Lockers : Locks(q)'
      BY <2>1 DEF At, Make
    <3>2. ASSUME NEW q \in Lockers
          PROVE  PathNames(q)'
      <4>1. path \notin LockInodes
        BY <2>1
      <4> QED
        BY <2>1, <4>1 DEF At
    <3> QED
      BY <3>1, <3>2
  <2>2. CASE /\ stage[p] = "out" /\ UNCHANGED <<path, inodes, flocks, fd, wiped>>
             /\ \E to \in {"ensured", "failed"} : stage' = [stage EXCEPT ![p] = to]
    BY <2>2
  <2> QED
    BY <1>1, <2>1, <2>2 DEF ensureRegular, At
<1>2. ASSUME NEW p \in Lockers, openLock(p)
      PROVE  LockInv'
  BY <1>2 DEF openLock, At
<1>3. ASSUME NEW p \in Lockers, TryLock(p)
      PROVE  LockInv'
  BY <1>3 DEF TryLock, At
<1>4. ASSUME NEW p \in Lockers, CancelLock(p)
      PROVE  LockInv'
  BY <1>4 DEF CancelLock, At, Unlock
<1>5. ASSUME NEW p \in Lockers, verifyLock(p)
      PROVE  LockInv'
  BY SMTT(30), <1>5 DEF verifyLock, At, Unlock
<1>6. ASSUME NEW p \in Lockers, release(p)
      PROVE  LockInv'
  BY <1>6 DEF release, At, Unlock
<1>7. ASSUME NEW p \in Lockers, retryLock(p)
      PROVE  LockInv'
  BY <1>7 DEF retryLock, At
<1>8. ASSUME NEW p \in Lockers, dieLocked(p)
      PROVE  LockInv'
  BY <1>8 DEF dieLocked, Unlock
<1>9. CASE wipeLock
  BY Zenon, <1>9 DEF wipeLock
<1>10. CASE UNCHANGED lockVars
  BY <1>10 DEF lockVars
<1> QED
  BY Zenon, <1>1, <1>2, <1>3, <1>4, <1>5, <1>6, <1>7, <1>8, <1>9, <1>10 DEF LockNext, LockStep

(* The invariant holds throughout.                                          *)
LEMMA LockInvariance == LockSpec => []LockInv
BY LockInitially, LockPreserved, PTL DEF LockSpec

(* A process past flock has the inode it opened, and only such a process    *)
(* has an flock.                                                            *)
THEOREM LocksAreOwned == LockSpec => []LockTypeOK
<1>1. LockInv => LockTypeOK
  BY SMTT(30) DEF LockInv, LockTypes, Locks, LockTypeOK
<1> QED
  BY <1>1, LockInvariance, PTL

(* Two processes are inside LockContext together only when the file was     *)
(* taken off the path under one of them.                                    *)
THEOREM MutualExclusion == LockSpec => []OneHolder
<1>1. LockInv => OneHolder
  BY DEF LockInv, LockTypes, Locks, PathNames, OneHolder
<1> QED
  BY <1>1, LockInvariance, PTL

(***************************************************************************)
(* The caches.                                                             *)
(***************************************************************************)
CachePhases ==
    {"idle", "locking", "verify", "remove", "fetch", "check", "publish", "confirm", "identify"}

CacheShape ==
    /\ cache \in Caches /\ item \in Content /\ marker \in 0 .. 2 /\ wanted \in 1 .. 2
    /\ seen \in [Users -> 1 .. 2] /\ cacheLock \in Users \cup {Nobody}
    /\ phase \in [Users -> CachePhases] /\ aside \in [Users -> Content \ {"partial"}]
    /\ served \in [Users -> Content]

(* What a user knows of its temporary and of the entry where it stands.     *)
CacheKnows(u) ==
    /\ cache \in Locking /\ phase[u] \notin {"idle", "locking"} => cacheLock = u
    /\ phase[u] = "publish" /\ cache # "asset" => aside[u] = "whole"
    /\ phase[u] = "verify" /\ cache \in MadeFirst => aside[u] = "whole"
    /\ cache = "tool" => phase[u] \notin {"check", "publish", "confirm"}
    /\ phase[u] \in {"identify", "remove"} => cache = "tool"
    /\ phase[u] = "identify" /\ item # "whole" => touched

CacheInv == CacheShape /\ \A u \in Users : CacheKnows(u)

CacheSafeStep ==
    \A u \in Users : served'[u] # served[u] =>
          /\ served'[u] \in {"partial", "bad"} => cache = "tool" /\ (touched \/ cleared)
          /\ cache = "tool" /\ served[u] = "absent" => marker' = seen[u]

(* An empty cache satisfies the invariant.                                  *)
LEMMA CacheInitially == CacheInit => CacheInv
BY CacheBounds DEF CacheInit, CacheInv, CacheShape, CacheKnows, Caches, Content, CachePhases

(* A step of one user keeps the invariant and hands out only what is exact. *)
LEMMA CacheStepSafe ==
  ASSUME CacheInv, NEW u \in Users, CacheStep(u) \/ kill(u)
  PROVE  CacheInv' /\ CacheSafeStep
<1> USE CacheBounds DEF CacheInv, CacheShape, CacheKnows, CacheSafeStep, CachePhases, Content,
                        Become, Aside, Leave,
        Stay, Exact
<1>1. CASE enterCache(u)
  BY <1>1 DEF enterCache
<1>2. CASE lockCache(u)
  BY <1>2 DEF lockCache, Caches, Locking, MadeFirst
<1>3. CASE verifyHit(u)
  BY <1>3 DEF verifyHit, currentToolchain
<1>4. CASE verifyMiss(u)
  BY <1>4 DEF verifyMiss, MadeFirst
<1>5. CASE refuse(u)
  BY <1>5 DEF refuse
<1>6. CASE discardAsset(u)
  BY <1>6 DEF discardAsset, MadeFirst
<1>7. CASE removeTool(u)
  BY <1>7 DEF removeTool, MadeFirst, Locking, Caches
<1>8. CASE removedTool(u)
  BY <1>8 DEF removedTool, Locking, Caches
<1>9. CASE fetch(u)
  <2>1. CASE Hydrate(u)
    BY SMTT(30), <2>1 DEF Hydrate, Gets, MadeFirst
  <2>2. CASE fetchChart(u)
    BY SMTT(30), <2>2 DEF fetchChart, Gets, MadeFirst
  <2>3. CASE FetchSeedAsset(u)
    BY SMTT(30), <2>3 DEF FetchSeedAsset, Gets, MadeFirst
  <2>4. CASE packageChart(u)
    BY SMTT(30), <2>4 DEF packageChart, Gets, MadeFirst
  <2>5. CASE reconstructVendor(u)
    BY SMTT(30), <2>5 DEF reconstructVendor, Gets, MadeFirst
  <2>6. CASE prepareSeedArchive(u)
    BY SMTT(30), <2>6 DEF prepareSeedArchive, Gets, MadeFirst
  <2> QED
    BY Zenon, <1>9, <2>1, <2>2, <2>3, <2>4, <2>5, <2>6 DEF fetch
<1>10. CASE check(u)
  BY SMTT(30), <1>10 DEF check
<1>11. CASE publish(u)
  BY SMTT(30), <1>11 DEF publish
<1>12. CASE publishLate(u)
  BY SMTT(30), <1>12 DEF publishLate, MadeFirst
<1>13. CASE confirm(u)
  BY SMTT(30), <1>13 DEF confirm
<1>14. CASE buildTool(u)
  BY SMTT(30), <1>14 DEF buildTool, Locking, Caches
<1>15. CASE identifyTool(u)
  BY SMTT(30), <1>15 DEF identifyTool, Locking, Caches
<1>16. CASE kill(u)
  BY <1>16 DEF kill
<1> QED
  BY Zenon, <1>1, <1>2, <1>3, <1>4, <1>5, <1>6, <1>7, <1>8, <1>9, <1>10, <1>11, <1>12, <1>13,
     <1>14, <1>15, <1>16 DEF CacheStep

(* So does every step.                                                      *)
LEMMA CacheNextSafe ==
  CacheInv /\ [CacheNext]_cacheVars => CacheInv' /\ (CacheSafeStep \/ UNCHANGED cacheVars)
<1> SUFFICES ASSUME CacheInv, [CacheNext]_cacheVars
             PROVE  CacheInv' /\ (CacheSafeStep \/ UNCHANGED cacheVars)
  OBVIOUS
<1>1. ASSUME NEW u \in Users, CacheStep(u) \/ kill(u) PROVE CacheInv' /\ CacheSafeStep
  BY ZenonT(30), <1>1, CacheStepSafe
<1> USE CacheBounds DEF CacheInv, CacheShape, CacheKnows, CacheSafeStep, CachePhases, Content
<1>2. CASE losePower
  BY ZenonT(30), <1>2 DEF losePower
<1>3. CASE meddle
  BY SMTT(30), <1>3 DEF meddle
<1>4. CASE UNCHANGED cacheVars
  BY <1>4 DEF cacheVars
<1> QED
  BY Zenon, <1>1, <1>2, <1>3, <1>4 DEF CacheNext


(* What a cache hands out is complete and exact, for any number of users,   *)
(* crashes, power failures and changes by the owner.                        *)
THEOREM CachesAreExact == CacheSpec => ServedIsExact
<1>1. CacheInv /\ [CacheNext]_cacheVars => CacheInv'
  BY CacheNextSafe
<1>2. CacheInv /\ [CacheNext]_cacheVars => [CacheSafeStep]_cacheVars
  BY CacheNextSafe
<1> QED
  BY CacheInitially, <1>1, <1>2, PTL DEF CacheSpec, ServedIsExact, CacheSafeStep

(***************************************************************************)
(* Apply against destroy.  A command that reports success knows what it did*)
(* only if the other did not run beside it; what it knows grows step by step.*)
(***************************************************************************)
Generations == 0 .. 6

(* How far an apply has come that no destroy disturbed.                     *)
ApplyKnows ==
    /\ destroyAt \in Resting
    /\ applyAt \in {"seed", "inventory", "converge", "install", "fetch", "verify", "integrate", "done"}
         => machines # 0 /\ outputs = machines /\ bastion
    /\ applyAt \in {"converge", "install", "fetch", "verify", "integrate", "done"}
         => hosts = machines /\ input = machines
    /\ applyAt \in {"integrate", "done"} => kubeconf = machines /\ api = machines
    /\ applyAt = "done" => access

(* How far a destroy has come that no apply disturbed.                      *)
DestroyKnows ==
    /\ applyAt \in Resting
    /\ destroyAt \in {"terraform", "destroying", "clear", "artifacts", "done"} => ~ access
    /\ destroyAt \in {"clear", "artifacts", "done"} => machines = 0 /\ (bastion => keep)
    /\ destroyAt \in {"artifacts", "done"} => hosts = 0
    /\ destroyAt = "done" => kubeconf = 0

LifeInv ==
    /\ LifeTypeOK
    /\ machines \in Generations /\ outputs \in Generations /\ hosts \in Generations
    /\ kubeconf \in Generations /\ fetched \in Generations /\ input \in Generations
    /\ bastion \in BOOLEAN /\ access \in BOOLEAN /\ keep \in BOOLEAN
    /\ torn \in BOOLEAN /\ revived \in BOOLEAN
    /\ ~ torn => ApplyKnows
    /\ ~ revived => DestroyKnows

(* There is always a generation that nothing refers to.                     *)
LEMMA FreshIsUnused ==
  ASSUME outputs \in Generations, hosts \in Generations, kubeconf \in Generations,
         fetched \in Generations, input \in Generations
  PROVE  Fresh \in 1 .. 6
<1>1. \E g \in 1 .. 6 : g \notin {outputs, hosts, kubeconf, fetched, input}
  <2>1. /\ 1 \in 1 .. 6 /\ 2 \in 1 .. 6 /\ 3 \in 1 .. 6
        /\ 4 \in 1 .. 6 /\ 5 \in 1 .. 6 /\ 6 \in 1 .. 6
    OBVIOUS
  <2> QED
    BY <2>1
<1> QED
  BY <1>1 DEF Fresh

(* Nothing exists before the first apply.                                   *)
LEMMA LifeInitially == LifeInit => LifeInv
<1> SUFFICES ASSUME LifeInit PROVE LifeInv
  OBVIOUS
<1>1. LifeTypeOK
  BY DEF LifeInit, LifeTypeOK
<1>2. ApplyKnows /\ DestroyKnows
  BY DEF LifeInit, ApplyKnows, DestroyKnows, Resting
<1>3. /\ machines \in Generations /\ outputs \in Generations /\ hosts \in Generations
      /\ kubeconf \in Generations /\ fetched \in Generations /\ input \in Generations
  BY DEF LifeInit, Generations
<1>4. /\ bastion \in BOOLEAN /\ access \in BOOLEAN /\ keep \in BOOLEAN
      /\ torn \in BOOLEAN /\ revived \in BOOLEAN
  BY Zenon DEF LifeInit
<1> QED
  BY <1>1, <1>2, <1>3, <1>4, Zenon DEF LifeInv

(* Every step of apply and destroy, and every failure, keeps the invariant. *)
LEMMA LifePreserved == LifeInv /\ [LifeNext]_lifeVars => LifeInv'
<1> SUFFICES ASSUME LifeInv, [LifeNext]_lifeVars PROVE LifeInv'
  OBVIOUS
<1> USE DEF LifeInv, LifeTypeOK, ApplyKnows, DestroyKnows, Resting, Generations,
        machineVars, localVars, applyVars, destroyVars, Applies, Destroys, Untroubled
<1>1. CASE startApply
  BY <1>1 DEF startApply
<1>11. CASE preflightPlan \/ terraformApply
  BY Zenon, <1>11 DEF preflightPlan, terraformApply
<1>2. CASE terraformApplied
  BY SMTT(30), <1>2, FreshIsUnused DEF terraformApplied
<1>3. CASE seedBastion \/ Generate \/ planConvergence
  BY Zenon, <1>3 DEF seedBastion, Generate, planConvergence, NoConfig, Answers
<1>4. CASE installCluster \/ writeKubeconfig
  BY <1>4 DEF installCluster, writeKubeconfig
<1>5. CASE verifyCluster \/ integrate
  BY ZenonT(30), <1>5 DEF verifyCluster, integrate, Answers
<1>6. CASE applyFails
  <2>1. machines' \in Generations
    BY <1>6, FreshIsUnused DEF applyFails
  <2>2. /\ applyAt' = "failed" /\ fetched' = 0
        /\ stateLock' = (IF stateLock = "apply" THEN "free" ELSE stateLock)
        /\ UNCHANGED <<bastion, outputs, api, hosts, kubeconf, access, destroyVars, input, torn, revived>>
        /\ applyAt \notin Resting
    BY Zenon, <1>6 DEF applyFails
  <2>3. LifeTypeOK'
    <3>1. machines' = machines \/ machines = 0
      BY ZenonT(30), <1>6 DEF applyFails
    <3>2. {machines, outputs, hosts, kubeconf, fetched, input}' \subseteq 0 .. 6 /\ api' \in {0, machines'}
      BY SMTT(30), <2>1, <2>2, <3>1
    <3>3. /\ (stateLock = "apply" <=> applyAt = "applying")'
          /\ (stateLock = "destroy" <=> destroyAt = "destroying")'
      BY <2>2
    <3> QED
      BY Zenon, <3>2, <3>3
  <2>4. ~ torn => ApplyKnows'
    BY Zenon, <2>2
  <2>5. ~ revived => DestroyKnows'
    BY Zenon, <2>2
  <2> QED
    BY Zenon, <2>1, <2>2, <2>3, <2>4, <2>5
<1>7. CASE uninstallAccess
  BY ZenonT(30), <1>7 DEF uninstallAccess
<1>13. CASE terraformDestroy
  BY ZenonT(30), <1>13 DEF terraformDestroy
<1>14. CASE clearHosts
  BY SMTT(30), <1>14 DEF clearHosts
<1>15. CASE clearArtifacts
  BY SMTT(30), <1>15 DEF clearArtifacts
<1>12. CASE terraformDestroyed
  BY SMTT(30), <1>12 DEF terraformDestroyed
<1>8. CASE destroyFails
  BY SMTT(30), <1>8 DEF destroyFails
<1>9. ASSUME NEW k \in BOOLEAN, startDestroy(k) PROVE LifeInv'
  BY <1>9 DEF startDestroy
<1>10. CASE UNCHANGED lifeVars
  BY ZenonT(60), <1>10 DEF lifeVars
<1> QED
  BY Zenon, <1>1, <1>11, <1>2, <1>3, <1>4, <1>5, <1>6, <1>7, <1>12, <1>13, <1>14, <1>15,
     <1>8, <1>9, <1>10 DEF LifeNext, ApplyStep, DestroyStep

(***************************************************************************)
(* Private input.                                                          *)
(***************************************************************************)
(* What the pipe, the goroutine and the playbook know of each other.        *)
InputInv ==
    /\ InputTypeOK /\ sent \in Nat /\ taken \in Nat
    /\ caller = "idle" => verdict = "none" /\ writer = "none" /\ playbook = "none" /\ sent = 0
    /\ writer \in {"none", "opening"} => sent = 0
    /\ writer = "sent" => sent = Chunks
    /\ playbook \in {"none", "started"} => writer \notin {"writing", "sent"}
    /\ playbook = "ok" => writer # "writing" /\ (writer = "sent" => taken = Chunks)
    /\ verdict = "ok" => playbook = "ok" /\ writer = "sent"

(* No input is under way before the first call.                             *)
LEMMA InputInitially == InputInit => InputInv
BY InputBounds DEF InputInit, InputInv, InputTypeOK

(* Every step of the three processes, and every interruption, keeps it.     *)
LEMMA InputPreserved == InputInv /\ [InputNext]_inputVars => InputInv'
<1> SUFFICES ASSUME InputInv, [InputNext]_inputVars PROVE InputInv'
  OBVIOUS
<1> USE InputBounds DEF InputInv, InputTypeOK
<1>1. CASE Goroutine
  BY SMTT(30), <1>1 DEF Goroutine, openWriter, openGivesUp, writeChunk, writeGivesUp
<1>2. CASE Ansible
  BY SMTT(30), <1>2 DEF Ansible, openReader, readChunk, playbookEnds
<1>3. CASE Caller
  BY <1>3 DEF Caller, createPrivateAnsibleFIFO, cancelWriter, joinWriter, removePrivateAnsibleFIFO,
     nextInput
<1>4. CASE stop \/ replaceFIFO
  BY Zenon, <1>4 DEF stop, replaceFIFO
<1>5. CASE UNCHANGED inputVars
  BY <1>5 DEF inputVars
<1> QED
  BY Zenon, <1>1, <1>2, <1>3, <1>4, <1>5 DEF InputNext

(* The invariant holds throughout.                                          *)
LEMMA InputInvariance == InputSpec => []InputInv
BY InputInitially, InputPreserved, PTL DEF InputSpec

(***************************************************************************)
(* Together.                                                               *)
(***************************************************************************)
(* A step of the workstation is a step of one part, or of none.             *)
LEMMA PartsStep ==
  ASSUME [MCNext]_localStateVars
  PROVE  /\ [CredNext]_credVars /\ [FileNext]_fileVars /\ [LockNext]_lockVars
         /\ [CacheNext]_cacheVars /\ [LifeNext]_lifeVars /\ [InputNext]_inputVars
BY DEF MCNext, InCredentials, InFile, InLock, InCache, InLife, InInput, localStateVars

LocalInv == CredInv /\ FileInv /\ LockInv /\ CacheInv /\ LifeInv /\ InputInv

(* The invariants of the parts hold together.                               *)
LEMMA LocalInvariance == MCSpec => []LocalInv
<1>1. MCInit => LocalInv
  BY SMTT(30), CredInitially, FileInitially, LockInitially, CacheInitially, LifeInitially,
     InputInitially DEF MCInit, LocalInv
<1>2. LocalInv /\ [MCNext]_localStateVars => LocalInv'
  <2> SUFFICES ASSUME LocalInv, [MCNext]_localStateVars PROVE LocalInv'
    OBVIOUS
  <2>1. CredInv' /\ FileInv' /\ LockInv'
    BY SMTT(30), PartsStep, CredPreserved, FilePreserved, LockPreserved DEF LocalInv
  <2>2. CacheInv' /\ LifeInv' /\ InputInv'
    BY SMTT(30), PartsStep, CacheNextSafe, LifePreserved, InputPreserved DEF LocalInv
  <2> QED
    BY SMTT(30), <2>1, <2>2 DEF LocalInv
<1> QED
  BY <1>1, <1>2, PTL DEF MCSpec

(* The types of all parts; who is inside a locked cache or past a flock has *)
(* the lock, and only the command that runs Terraform has its lock.         *)
THEOREM LocalTypesHold == MCSpec => []LocalTypeOK
<1>1. LocalInv => LocalTypeOK
  <2> SUFFICES ASSUME LocalInv PROVE LocalTypeOK
    OBVIOUS
  <2>1. CredTypeOK /\ FileTypeOK
    BY SMTT(30), CredImplies, FileImplies DEF LocalInv
  <2>2. LockTypeOK
    BY SMTT(30) DEF LocalInv, LockInv, LockTypes, Locks, LockTypeOK
  <2>3. CacheTypeOK
    BY SMTT(30) DEF LocalInv, CacheInv, CacheShape, CacheKnows, CacheTypeOK
  <2>4. LifeTypeOK /\ InputTypeOK
    BY SMTT(30) DEF LocalInv, LifeInv, InputInv
  <2> QED
    BY SMTT(30), <2>1, <2>2, <2>3, <2>4 DEF LocalTypeOK
<1> QED
  BY <1>1, LocalInvariance, PTL

(* Reported success is true, whatever ran beside it, failed before it or    *)
(* was left behind: the published source is whole and usable, an apply left *)
(* one cluster and a destroy none, private input was read to its last byte. *)
THEOREM ReportsAreAlwaysTrue == MCSpec => []ReportsAreTrue
<1>1. LocalInv => ReportsAreTrue
  <2> SUFFICES ASSUME LocalInv PROVE ReportsAreTrue
    OBVIOUS
  <2>1. PublishedIsWhole /\ AppliedAgrees
    BY SMTT(30), CredImplies DEF LocalInv, CredInv
  <2>2. DoneIsOneCluster
    BY SMTT(30) DEF LocalInv, LifeInv, ApplyKnows, DoneIsOneCluster
  <2>3. DestroyedIsForgotten
    BY SMTT(30) DEF LocalInv, LifeInv, DestroyKnows, DestroyedIsForgotten, NoConfig
  <2>4. ReportedIsDelivered
    BY InputBounds DEF LocalInv, InputInv, ReportedIsDelivered
  <2> QED
    BY SMTT(30), <2>1, <2>2, <2>3, <2>4 DEF ReportsAreTrue
<1> QED
  BY <1>1, LocalInvariance, PTL
=============================================================================
