--------------------------- MODULE DeliveryProofs ---------------------------
(***************************************************************************)
(* The delivery of a platform, for any number of generations, reruns and   *)
(* workers: its publication, the worker budget inside its Prepare, and the *)
(* handoff of the published commit to Flux.                                *)
(***************************************************************************)
EXTENDS PlatformHandoff, DeliveryBudget, FiniteSetTheorems, SequenceTheorems, TLAPS

----------------------------------------------------------------------------
(***************************************************************************)
(* Publication.  What is in Harbor, in Forgejo and in the receipt is right *)
(* because of what the command knows when it writes them, so the inductive *)
(* invariant follows its memory: the generation is fixed while the lock is *)
(* held (Holding), the digest is the committed one (Admitted), and what was *)
(* pushed stays (Pushed).                                                  *)
(***************************************************************************)

Snapshotted == {"hash", "copy", "seed", "manifest", "prepared", "images", "charts", "tag",
                "branch", "push", "report", "put", "receipt", "handoff"}
Uploading == {"images", "charts", "tag", "branch", "push", "report", "put", "receipt"}
Fields == {"step", "kind", "gen", "runtime", "graph", "source", "staged", "mirror", "build",
           "workspace", "digest", "published", "lease", "missing"}

CmdTypes ==
    /\ DOMAIN cmd = Fields /\ cmd.step \in Steps
    /\ cmd.gen \in Gens /\ cmd.runtime \in Gens /\ cmd.graph \in Graphs

StoreTypes ==
    /\ tree \in Trees /\ DOMAIN builds = Graphs
    /\ DOMAIN harbor = Kinds \X Gens /\ DOMAIN tags = Trees
    /\ DOMAIN bastion = {"manifests", "blobs", "active"}
    /\ receipt # None => receipt.desired \in Gens /\ receipt.source \in Trees

(* Nobody commits a generation while Prepare holds the lock. *)
Holding ==
    cmd.step \in {"prepare", "resolve", "source", "hash", "copy", "seed", "manifest"} =>
        holder = "command" /\ tree.gen = cmd.runtime

(* What a bake writes was made from the graph its path names. *)
Baking == cmd.build \in {"bake", "baking", "recheck"} => cmd.workspace = cmd.graph

(* Only what the delivery lock names gets past matchesCommittedDelivery. *)
Admitted ==
    /\ cmd.step \in Snapshotted \cup {"source"} => cmd.digest = Committed(cmd.runtime)
    /\ cmd.step \in Snapshotted => cmd.source \in Trees /\ cmd.source.gen = cmd.runtime
    /\ cmd.step \in Uploading => cmd.gen = cmd.runtime

(* What the command has pushed is there. *)
Pushed ==
    /\ cmd.step \notin Uploading \cup {"handoff", "verify", "observe"} => cmd.published = {}
    /\ cmd.step = "images" => cmd.published \subseteq {"mirror", "build"}
    /\ cmd.step = "charts" => cmd.published = {"mirror", "build"}
    /\ cmd.step \in Uploading =>
          \A k \in cmd.published : harbor[<<k, cmd.runtime>>] = Committed(cmd.runtime)
    /\ cmd.step \in Uploading \ {"images", "charts"} => cmd.published = Kinds
    /\ cmd.step \in {"branch", "push", "report", "put", "receipt"} => tags[cmd.source] = cmd.source

(* A status has compared the receipt with the tree. *)
Observing ==
    cmd.step = "observe" /\ ~disturbed =>
        receipt # None /\ receipt.source = tree /\ receipt.graph = Graph(tree)

Memory == Holding /\ Baking /\ Admitted
Records == BuildCacheHonest /\ HarborExact /\ TagNamesContent /\ ReceiptUnmixed /\ ReceiptBacked
Outcome == ActiveComplete /\ Observing /\ SuccessIsCurrent

PubInv == CmdTypes /\ StoreTypes /\ Memory /\ Pushed /\ Records /\ Outcome

(* The records that are made from a tree and a generation. *)
LEMMA TreeRecords ==
  ASSUME NEW t \in Trees
  PROVE  /\ t.gen \in Gens /\ Graph(t) \in Graphs /\ Graph(t).gen = t.gen
         /\ t.other \in {"locked", "edited"} /\ t.material \in {"locked", "edited"}
BY DEF Trees, Graphs, Graph

LEMMA TreeEdits ==
  ASSUME NEW t \in Trees, NEW g \in Gens, NEW v \in {"locked", "edited"}
  PROVE  /\ [t EXCEPT !.other = v] \in Trees /\ [t EXCEPT !.other = v].gen = t.gen
         /\ [t EXCEPT !.gen = g, !.material = v] \in Trees
BY Zenon DEF Trees

LEMMA LockedRecords ==
  /\ 1 \in Gens /\ Committed(1) \in Graphs
  /\ \A g \in Gens : Committed(g) \in Graphs /\ Committed(g).gen = g
BY PublicationBounds DEF Gens, Graphs, Committed

LEMMA PubInitially == PubInit => PubInv
<1> SUFFICES ASSUME PubInit
             PROVE  PubInv
  OBVIOUS
<1>0. tree \in Trees /\ 1 \in Gens /\ Committed(1) \in Graphs
  BY SMTT(30), PublicationBounds DEF PubInit, Trees, Gens, Committed, Graphs
<1>1. CmdTypes
  BY SMTT(30), <1>0 DEF PubInit, NoCommand, CmdTypes, Fields, Steps
<1>2. StoreTypes
  BY SMTT(30), <1>0 DEF PubInit, StoreTypes
<1>3. Memory /\ Pushed
  BY DEF PubInit, NoCommand, Memory, Holding, Baking, Admitted, Pushed, Snapshotted, Uploading
<1>4. Records
  BY SMTT(30) DEF PubInit, Records, BuildCacheHonest, HarborExact, TagNamesContent, ReceiptUnmixed,
         ReceiptBacked, Kinds
<1>5. Outcome
  BY DEF PubInit, NoCommand, Outcome, ActiveComplete, Observing, SuccessIsCurrent
<1> QED
  BY SMTT(30), <1>1, <1>2, <1>3, <1>4, <1>5 DEF PubInv

(* A step that leaves Harbor, the tags and the receipt keeps the records.   *)
LEMMA RecordsKept ==
  ASSUME PubInv, BuildCacheHonest', UNCHANGED <<harbor, tags, receipt>>
  PROVE  Records'
<1>1. HarborExact' /\ TagNamesContent'
  BY Zenon DEF PubInv, Records, HarborExact, TagNamesContent
<1>2. ReceiptUnmixed' /\ ReceiptBacked'
  BY Zenon DEF PubInv, Records, ReceiptUnmixed, ReceiptBacked
<1> QED
  BY SMTT(30), <1>1, <1>2 DEF Records

LEMMA BuildsKept ==
  ASSUME PubInv, UNCHANGED builds
  PROVE  BuildCacheHonest'
BY Zenon DEF PubInv, Records, BuildCacheHonest

LEMMA StoresKept ==
  ASSUME PubInv, tree' \in Trees, DOMAIN builds' = DOMAIN builds, UNCHANGED <<harbor, tags, receipt>>,
         DOMAIN bastion' = DOMAIN bastion
  PROVE  StoreTypes'
BY Zenon DEF PubInv, StoreTypes

LEMMA ServedKept ==
  ASSUME PubInv, UNCHANGED bastion
  PROVE  ActiveComplete'
BY Zenon DEF PubInv, Outcome, ActiveComplete

(* Only a command that observes or is done claims anything.                 *)
LEMMA OutcomeKept ==
  ASSUME ActiveComplete', cmd'.step \notin {"observe", "done"} \/ disturbed'
  PROVE  Outcome'
BY Zenon DEF Outcome, Observing, SuccessIsCurrent

(* What a command remembers does not depend on the files around it.         *)
LEMMA MemoryKept ==
  ASSUME PubInv, UNCHANGED <<holder, cmd, harbor, tags>>,
         holder = "command" => tree'.gen = tree.gen
  PROVE  CmdTypes' /\ Memory' /\ Pushed'
<1>1. CmdTypes'
  BY Zenon DEF PubInv, CmdTypes
<1>2. Holding'
  BY Zenon DEF PubInv, Memory, Holding
<1>3. Baking' /\ Admitted'
  BY Zenon DEF PubInv, Memory, Baking, Admitted
<1>4. Pushed'
  BY Zenon DEF PubInv, Pushed
<1> QED
  BY SMTT(30), <1>1, <1>2, <1>3, <1>4 DEF Memory

(* A step of the command's own memory leaves what is recorded as it was. *)
LEMMA Kept ==
  ASSUME PubInv, UNCHANGED <<local, remote, receipt>>
  PROVE  StoreTypes' /\ Records' /\ ActiveComplete'
<1>1. UNCHANGED <<tree, builds, harbor, tags, bastion, receipt>>
  BY DEF local, remote
<1>2. tree \in Trees
  BY DEF PubInv, StoreTypes
<1> QED
  BY SMTT(30), <1>1, <1>2, StoresKept, RecordsKept, BuildsKept, ServedKept

(* The end of a command forgets everything but its kind. *)
LEMMA Ended ==
  ASSUME NEW r \in {"failed", "done"}, Finish(r), PubInv, UNCHANGED <<local, remote, receipt>>,
         r = "done" => SuccessIsCurrent'
  PROVE  PubInv'
<1>1. 1 \in Gens /\ Committed(1) \in Graphs
  BY SMTT(30), PublicationBounds DEF Gens, Committed, Graphs
<1>2. /\ DOMAIN cmd' = Fields /\ cmd'.step = r /\ cmd'.gen = 1 /\ cmd'.runtime = 1
      /\ cmd'.graph = Committed(1) /\ cmd'.build = "todo" /\ cmd'.published = {}
  BY DEF Finish, NoCommand, Fields
<1>3. CmdTypes'
  BY SMTT(30), <1>1, <1>2 DEF CmdTypes, Steps
<1>4. Memory' /\ Pushed'
  BY SMTT(30), <1>2 DEF Memory, Holding, Baking, Admitted, Pushed, Snapshotted, Uploading
<1>5. Outcome'
  BY SMTT(30), <1>2, Kept DEF Outcome, Observing, SuccessIsCurrent
<1> QED
  BY SMTT(30), <1>3, <1>4, <1>5, Kept DEF PubInv

LEMMA PubPreserved == PubInv /\ [PubNext]_pubVars => PubInv'
<1> SUFFICES ASSUME PubInv, [PubNext]_pubVars
             PROVE  PubInv'
  OBVIOUS
<1>0. tree.gen \in Gens /\ Graph(tree) \in Graphs
  BY SMTT(30), TreeRecords DEF PubInv, StoreTypes
<1>t. tree \in Trees
  BY DEF PubInv, StoreTypes
<1>1. ASSUME NEW k \in {"apply", "publish", "status"}, Start(k)
      PROVE  PubInv'
  <2>1. PICK s \in {"verify", "loaded", "failed"} :
          cmd' = [NoCommand EXCEPT !.step = s, !.kind = k, !.gen = tree.gen]
    BY Zenon, <1>1 DEF Start
  <2>2. 1 \in Gens /\ Committed(1) \in Graphs /\ tree.gen \in Gens
    BY SMTT(30), <1>0, LockedRecords
  <2>3. /\ DOMAIN cmd' = Fields /\ cmd'.step = s /\ cmd'.gen = tree.gen /\ cmd'.runtime = 1
        /\ cmd'.graph = Committed(1) /\ cmd'.build = "todo" /\ cmd'.published = {}
    BY <2>1 DEF NoCommand, Fields
  <2>4. UNCHANGED <<local, remote, receipt, others>>
    BY SMTT(30), <1>1 DEF Start
  <2>5. CmdTypes'
    BY SMTT(30), <2>2, <2>3 DEF CmdTypes, Steps
  <2>6. Memory' /\ Pushed'
    BY SMTT(30), <2>3 DEF Memory, Holding, Baking, Admitted, Pushed, Snapshotted, Uploading
  <2>7. Outcome'
    BY SMTT(30), <2>3, <2>4, Kept DEF Outcome, Observing, SuccessIsCurrent
  <2> QED
    BY SMTT(30), <2>4, <2>5, <2>6, <2>7, Kept DEF PubInv
<1>2. CASE unlockProject
  <2>1. CmdTypes'
    BY SMTT(30), <1>2, <1>0 DEF PubInv, CmdTypes, Fields, Steps, unlockProject, Goto, local, remote, others
  <2>2. Memory'
    BY SMTT(30), <1>2, <1>0 DEF PubInv, CmdTypes, Fields, StoreTypes, Memory, Holding, Baking, Admitted,
       Snapshotted, Uploading, unlockProject, Goto, local, remote, others
  <2>3. Pushed'
    BY SMTT(30), <1>2 DEF PubInv, CmdTypes, Fields, StoreTypes, Memory, Admitted, Pushed, Snapshotted,
       Uploading, unlockProject, Goto, local, remote, others
  <2>4. Outcome'
    BY SMTT(30), <1>2, Kept, OutcomeKept DEF PubInv, CmdTypes, Fields, unlockProject, Goto, local, remote,
       others
  <2> QED
    BY SMTT(30), <1>2, Kept, <2>1, <2>2, <2>3, <2>4 DEF PubInv, unlockProject, Goto, local, remote, others
<1>3. CASE PrepareLock
  <2>1. CASE /\ cmd.step = "unlocked" /\ holder' = "command"
             /\ cmd' = [cmd EXCEPT !.step = "prepare", !.runtime = tree.gen]
             /\ UNCHANGED <<local, remote, receipt, others>>
    <3>1. CmdTypes'
      BY SMTT(30), <2>1, <1>0 DEF PubInv, CmdTypes, Fields, Steps, local, remote, others
    <3>2. Memory'
      BY SMTT(30), <2>1, <1>0 DEF PubInv, CmdTypes, Fields, StoreTypes, Memory, Holding, Baking, Admitted,
         Snapshotted, Uploading, local, remote, others
    <3>3. Pushed'
      BY SMTT(30), <2>1 DEF PubInv, CmdTypes, Fields, StoreTypes, Memory, Admitted, Pushed, Snapshotted,
         Uploading, local, remote, others
    <3>4. Outcome'
      BY SMTT(30), <2>1, Kept, OutcomeKept DEF PubInv, CmdTypes, Fields, local, remote, others
    <3> QED
      BY SMTT(30), <2>1, Kept, <3>1, <3>2, <3>3, <3>4 DEF PubInv, local, remote, others
  <2>2. CASE Fail /\ UNCHANGED <<local, remote, receipt>>
    BY SMTT(30), <2>2, Ended DEF Fail
  <2> QED
    BY SMTT(30), <1>3, <2>1, <2>2 DEF PrepareLock, others, local, remote
<1>4. CASE resolveLocalDelivery
  <2>1. CmdTypes'
    BY SMTT(30), <1>4, <1>0 DEF PubInv, CmdTypes, Fields, Steps, resolveLocalDelivery, local, remote, others
  <2>2. Memory'
    BY SMTT(30), <1>4, <1>0 DEF PubInv, CmdTypes, Fields, StoreTypes, Memory, Holding, Baking, Admitted,
       Snapshotted, Uploading, resolveLocalDelivery, local, remote, others
  <2>3. Pushed'
    BY SMTT(30), <1>4 DEF PubInv, CmdTypes, Fields, StoreTypes, Memory, Admitted, Pushed, Snapshotted,
       Uploading, resolveLocalDelivery, local, remote, others
  <2>4. Outcome'
    BY SMTT(30), <1>4, Kept, OutcomeKept DEF PubInv, CmdTypes, Fields, resolveLocalDelivery, local, remote,
       others
  <2> QED
    BY SMTT(30), <1>4, Kept, <2>1, <2>2, <2>3, <2>4 DEF PubInv, resolveLocalDelivery, local, remote, others
<1>5. CASE prepareMirrorOutput
  <2>a. PICK m : cmd' = [cmd EXCEPT !.mirror = m]
    BY SMTT(30), <1>5 DEF prepareMirrorOutput
  <2>b. cmd.step = "resolve" /\ UNCHANGED <<tree, holder, builds, seeds, remote, receipt, others>>
    BY SMTT(30), <1>5 DEF prepareMirrorOutput
  <2>1. CmdTypes'
    BY SMTT(30), <2>a, <2>b, <1>0 DEF PubInv, CmdTypes, Fields, Steps, local, remote, others
  <2>2. StoreTypes'
    BY SMTT(30), <2>a, <2>b, <1>t, StoresKept DEF local, remote
  <2>3. Memory'
    BY SMTT(30), <2>a, <2>b, <1>0 DEF PubInv, CmdTypes, Fields, StoreTypes, Memory, Holding, Baking,
       Admitted, Snapshotted, Uploading, local, remote, others
  <2>4. Pushed'
    BY SMTT(30), <2>a, <2>b DEF PubInv, CmdTypes, Fields, StoreTypes, Memory, Admitted, Pushed, Snapshotted,
       Uploading, local, remote, others
  <2>5. Records'
    BY SMTT(30), <2>a, <2>b, RecordsKept, BuildsKept DEF local, remote
  <2>6. Outcome'
    BY SMTT(30), <2>a, <2>b, ServedKept, OutcomeKept DEF PubInv, CmdTypes, Fields, local, remote, others
  <2> QED
    BY SMTT(30), <2>1, <2>2, <2>3, <2>4, <2>5, <2>6 DEF PubInv
<1>6. CASE CopyToStore
  <2>1. CmdTypes'
    BY SMTT(30), <1>6, <1>0 DEF PubInv, CmdTypes, Fields, Steps, CopyToStore, local, remote, others
  <2>2. StoreTypes'
    BY SMTT(30), <1>6, <1>t, StoresKept DEF CopyToStore, local, remote
  <2>3. Memory'
    BY SMTT(30), <1>6, <1>0 DEF PubInv, CmdTypes, Fields, StoreTypes, Memory, Holding, Baking, Admitted,
       Snapshotted, Uploading, CopyToStore, local, remote, others
  <2>4. Pushed'
    BY SMTT(30), <1>6 DEF PubInv, CmdTypes, Fields, StoreTypes, Memory, Admitted, Pushed, Snapshotted,
       Uploading, CopyToStore, local, remote, others
  <2>5. Records'
    BY SMTT(30), <1>6, RecordsKept, BuildsKept DEF CopyToStore, local, remote
  <2>6. Outcome'
    BY SMTT(30), <1>6, ServedKept, OutcomeKept DEF PubInv, CmdTypes, Fields, CopyToStore, local, remote, others
  <2> QED
    BY <2>1, <2>2, <2>3, <2>4, <2>5, <2>6 DEF PubInv
<1>7. CASE prepareBuildOutput
  <2>a. PICK b \in {"done", "workspace"} : cmd' = [cmd EXCEPT !.build = b]
    BY <1>7 DEF prepareBuildOutput
  <2>b. cmd.step = "resolve" /\ UNCHANGED <<tree, holder, mirrors, seeds, remote, receipt, others>>
    BY <1>7 DEF prepareBuildOutput
  <2>1. CmdTypes'
    BY SMTT(30), <2>a, <2>b, <1>0 DEF PubInv, CmdTypes, Fields, Steps, local, remote, others
  <2>2. StoreTypes'
    BY SMTT(30), <1>7, <2>a, <2>b, <1>t, StoresKept DEF prepareBuildOutput, local, remote
  <2>3. Memory'
    BY SMTT(30), <2>a, <2>b, <1>0 DEF PubInv, CmdTypes, Fields, StoreTypes, Memory, Holding, Baking,
       Admitted, Snapshotted, Uploading, local, remote, others
  <2>4. Pushed'
    BY SMTT(30), <2>a, <2>b DEF PubInv, CmdTypes, Fields, StoreTypes, Memory, Admitted, Pushed, Snapshotted,
       Uploading, local, remote, others
  <2>5. Records'
    <3>1. BuildCacheHonest'
      BY SMTT(30), <1>7, <2>a, <2>b DEF PubInv, StoreTypes, Records, BuildCacheHonest, prepareBuildOutput
    <3> QED
      BY SMTT(30), <1>7, <2>a, <2>b, <3>1, RecordsKept DEF prepareBuildOutput, remote
  <2>6. Outcome'
    BY SMTT(30), <2>a, <2>b, ServedKept, OutcomeKept DEF PubInv, CmdTypes, Fields, local, remote, others
  <2> QED
    BY SMTT(30), <2>1, <2>2, <2>3, <2>4, <2>5, <2>6 DEF PubInv
<1>8. CASE materializeBuildWorkspace
  <2>1. CASE /\ cmd.step = "resolve" /\ Graph(tree) = cmd.graph
             /\ cmd' = [cmd EXCEPT !.workspace = Graph(tree), !.build = "bake"]
             /\ UNCHANGED holder
             /\ UNCHANGED <<local, remote, receipt, others>>
    <3>1. CmdTypes'
      BY SMTT(30), <2>1, <1>0 DEF PubInv, CmdTypes, Fields, Steps, local, remote, others
    <3>2. Memory'
      BY SMTT(30), <2>1, <1>0 DEF PubInv, CmdTypes, Fields, StoreTypes, Memory, Holding, Baking, Admitted,
         Snapshotted, Uploading, local, remote, others
    <3>3. Pushed'
      BY SMTT(30), <2>1 DEF PubInv, CmdTypes, Fields, StoreTypes, Memory, Admitted, Pushed, Snapshotted,
         Uploading, local, remote, others
    <3>4. Outcome'
      BY SMTT(30), <2>1, Kept, OutcomeKept DEF PubInv, CmdTypes, Fields, local, remote, others
    <3> QED
      BY SMTT(30), <2>1, Kept, <3>1, <3>2, <3>3, <3>4 DEF PubInv, local, remote, others
  <2>2. CASE Fail /\ UNCHANGED <<local, remote, receipt>>
    BY <2>2, Ended DEF Fail
  <2> QED
    BY SMTT(30), <1>8, <2>1, <2>2 DEF materializeBuildWorkspace, others, local, remote
<1>9. CASE startBake
  <2>1. CmdTypes'
    BY SMTT(30), <1>9, <1>0 DEF PubInv, CmdTypes, Fields, Steps, startBake, local, remote, others
  <2>2. StoreTypes'
    BY SMTT(30), <1>9, <1>t, StoresKept DEF startBake, local, remote
  <2>3. Memory'
    BY SMTT(30), <1>9, <1>0 DEF PubInv, CmdTypes, Fields, StoreTypes, Memory, Holding, Baking, Admitted,
       Snapshotted, Uploading, startBake, local, remote, others
  <2>4. Pushed'
    BY SMTT(30), <1>9 DEF PubInv, CmdTypes, Fields, StoreTypes, Memory, Admitted, Pushed, Snapshotted,
       Uploading, startBake, local, remote, others
  <2>5. Records'
    <3>1. BuildCacheHonest'
      BY SMTT(30), <1>9 DEF PubInv, StoreTypes, Records, BuildCacheHonest, startBake
    <3> QED
      BY SMTT(30), <1>9, <3>1, RecordsKept DEF startBake, remote
  <2>6. Outcome'
    BY SMTT(30), <1>9, ServedKept, OutcomeKept DEF PubInv, CmdTypes, Fields, startBake, local, remote, others
  <2> QED
    BY <2>1, <2>2, <2>3, <2>4, <2>5, <2>6 DEF PubInv
<1>10. CASE runBake
  <2>1. CmdTypes'
    BY SMTT(30), <1>10, <1>0 DEF PubInv, CmdTypes, Fields, Steps, runBake, local, remote, others
  <2>2. StoreTypes'
    BY SMTT(30), <1>10, <1>t, StoresKept DEF runBake, local, remote
  <2>3. Memory'
    BY SMTT(30), <1>10, <1>0 DEF PubInv, CmdTypes, Fields, StoreTypes, Memory, Holding, Baking, Admitted,
       Snapshotted, Uploading, runBake, local, remote, others
  <2>4. Pushed'
    BY <1>10 DEF PubInv, CmdTypes, Fields, StoreTypes, Memory, Admitted, Pushed, Snapshotted,
       Uploading, runBake, local, remote, others
  <2>5. Records'
    <3>1. BuildCacheHonest'
      BY SMTT(30), <1>10 DEF PubInv, StoreTypes, Records, BuildCacheHonest, runBake, Memory, Baking
    <3> QED
      BY SMTT(30), <1>10, <3>1, RecordsKept DEF runBake, remote
  <2>6. Outcome'
    BY SMTT(30), <1>10, ServedKept, OutcomeKept DEF PubInv, CmdTypes, Fields, runBake, local, remote, others
  <2> QED
    BY <2>1, <2>2, <2>3, <2>4, <2>5, <2>6 DEF PubInv
<1>11. CASE recheckGraph
  <2>1. CASE /\ cmd.step = "resolve"
             /\ cmd' = [cmd EXCEPT !.build = "done"]
             /\ UNCHANGED holder
             /\ UNCHANGED <<local, remote, receipt, others>>
    <3>1. CmdTypes'
      BY SMTT(30), <2>1, <1>0 DEF PubInv, CmdTypes, Fields, Steps, local, remote, others
    <3>2. Memory'
      BY SMTT(30), <2>1, <1>0 DEF PubInv, CmdTypes, Fields, StoreTypes, Memory, Holding, Baking, Admitted,
         Snapshotted, Uploading, local, remote, others
    <3>3. Pushed'
      BY SMTT(30), <2>1 DEF PubInv, CmdTypes, Fields, StoreTypes, Memory, Admitted, Pushed, Snapshotted,
         Uploading, local, remote, others
    <3>4. Outcome'
      BY SMTT(30), <2>1, Kept, OutcomeKept DEF PubInv, CmdTypes, Fields, local, remote, others
    <3> QED
      BY SMTT(30), <2>1, Kept, <3>1, <3>2, <3>3, <3>4 DEF PubInv, local, remote, others
  <2>2. CASE Fail /\ UNCHANGED <<local, remote, receipt>>
    BY <2>2, Ended DEF Fail
  <2> QED
    BY SMTT(30), <1>11, <2>1, <2>2 DEF recheckGraph, others, local, remote
<1>12. CASE assembleImageLock
  <2>1. CASE /\ cmd.step = "resolve" /\ cmd.build = "done" /\ builds[cmd.graph] = Committed(cmd.runtime)
             /\ cmd' = [cmd EXCEPT !.step = "source", !.digest = builds[cmd.graph], !.workspace = None]
             /\ UNCHANGED holder
             /\ UNCHANGED <<local, remote, receipt, others>>
    <3>1. CmdTypes'
      BY SMTT(30), <2>1, <1>0 DEF PubInv, CmdTypes, Fields, Steps, local, remote, others
    <3>2. Memory'
      BY SMTT(30), <2>1, <1>0 DEF PubInv, CmdTypes, Fields, StoreTypes, Memory, Holding, Baking, Admitted,
         Snapshotted, Uploading, local, remote, others
    <3>3. Pushed'
      BY SMTT(30), <2>1 DEF PubInv, CmdTypes, Fields, StoreTypes, Memory, Admitted, Pushed, Snapshotted,
         Uploading, local, remote, others
    <3>4. Outcome'
      BY SMTT(30), <2>1, Kept, OutcomeKept DEF PubInv, CmdTypes, Fields, local, remote, others
    <3> QED
      BY SMTT(30), <2>1, Kept, <3>1, <3>2, <3>3, <3>4 DEF PubInv, local, remote, others
  <2>2. CASE Fail /\ UNCHANGED <<local, remote, receipt>>
    BY <2>2, Ended DEF Fail
  <2> QED
    BY SMTT(30), <1>12, <2>1, <2>2 DEF assembleImageLock, matchesCommittedDelivery, others, local, remote
<1>13. CASE snapshotLoad
  <2>1. CmdTypes'
    BY SMTT(30), <1>13, <1>0 DEF PubInv, CmdTypes, Fields, Steps, snapshotLoad, local, remote, others
  <2>2. Memory'
    BY SMTT(30), <1>13, <1>0 DEF PubInv, CmdTypes, Fields, StoreTypes, Memory, Holding, Baking, Admitted,
       Snapshotted, Uploading, snapshotLoad, local, remote, others
  <2>3. Pushed'
    BY SMTT(30), <1>13 DEF PubInv, CmdTypes, Fields, StoreTypes, Memory, Admitted, Pushed, Snapshotted,
       Uploading, snapshotLoad, local, remote, others
  <2>4. Outcome'
    BY SMTT(30), <1>13, Kept, OutcomeKept DEF PubInv, CmdTypes, Fields, snapshotLoad, local, remote, others
  <2> QED
    BY SMTT(30), <1>13, Kept, <2>1, <2>2, <2>3, <2>4 DEF PubInv, snapshotLoad, local, remote, others
<1>14. CASE snapshotIdentity
  <2>a. PICK x \in Trees : cmd' = [cmd EXCEPT !.step = "copy", !.source = x] /\ x.gen = cmd.source.gen
    <3>1. cmd.source \in Trees
      BY SMTT(30), <1>14 DEF PubInv, Memory, Admitted, Snapshotted, snapshotIdentity
    <3>2. /\ [cmd.source EXCEPT !.other = tree.other] \in Trees
          /\ [cmd.source EXCEPT !.other = tree.other].gen = cmd.source.gen
      BY Zenon, <3>1, <1>0, TreeRecords, TreeEdits DEF PubInv, StoreTypes
    <3> QED
      BY Zenon, <1>14, <3>2 DEF PubInv, CmdTypes, Fields, snapshotIdentity
  <2>b. cmd.step = "hash" /\ UNCHANGED <<holder, local, remote, receipt, others>>
    BY SMTT(30), <1>14 DEF snapshotIdentity
  <2>1. CmdTypes'
    BY SMTT(30), <2>a, <2>b, <1>0 DEF PubInv, CmdTypes, Fields, Steps, local, remote, others
  <2>2. Memory'
    BY SMTT(30), <2>a, <2>b, <1>0 DEF PubInv, CmdTypes, Fields, StoreTypes, Memory, Holding, Baking,
       Admitted, Snapshotted, Uploading, local, remote, others
  <2>3. Pushed'
    BY SMTT(30), <2>a, <2>b DEF PubInv, CmdTypes, Fields, StoreTypes, Memory, Admitted, Pushed, Snapshotted,
       Uploading, local, remote, others
  <2>4. Outcome'
    BY SMTT(30), <2>a, <2>b, Kept, OutcomeKept DEF PubInv, CmdTypes, Fields, local, remote, others
  <2> QED
    BY SMTT(30), <2>a, <2>b, Kept, <2>1, <2>2, <2>3, <2>4 DEF PubInv, local, remote, others
<1>15. CASE materializePublicationSource
  <2>a. PICK x : cmd' = [cmd EXCEPT !.step = "seed", !.staged = x]
    BY Zenon, <1>15 DEF materializePublicationSource
  <2>b. cmd.step = "copy" /\ UNCHANGED <<holder, local, remote, receipt, others>>
    BY SMTT(30), <1>15 DEF materializePublicationSource
  <2>1. CmdTypes'
    BY SMTT(30), <2>a, <2>b, <1>0 DEF PubInv, CmdTypes, Fields, Steps, local, remote, others
  <2>2. Memory'
    BY SMTT(30), <2>a, <2>b, <1>0 DEF PubInv, CmdTypes, Fields, StoreTypes, Memory, Holding, Baking,
       Admitted, Snapshotted, Uploading, local, remote, others
  <2>3. Pushed'
    BY SMTT(30), <2>a, <2>b DEF PubInv, CmdTypes, Fields, StoreTypes, Memory, Admitted, Pushed, Snapshotted,
       Uploading, local, remote, others
  <2>4. Outcome'
    BY SMTT(30), <2>a, <2>b, Kept, OutcomeKept DEF PubInv, CmdTypes, Fields, local, remote, others
  <2> QED
    BY SMTT(30), <2>a, <2>b, Kept, <2>1, <2>2, <2>3, <2>4 DEF PubInv, local, remote, others
<1>16. CASE prepareSeed
  <2>1. CmdTypes'
    BY SMTT(30), <1>16, <1>0 DEF PubInv, CmdTypes, Fields, Steps, prepareSeed, Goto, local, remote, others
  <2>2. StoreTypes'
    BY SMTT(30), <1>16, <1>t, StoresKept DEF prepareSeed, local, remote
  <2>3. Memory'
    BY SMTT(30), <1>16, <1>0 DEF PubInv, CmdTypes, Fields, StoreTypes, Memory, Holding, Baking, Admitted,
       Snapshotted, Uploading, prepareSeed, Goto, local, remote, others
  <2>4. Pushed'
    BY <1>16 DEF PubInv, CmdTypes, Fields, StoreTypes, Memory, Admitted, Pushed, Snapshotted,
       Uploading, prepareSeed, Goto, local, remote, others
  <2>5. Records'
    BY SMTT(30), <1>16, RecordsKept, BuildsKept DEF prepareSeed, local, remote
  <2>6. Outcome'
    BY SMTT(30), <1>16, ServedKept, OutcomeKept DEF PubInv, CmdTypes, Fields, prepareSeed, Goto, local, remote,
       others
  <2> QED
    BY <2>1, <2>2, <2>3, <2>4, <2>5, <2>6 DEF PubInv
<1>17. CASE MaterializeFileManifest
  <2>1. CmdTypes'
    BY SMTT(30), <1>17, <1>0 DEF PubInv, CmdTypes, Fields, Steps, MaterializeFileManifest, Goto, local,
       remote, others
  <2>2. Memory'
    BY SMTT(30), <1>17, <1>0 DEF PubInv, CmdTypes, Fields, StoreTypes, Memory, Holding, Baking, Admitted,
       Snapshotted, Uploading, MaterializeFileManifest, Goto, local, remote, others
  <2>3. Pushed'
    BY SMTT(30), <1>17 DEF PubInv, CmdTypes, Fields, StoreTypes, Memory, Admitted, Pushed, Snapshotted,
       Uploading, MaterializeFileManifest, Goto, local, remote, others
  <2>4. Outcome'
    BY SMTT(30), <1>17, Kept, OutcomeKept DEF PubInv, CmdTypes, Fields, MaterializeFileManifest, Goto, local,
       remote, others
  <2> QED
    BY SMTT(30), <1>17, Kept, <2>1, <2>2, <2>3, <2>4 DEF PubInv, MaterializeFileManifest, Goto, local,
       remote, others
<1>18. CASE reloadProject
  <2>1. CASE /\ cmd.step = "prepared"
             /\ cmd' = [cmd EXCEPT !.step = "images", !.gen = cmd.runtime]
             /\ UNCHANGED <<local, remote, receipt, others>>
    <3>1. CmdTypes'
      BY SMTT(30), <2>1, <1>0 DEF PubInv, CmdTypes, Fields, Steps, local, remote, others
    <3>2. Memory'
      BY SMTT(30), <2>1, <1>0 DEF PubInv, CmdTypes, Fields, StoreTypes, Memory, Holding, Baking, Admitted,
         Snapshotted, Uploading, local, remote, others
    <3>3. Pushed'
      BY SMTT(30), <2>1 DEF PubInv, CmdTypes, Fields, StoreTypes, Memory, Admitted, Pushed, Snapshotted,
         Uploading, local, remote, others
    <3>4. Outcome'
      BY SMTT(30), <2>1, Kept, OutcomeKept DEF PubInv, CmdTypes, Fields, local, remote, others
    <3> QED
      BY SMTT(30), <2>1, Kept, <3>1, <3>2, <3>3, <3>4 DEF PubInv, local, remote, others
  <2>2. CASE Fail /\ UNCHANGED <<local, remote, receipt>>
    BY <2>2, Ended DEF Fail
  <2> QED
    BY SMTT(30), <1>18, <2>1, <2>2 DEF reloadProject, others, local, remote
<1>19. ASSUME NEW k \in {"mirror", "build"}, publishPreparedImages(k)
       PROVE  PubInv'
  <2>1. CASE /\ cmd.step = "images" /\ UNCHANGED <<holder, local, tags, main, bastion, receipt, others>>
             /\ harbor' = [harbor EXCEPT ![<<k, cmd.runtime>>] = Committed(cmd.runtime)]
             /\ cmd' = [cmd EXCEPT !.published = @ \cup {k}, !.step = AfterPublish(k)]
    <3>a. AfterPublish(k) \in {"images", "charts"}
      BY SMTT(30), <2>1, <1>19 DEF PubInv, Pushed, Uploading, AfterPublish, Kinds, publishPreparedImages
    <3>b. cmd'.published = cmd.published \cup {k} /\ cmd'.step = AfterPublish(k)
      BY SMTT(30), <2>1 DEF PubInv, CmdTypes, Fields
    <3>1. CmdTypes'
      BY SMTT(30), <2>1, <3>a, <3>b, <1>0 DEF PubInv, CmdTypes, Fields, Steps, local, remote, others
    <3>2. StoreTypes'
      BY SMTT(30), <2>1, <3>a, <3>b DEF PubInv, StoreTypes, local, remote, others
    <3>3. Memory'
      BY SMTT(30), <2>1, <3>a, <3>b, <1>0 DEF PubInv, CmdTypes, Fields, StoreTypes, Memory, Holding, Baking,
         Admitted, Snapshotted, Uploading, local, remote, others
    <3>4. Pushed'
      BY SMTT(30), <2>1, <3>a, <3>b DEF PubInv, CmdTypes, Fields, StoreTypes, Memory, Admitted, Pushed,
         Snapshotted, Uploading, local, remote, others, Kinds, AfterPublish
    <3>5. Records'
      BY SMTT(30), <2>1, <3>a, <3>b DEF PubInv, CmdTypes, Fields, StoreTypes, Records, BuildCacheHonest,
         HarborExact, TagNamesContent, ReceiptUnmixed, ReceiptBacked, local, remote, others, Kinds,
         Memory, Admitted, Snapshotted, Uploading
    <3>6. Outcome'
      BY SMTT(30), <2>1, <3>a, <3>b, ServedKept, OutcomeKept DEF PubInv, CmdTypes, Fields, local, remote,
         others
    <3> QED
      BY SMTT(30), <3>1, <3>2, <3>3, <3>4, <3>5, <3>6 DEF PubInv
  <2>2. CASE Fail /\ UNCHANGED <<local, remote, receipt>>
    BY SMTT(30), <2>2, Ended DEF Fail
  <2>3. Digest(k) = Committed(cmd.runtime)
    BY SMTT(30), <1>19 DEF PubInv, Memory, Admitted, Snapshotted, Digest, publishPreparedImages
  <2> QED
    BY SMTT(30), <1>19, <2>1, <2>2, <2>3 DEF publishPreparedImages, Publish, local, remote, others
<1>20. CASE publishCharts
  <2>1. CASE /\ cmd.step = "charts" /\ UNCHANGED <<holder, local, tags, main, bastion, receipt, others>>
             /\ harbor' = [harbor EXCEPT ![<<"chart", cmd.runtime>>] = Committed(cmd.runtime)]
             /\ cmd' = [cmd EXCEPT !.published = @ \cup {"chart"}, !.step = AfterPublish("chart")]
    <3>a. AfterPublish("chart") \in {"tag"}
      BY SMTT(30), <2>1, <1>20 DEF PubInv, Pushed, Uploading, AfterPublish, Kinds, publishCharts
    <3>b. cmd'.published = cmd.published \cup {"chart"} /\ cmd'.step = AfterPublish("chart")
      BY SMTT(30), <2>1 DEF PubInv, CmdTypes, Fields
    <3>1. CmdTypes'
      BY SMTT(30), <2>1, <3>a, <3>b, <1>0 DEF PubInv, CmdTypes, Fields, Steps, local, remote, others
    <3>2. StoreTypes'
      BY SMTT(30), <2>1, <3>a, <3>b DEF PubInv, StoreTypes, local, remote, others
    <3>3. Memory'
      BY SMTT(30), <2>1, <3>a, <3>b, <1>0 DEF PubInv, CmdTypes, Fields, StoreTypes, Memory, Holding, Baking,
         Admitted, Snapshotted, Uploading, local, remote, others
    <3>4. Pushed'
      BY SMTT(30), <2>1, <3>a, <3>b DEF PubInv, CmdTypes, Fields, StoreTypes, Memory, Admitted, Pushed,
         Snapshotted, Uploading, local, remote, others, Kinds, AfterPublish
    <3>5. Records'
      BY SMTT(30), <2>1, <3>a, <3>b DEF PubInv, CmdTypes, Fields, StoreTypes, Records, BuildCacheHonest,
         HarborExact, TagNamesContent, ReceiptUnmixed, ReceiptBacked, local, remote, others, Kinds,
         Memory, Admitted, Snapshotted, Uploading
    <3>6. Outcome'
      BY SMTT(30), <2>1, <3>a, <3>b, ServedKept, OutcomeKept DEF PubInv, CmdTypes, Fields, local, remote,
         others
    <3> QED
      BY <3>1, <3>2, <3>3, <3>4, <3>5, <3>6 DEF PubInv
  <2>2. CASE Fail /\ UNCHANGED <<local, remote, receipt>>
    BY <2>2, Ended DEF Fail
  <2>3. Digest("chart") = Committed(cmd.runtime)
    BY <1>20 DEF PubInv, Memory, Admitted, Snapshotted, Digest, publishCharts
  <2> QED
    BY SMTT(30), <1>20, <2>1, <2>2, <2>3 DEF publishCharts, Publish, local, remote, others
<1>21. CASE pushImmutable
  <2>1. CASE /\ cmd.step = "tag" /\ tags[cmd.source] \in {None, cmd.source}
             /\ tags' = [tags EXCEPT ![cmd.source] = cmd.source]
             /\ cmd' = [cmd EXCEPT !.step = "branch"]
             /\ UNCHANGED <<holder, local, harbor, main, bastion, receipt, others>>
    <3>1. CmdTypes'
      BY <2>1, <1>0 DEF PubInv, CmdTypes, Fields, Steps, local, remote, others
    <3>2. StoreTypes'
      BY <2>1 DEF PubInv, StoreTypes, local, remote, others
    <3>3. Memory'
      BY SMTT(30), <2>1, <1>0 DEF PubInv, CmdTypes, Fields, StoreTypes, Memory, Holding, Baking, Admitted,
         Snapshotted, Uploading, local, remote, others
    <3>4. Pushed'
      BY SMTT(30), <2>1 DEF PubInv, CmdTypes, Fields, StoreTypes, Memory, Admitted, Pushed, Snapshotted,
         Uploading, local, remote, others
    <3>5. Records'
      BY <2>1 DEF PubInv, CmdTypes, Fields, StoreTypes, Records, BuildCacheHonest, HarborExact,
         TagNamesContent, ReceiptUnmixed, ReceiptBacked, local, remote, others
    <3>6. Outcome'
      BY SMTT(30), <2>1, ServedKept, OutcomeKept DEF PubInv, CmdTypes, Fields, local, remote, others
    <3> QED
      BY <3>1, <3>2, <3>3, <3>4, <3>5, <3>6 DEF PubInv
  <2>2. CASE Fail /\ UNCHANGED <<local, remote, receipt>>
    BY <2>2, Ended DEF Fail
  <2> QED
    BY SMTT(30), <1>21, <2>1, <2>2 DEF pushImmutable, Goto, others, local, remote
<1>22. CASE readBranch
  <2>1. CmdTypes'
    BY SMTT(30), <1>22, <1>0 DEF PubInv, CmdTypes, Fields, Steps, readBranch, local, remote, others
  <2>2. Memory'
    BY SMTT(30), <1>22, <1>0 DEF PubInv, CmdTypes, Fields, StoreTypes, Memory, Holding, Baking, Admitted,
       Snapshotted, Uploading, readBranch, local, remote, others
  <2>3. Pushed'
    BY <1>22 DEF PubInv, CmdTypes, Fields, StoreTypes, Memory, Admitted, Pushed, Snapshotted,
       Uploading, readBranch, local, remote, others
  <2>4. Outcome'
    BY SMTT(30), <1>22, Kept, OutcomeKept DEF PubInv, CmdTypes, Fields, readBranch, local, remote, others
  <2> QED
    BY SMTT(30), <1>22, Kept, <2>1, <2>2, <2>3, <2>4 DEF PubInv, readBranch, local, remote, others
<1>23. CASE advanceBranch
  <2>1. CASE /\ cmd.step = "push" /\ main' = cmd.source
             /\ cmd' = [cmd EXCEPT !.step = "report"]
             /\ UNCHANGED <<holder, local, harbor, tags, bastion, receipt, others>>
    <3>1. CmdTypes'
      BY <2>1, <1>0 DEF PubInv, CmdTypes, Fields, Steps, local, remote, others
    <3>2. StoreTypes'
      BY SMTT(30), <2>1, <1>t, StoresKept DEF local, remote
    <3>3. Memory'
      BY SMTT(30), <2>1, <1>0 DEF PubInv, CmdTypes, Fields, StoreTypes, Memory, Holding, Baking, Admitted,
         Snapshotted, Uploading, local, remote, others
    <3>4. Pushed'
      BY <2>1 DEF PubInv, CmdTypes, Fields, StoreTypes, Memory, Admitted, Pushed, Snapshotted,
         Uploading, local, remote, others
    <3>5. Records'
      BY SMTT(30), <2>1, RecordsKept, BuildsKept DEF local, remote
    <3>6. Outcome'
      BY SMTT(30), <2>1, ServedKept, OutcomeKept DEF PubInv, CmdTypes, Fields, local, remote, others
    <3> QED
      BY <3>1, <3>2, <3>3, <3>4, <3>5, <3>6 DEF PubInv
  <2>2. CASE Fail /\ UNCHANGED <<local, remote, receipt>>
    BY <2>2, Ended DEF Fail
  <2> QED
    BY SMTT(30), <1>23, <2>1, <2>2 DEF advanceBranch, Goto, others, local, remote
<1>24. CASE reportFiles
  <2>1. CmdTypes'
    BY <1>24, <1>0 DEF PubInv, CmdTypes, Fields, Steps, reportFiles, local, remote, others
  <2>2. StoreTypes'
    BY <1>24 DEF PubInv, StoreTypes, reportFiles, local, remote, others
  <2>3. Memory'
    BY SMTT(30), <1>24, <1>0 DEF PubInv, CmdTypes, Fields, StoreTypes, Memory, Holding, Baking, Admitted,
       Snapshotted, Uploading, reportFiles, local, remote, others
  <2>4. Pushed'
    BY <1>24 DEF PubInv, CmdTypes, Fields, StoreTypes, Memory, Admitted, Pushed, Snapshotted,
       Uploading, reportFiles, local, remote, others
  <2>5. Records'
    BY SMTT(30), <1>24, RecordsKept, BuildsKept DEF reportFiles, local, remote
  <2>6. Outcome'
    BY <1>24 DEF PubInv, CmdTypes, Fields, StoreTypes, Outcome, ActiveComplete, Observing,
       SuccessIsCurrent, reportFiles, local, remote, others
  <2> QED
    BY <2>1, <2>2, <2>3, <2>4, <2>5, <2>6 DEF PubInv
<1>25. ASSUME NEW b \in {0} \cup Gens, putFile(b)
       PROVE  PubInv'
  <2>1. CASE /\ cmd.step = "put" /\ bastion' = [bastion EXCEPT !.blobs = @ \cup {b}]
             /\ cmd' = [cmd EXCEPT !.missing = @ \ {b}]
             /\ UNCHANGED <<holder, local, harbor, tags, main, receipt, others>>
    <3>1. CmdTypes'
      BY <2>1, <1>0 DEF PubInv, CmdTypes, Fields, Steps, local, remote, others
    <3>2. StoreTypes'
      BY <2>1 DEF PubInv, StoreTypes, local, remote, others
    <3>3. Memory'
      BY SMTT(30), <2>1, <1>0 DEF PubInv, CmdTypes, Fields, StoreTypes, Memory, Holding, Baking, Admitted,
         Snapshotted, Uploading, local, remote, others
    <3>4. Pushed'
      BY <2>1 DEF PubInv, CmdTypes, Fields, StoreTypes, Memory, Admitted, Pushed, Snapshotted,
         Uploading, local, remote, others
    <3>5. Records'
      BY SMTT(30), <2>1, RecordsKept, BuildsKept DEF local, remote
    <3>6. Outcome'
      BY <2>1 DEF PubInv, CmdTypes, Fields, StoreTypes, Outcome, ActiveComplete, Observing,
         SuccessIsCurrent, local, remote, others
    <3> QED
      BY SMTT(30), <3>1, <3>2, <3>3, <3>4, <3>5, <3>6 DEF PubInv
  <2>2. CASE Fail /\ UNCHANGED <<local, remote, receipt>>
    BY SMTT(30), <2>2, Ended DEF Fail
  <2> QED
    BY SMTT(30), <1>25, <2>1, <2>2 DEF putFile, local, remote, others
<1>26. CASE activateFiles
  <2>1. CASE /\ cmd.step = "put"
             /\ bastion' = Activated(cmd.runtime)
             /\ cmd' = [cmd EXCEPT !.step = "receipt"]
             /\ UNCHANGED <<holder, local, harbor, tags, main, receipt, others>>
    <3>1. CmdTypes'
      BY SMTT(30), <2>1, <1>0 DEF PubInv, CmdTypes, Fields, Steps, Activated, local, remote, others
    <3>2. StoreTypes'
      BY SMTT(30), <2>1 DEF PubInv, StoreTypes, Activated, local, remote, others
    <3>3. Memory'
      BY SMTT(30), <2>1, <1>0 DEF PubInv, CmdTypes, Fields, StoreTypes, Memory, Holding, Baking, Admitted,
         Snapshotted, Uploading, Activated, local, remote, others
    <3>4. Pushed'
      BY <2>1 DEF PubInv, CmdTypes, Fields, StoreTypes, Memory, Admitted, Pushed, Snapshotted,
         Uploading, Activated, local, remote, others
    <3>5. Records'
      BY SMTT(30), <2>1, RecordsKept, BuildsKept DEF local, remote
    <3>6. Outcome'
      BY SMTT(30), <2>1 DEF PubInv, CmdTypes, Fields, StoreTypes, Outcome, ActiveComplete, Observing,
         SuccessIsCurrent, Activated, local, remote, others
    <3> QED
      BY <3>1, <3>2, <3>3, <3>4, <3>5, <3>6 DEF PubInv
  <2>2. CASE Fail /\ UNCHANGED <<local, remote, receipt>>
    BY <2>2, Ended DEF Fail
  <2> QED
    BY SMTT(30), <1>26, <2>1, <2>2 DEF activateFiles, Goto, others, local, remote
<1>27. CASE SaveReceipt
  <2>1. /\ receipt'.desired = cmd.gen /\ receipt'.source = cmd.source
        /\ receipt'.graph = cmd.digest /\ receipt'.seed = cmd.runtime /\ receipt'.files = cmd.runtime
        /\ cmd.step = "receipt" /\ UNCHANGED <<local, remote, others>>
    BY SMTT(30), <1>27 DEF SaveReceipt
  <2>2. StoreTypes'
    BY SMTT(30), <2>1 DEF PubInv, StoreTypes, CmdTypes, Memory, Admitted, Snapshotted, local, remote
  <2>3. /\ cmd.digest = Committed(cmd.runtime) /\ cmd.source \in Trees /\ cmd.runtime \in Gens
        /\ cmd.gen = cmd.runtime /\ cmd.source.gen = cmd.runtime
        /\ \A k \in Kinds : harbor[<<k, cmd.runtime>>] = Committed(cmd.runtime)
        /\ tags[cmd.source] = cmd.source
    BY ZenonT(30), <2>1 DEF PubInv, CmdTypes, Memory, Admitted, Snapshotted, Uploading, Pushed
  <2>7. ReceiptUnmixed' /\ ReceiptBacked'
    BY SMTT(30), <2>1, <2>3, LockedRecords DEF ReceiptUnmixed, ReceiptBacked, remote
  <2>6. Records'
    BY Zenon, <2>1, <2>7 DEF PubInv, Records, BuildCacheHonest, HarborExact, TagNamesContent, local,
       remote
  <2>4. CASE Finish("done") /\ cmd.kind = "publish"
    <3>1. 1 \in Gens /\ Committed(1) \in Graphs
      BY LockedRecords
    <3>2. /\ DOMAIN cmd' = Fields /\ cmd'.step = "done" /\ cmd'.gen = 1 /\ cmd'.runtime = 1
          /\ cmd'.graph = Committed(1) /\ cmd'.build = "todo" /\ cmd'.published = {}
          /\ cmd'.kind = "publish"
      BY SMTT(30), <2>4 DEF Finish, NoCommand, Fields
    <3>3. CmdTypes'
      BY <3>1, <3>2 DEF CmdTypes, Steps
    <3>4. Memory' /\ Pushed'
      <4>1. "done" \notin Snapshotted \cup {"source"} /\ "done" \notin Uploading
        BY SMTT(30) DEF Snapshotted, Uploading
      <4>2. Holding' /\ Baking'
        BY SMTT(30), <3>2 DEF Holding, Baking
      <4>3. Admitted'
        BY SMTT(30), <3>2, <4>1 DEF Admitted
      <4>4. Pushed'
        BY SMTT(30), <3>2, <4>1 DEF Pushed
      <4> QED
        BY Zenon, <4>2, <4>3, <4>4 DEF Memory
    <3>5. Outcome'
      BY SMTT(30), <2>1, <3>2 DEF PubInv, Outcome, ActiveComplete, Observing, SuccessIsCurrent, remote
    <3> QED
      BY SMTT(30), <2>2, <2>6, <3>3, <3>4, <3>5 DEF PubInv
  <2>5. CASE Goto("handoff") /\ UNCHANGED holder
    <3>1. CmdTypes' /\ cmd'.step = "handoff"
      BY <2>5 DEF PubInv, CmdTypes, Fields, Steps, Goto
    <3>2. Memory'
      BY SMTT(30), <2>1, <2>5 DEF PubInv, CmdTypes, Fields, Goto, Memory, Holding, Baking, Admitted,
         Snapshotted, Uploading
    <3>3. Pushed' /\ Outcome'
      BY Zenon, <2>1, <3>1 DEF PubInv, Pushed, Uploading, Outcome, ActiveComplete, Observing,
         SuccessIsCurrent, remote
    <3> QED
      BY SMTT(30), <2>2, <2>6, <3>1, <3>2, <3>3 DEF PubInv
  <2> QED
    BY SMTT(30), <1>27, <2>4, <2>5 DEF SaveReceipt
<1>28. CASE bootstrapFlux
  <2>1. CASE /\ cmd.step = "handoff" /\ Goto("verify")
             /\ UNCHANGED <<holder, local, remote, receipt, others>>
    <3>1. CmdTypes'
      BY SMTT(30), <2>1, <1>0 DEF PubInv, CmdTypes, Fields, Steps, Goto, local, remote, others
    <3>2. Memory'
      BY SMTT(30), <2>1, <1>0 DEF PubInv, CmdTypes, Fields, StoreTypes, Memory, Holding, Baking, Admitted,
         Snapshotted, Uploading, Goto, local, remote, others
    <3>3. Pushed'
      BY SMTT(30), <2>1 DEF PubInv, CmdTypes, Fields, StoreTypes, Memory, Admitted, Pushed, Snapshotted,
         Uploading, Goto, local, remote, others
    <3>4. Outcome'
      BY SMTT(30), <2>1, Kept, OutcomeKept DEF PubInv, CmdTypes, Fields, Goto, local, remote, others
    <3> QED
      BY SMTT(30), <2>1, Kept, <3>1, <3>2, <3>3, <3>4 DEF PubInv, Goto, local, remote, others
  <2>2. CASE Fail /\ UNCHANGED <<local, remote, receipt>>
    BY <2>2, Ended DEF Fail
  <2> QED
    BY SMTT(30), <1>28, <2>1, <2>2 DEF bootstrapFlux, others, local, remote
<1>29. CASE LoadReceipt
  <2>1. CASE /\ cmd.step = "verify" /\ Goto("observe") /\ ValidReceipt(receipt, cmd.gen)
             /\ UNCHANGED <<holder, local, remote, receipt>>
    <3>1. CmdTypes'
      BY SMTT(30), <2>1, <1>0 DEF PubInv, CmdTypes, Fields, Steps, Goto, ValidReceipt, local, remote, others
    <3>2. Memory'
      BY SMTT(30), <2>1, <1>0 DEF PubInv, CmdTypes, Fields, StoreTypes, Memory, Holding, Baking, Admitted,
         Snapshotted, Uploading, Goto, ValidReceipt, local, remote, others
    <3>3. Pushed'
      BY SMTT(30), <2>1 DEF PubInv, CmdTypes, Fields, StoreTypes, Memory, Admitted, Pushed, Snapshotted,
         Uploading, Goto, ValidReceipt, local, remote, others
    <3>4. Outcome'
      BY SMTT(30), <2>1, Kept DEF PubInv, CmdTypes, Fields, StoreTypes, Outcome, Observing, SuccessIsCurrent,
         Goto, ValidReceipt, local, remote, others
    <3> QED
      BY SMTT(30), <2>1, Kept, <3>1, <3>2, <3>3, <3>4 DEF PubInv, Goto, ValidReceipt, local, remote, others
  <2>2. CASE Fail /\ UNCHANGED <<local, remote, receipt>>
    BY <2>2, Ended DEF Fail
  <2> QED
    BY SMTT(30), <1>29, <2>1, <2>2 DEF LoadReceipt, local, remote
<1>30. CASE observeSeedPublication
  <2>1. CASE Finish("failed")
    BY SMTT(30), <1>30, <2>1, Ended DEF observeSeedPublication
  <2>2. CASE /\ Finish("done") /\ main = receipt.source /\ bastion.active = receipt.files
             /\ harbor[<<"build", receipt.desired>>] = receipt.graph
    <3>1. UNCHANGED <<local, remote, receipt, disturbed>> /\ cmd.step = "observe"
      BY SMTT(30), <1>30 DEF observeSeedPublication, others
    <3>2. SuccessIsCurrent'
      BY SMTT(30), <2>2, <3>1 DEF PubInv, Records, ReceiptUnmixed, Outcome, Observing, SuccessIsCurrent,
         local, remote
    <3> QED
      BY SMTT(30), <2>2, <3>1, <3>2, Ended
  <2> QED
    BY SMTT(30), <1>30, <2>1, <2>2 DEF observeSeedPublication
<1>31. CASE Stop
  BY SMTT(30), <1>31, Ended DEF Stop, Fail
<1>32. ASSUME NEW f \in {"material", "other"}, Edit(f)
       PROVE  PubInv'
  <2>1. /\ tree' \in Trees /\ tree'.gen = tree.gen /\ disturbed'
        /\ UNCHANGED <<holder, cmd, builds, harbor, tags, bastion, receipt>>
    BY SMTT(30), <1>32 DEF PubInv, StoreTypes, Trees, Edit, remote
  <2> QED
    BY SMTT(30), <2>1, MemoryKept, StoresKept, RecordsKept, BuildsKept, ServedKept, OutcomeKept DEF PubInv
<1>33. CASE Wipe
  <2>1. /\ builds' = [g \in Graphs |-> None] /\ disturbed'
        /\ UNCHANGED <<tree, holder, cmd, harbor, tags, bastion, receipt>>
    BY SMTT(30), <1>33 DEF Wipe, remote
  <2>2. BuildCacheHonest' /\ DOMAIN builds' = DOMAIN builds
    BY SMTT(30), <2>1 DEF BuildCacheHonest, PubInv, StoreTypes
  <2> QED
    BY SMTT(30), <1>t, <2>1, <2>2, MemoryKept, StoresKept, RecordsKept, ServedKept, OutcomeKept DEF PubInv
<1>34. CASE PullUpdates
  <2>1. /\ holder = "nobody" /\ disturbed'
        /\ UNCHANGED <<holder, cmd, builds, harbor, tags, bastion, receipt>>
    BY <1>34 DEF PullUpdates, remote
  <2>2. tree.gen + 1 \in Gens /\ tree' = [tree EXCEPT !.gen = tree.gen + 1, !.material = "locked"]
    BY <1>34, <1>0, PublicationBounds DEF Gens, PullUpdates
  <2>3. tree' \in Trees
    BY Zenon, <1>t, <2>2, TreeEdits
  <2> QED
    BY Zenon, <2>1, <2>3, MemoryKept, StoresKept, RecordsKept, BuildsKept, ServedKept, OutcomeKept DEF
       PubInv
<1>35. CASE ForeignPublish
  <2>1. UNCHANGED <<tree, builds, holder, cmd, harbor, tags, receipt>> /\ disturbed'
    BY SMTT(30), <1>35 DEF ForeignPublish, local
  <2>2. CASE UNCHANGED bastion
    BY SMTT(30), <1>t, <2>1, <2>2, MemoryKept, StoresKept, RecordsKept, BuildsKept, ServedKept, OutcomeKept DEF
       PubInv
  <2>3. CASE \E g \in Gens : bastion' = Activated(g)
    <3>1. ActiveComplete' /\ DOMAIN bastion' = {"manifests", "blobs", "active"}
      BY SMTT(30), <2>3 DEF ActiveComplete, Activated
    <3>2. DOMAIN bastion = {"manifests", "blobs", "active"}
      BY SMTT(30) DEF PubInv, StoreTypes
    <3> QED
      BY SMTT(30), <1>t, <2>1, <3>1, <3>2, MemoryKept, StoresKept, RecordsKept, BuildsKept, OutcomeKept DEF
         PubInv
  <2> QED
    BY SMTT(30), <1>35, <2>2, <2>3 DEF ForeignPublish
<1>36. CASE UNCHANGED pubVars
  <2>1. /\ UNCHANGED <<tree, holder, cmd, builds, harbor, tags, main, bastion, receipt, disturbed>>
        /\ UNCHANGED <<local, remote>>
    BY <1>36 DEF pubVars, local, remote
  <2>2. Outcome'
    BY <2>1, ServedKept, Zenon DEF PubInv, Outcome, Observing, SuccessIsCurrent
  <2> QED
    BY SMTT(30), <2>1, <2>2, MemoryKept, Kept DEF PubInv
<1> QED
  BY SMTT(30), <1>1, <1>2, <1>3, <1>4, <1>5, <1>6, <1>7, <1>8, <1>9, <1>10, <1>11, <1>12, <1>13, <1>14,
     <1>15, <1>16, <1>17, <1>18, <1>19, <1>20, <1>21, <1>22, <1>23, <1>24, <1>25, <1>26, <1>27,
     <1>28, <1>29, <1>30, <1>31, <1>32, <1>33, <1>34, <1>35, <1>36 DEF PubNext, Command, Prepare,
     Seed, Status, Outside

LEMMA PubInvariance == PubSpec => []PubInv
BY PubInitially, PubPreserved, PTL DEF PubSpec

(***************************************************************************)
(* A name tells the content.  A build cache entry was made from the inputs *)
(* its path names, although the tree is edited while runBake runs: the     *)
(* snapshot that is baked was compared with the graph of the path.         *)
(* publishPreparedImages never puts a build of edited inputs under the tag *)
(* of a generation: assembleImageLock refused it.  pushImmutable's tag     *)
(* resolves to the tree it names, although the tree is hashed before it is *)
(* copied.  The projection activateFiles switches to has all its files.    *)
(***************************************************************************)
THEOREM NamesAreTrue == PubSpec => []NamesTellContent
BY PubInvariance, PTL DEF PubInv, Records, Outcome, NamesTellContent

(***************************************************************************)
(* SaveReceipt never mixes two generations, although ensurePublication     *)
(* gives the lock up twice, and what it records is in Harbor and Forgejo.  *)
(***************************************************************************)
THEOREM ReceiptsAreTrue == PubSpec => []ReceiptIsTrue
BY PubInvariance, PTL DEF PubInv, Records, ReceiptIsTrue

(***************************************************************************)
(* An apply or a status that reports an exact platform, undisturbed since  *)
(* LoadReceipt, saw the current tree published and served.                 *)
(***************************************************************************)
THEOREM ExactMeansCurrent == PubSpec => []SuccessIsCurrent
BY PubInvariance, PTL DEF PubInv, Outcome

----------------------------------------------------------------------------
(***************************************************************************)
(* The worker budget.  The slots are those of the bake and of the working  *)
(* copies together (Accounted), and an error that is not yet returned has  *)
(* cancelled the group (Remembered).                                       *)
(***************************************************************************)

Workers == Mirrors \cup Outputs
Working == {w \in Workers : worker[w] = "working"}
Building == {"acquiring", "baking"}

BudgetTypes ==
    /\ worker \in [Workers -> Work]
    /\ build \in {"unspawned", "checking", "verifying"} \cup Building \cup Over
    /\ held \in Nat /\ slots \in Nat /\ canceled \in BOOLEAN /\ stopped \in BOOLEAN
    /\ returned \in {"no", "ok", "failed"}

(* The bake has all the slots, or still fewer, or none. *)
BakeHolds ==
    /\ build = "baking" => held = Parallelism
    /\ build = "acquiring" => held < Parallelism
    /\ build \notin Building => held = 0

Accounted == slots = held + Cardinality(Working) /\ slots <= Parallelism

(* An error of a mirror or of the build has cancelled the group. *)
Remembered ==
    /\ build = "failed" => canceled
    /\ \A w \in Mirrors : worker[w] = "failed" => canceled

BudgetInv == BudgetTypes /\ BakeHolds /\ Accounted /\ Remembered /\ NoErrorLost

LEMMA WorkingFinite == IsFiniteSet(Working) /\ Cardinality(Working) \in Nat
<1>1. IsFiniteSet(Workers)
  BY Zenon, BudgetBounds, FS_Union DEF Workers
<1> QED
  BY SMTT(30), <1>1, FS_Subset, FS_CardinalityType DEF Working

(* How many work changes by one when a worker begins or ends. *)
LEMMA WorkerBegins ==
  ASSUME BudgetTypes, NEW w \in Workers, worker[w] # "working",
         worker' = [worker EXCEPT ![w] = "working"]
  PROVE  Cardinality(Working') = Cardinality(Working) + 1
<1>1. Working' = Working \cup {w} /\ w \notin Working
  BY DEF Working, BudgetTypes
<1> QED
  BY ZenonT(30), <1>1, WorkingFinite, FS_AddElement

LEMMA WorkerEnds ==
  ASSUME BudgetTypes, NEW w \in Workers, worker[w] = "working", NEW s, s # "working",
         worker' = [worker EXCEPT ![w] = s]
  PROVE  Cardinality(Working') = Cardinality(Working) - 1
<1>1. Working' = Working \ {w} /\ w \in Working
  BY DEF Working, BudgetTypes
<1> QED
  BY ZenonT(30), <1>1, WorkingFinite, FS_RemoveElement

LEMMA WorkerIdles ==
  ASSUME BudgetTypes, NEW w \in Workers, worker[w] # "working", NEW s, s # "working",
         worker' = [worker EXCEPT ![w] = s]
  PROVE  Working' = Working
BY DEF Working, BudgetTypes

LEMMA BudgetInitially == BudgetInit => BudgetInv
<1> SUFFICES ASSUME BudgetInit
             PROVE  BudgetInv
  OBVIOUS
<1>1. Working = {}
  BY DEF Working, BudgetInit, Workers
<1>2. Accounted
  BY SMTT(30), <1>1, FS_EmptySet, BudgetBounds DEF Accounted, BudgetInit
<1> QED
  BY Zenon, <1>2 DEF BudgetInit, BudgetInv, BudgetTypes, BakeHolds, Remembered, NoErrorLost,
     Workers, Work, Over, Building

LEMMA BudgetPreserved == BudgetInv /\ [BudgetNext]_budgetVars => BudgetInv'
<1> SUFFICES ASSUME BudgetInv, [BudgetNext]_budgetVars
             PROVE  BudgetInv'
  BY ZenonT(30)
<1> USE BudgetBounds, WorkingFinite
    DEF BudgetInv, BudgetTypes, BakeHolds, Accounted, Remembered, NoErrorLost, Work, Over,
        Building, Workers
<1>1. CASE spawnBuild
  <2>1. Working' = Working
    BY ZenonT(30), <1>1 DEF spawnBuild, Working
  <2> QED
    BY ZenonT(30), <1>1, <2>1 DEF spawnBuild
<1>2. CASE checkOutputs
  <2>1. Working' = Working
    BY ZenonT(30), <1>2 DEF checkOutputs, Working
  <2>2. canceled' \in BOOLEAN /\ (canceled => canceled') /\ (build' = "failed" => canceled')
    BY ZenonT(30), <1>2 DEF checkOutputs
  <2>3. /\ build = "checking" /\ build' \in {"done", "failed", "acquiring"}
        /\ UNCHANGED <<worker, held, slots, stopped, returned>>
    BY ZenonT(30), <1>2 DEF checkOutputs
  <2> QED
    BY SMTT(30), <2>1, <2>2, <2>3
<1>3. CASE acquireSlot
  <2>1. Working' = Working
    BY ZenonT(30), <1>3 DEF acquireSlot, Working
  <2> QED
    BY SMTT(30), <1>3, <2>1 DEF acquireSlot
<1>4. CASE abandonBake
  <2>1. Working' = Working
    BY ZenonT(30), <1>4 DEF abandonBake, Working
  <2> QED
    BY SMTT(30), <1>4, <2>1 DEF abandonBake
<1>5. CASE finishBake
  <2>1. Working' = Working
    BY ZenonT(30), <1>5 DEF finishBake, Working
  <2>2. canceled' \in BOOLEAN /\ (canceled => canceled') /\ (build' = "failed" => canceled')
    BY Zenon, <1>5 DEF finishBake
  <2>3. /\ build = "baking" /\ build' \in {"verifying", "failed"}
        /\ slots' = slots - held /\ held' = 0
        /\ UNCHANGED <<worker, stopped, returned>>
    BY <1>5 DEF finishBake
  <2> QED
    BY SMTT(30), <2>1, <2>2, <2>3
<1>6. CASE finishVerify
  <2>1. Working' = Working
    BY ZenonT(30), <1>6 DEF finishVerify, Working
  <2> QED
    BY Zenon, <1>6, <2>1 DEF finishVerify
<1>7. CASE groupWait
  <2>1. Working' = Working
    BY ZenonT(30), <1>7 DEF groupWait, Working
  <2> QED
    BY ZenonT(30), <1>7, <2>1 DEF groupWait
<1>8. ASSUME NEW w \in Workers, spawnMirror(w) \/ spawnVerify(w)
      PROVE  BudgetInv'
  <2>1. Working' = Working
    BY Zenon, <1>8, WorkerIdles DEF spawnMirror, spawnVerify
  <2> QED
    BY ZenonT(30), <1>8, <2>1 DEF spawnMirror, spawnVerify
<1>9. ASSUME NEW w \in Workers, runDeliveryWorker(w)
      PROVE  BudgetInv'
  <2>1. Cardinality(Working') = Cardinality(Working) + 1
    BY Zenon, <1>9, WorkerBegins DEF runDeliveryWorker
  <2> QED
    BY <1>9, <2>1 DEF runDeliveryWorker
<1>10. ASSUME NEW w \in Workers, abandonWorker(w)
       PROVE  BudgetInv'
  <2>1. Working' = Working
    BY ZenonT(30), <1>10, WorkerIdles DEF abandonWorker, Failed
  <2> QED
    BY Zenon, <1>10, <2>1 DEF abandonWorker, Failed
<1>11. ASSUME NEW w \in Workers, finishWorker(w)
       PROVE  BudgetInv'
  <2>1. Cardinality(Working') = Cardinality(Working) - 1
    BY Zenon, <1>11, WorkerEnds DEF finishWorker, Failed
  <2>2. w \in Working
    BY ZenonT(30), <1>11 DEF finishWorker, Working
  <2>3. Cardinality(Working) > 0
    BY <2>2, FS_EmptySet
  <2>4. /\ canceled' \in BOOLEAN /\ stopped' \in BOOLEAN /\ (canceled => canceled')
        /\ worker' # [worker EXCEPT ![w] = "done"] /\ w \in Mirrors => canceled'
    BY ZenonT(30), <1>11 DEF finishWorker, Failed
  <2>5. /\ worker[w] = "working" /\ slots' = slots - 1 /\ UNCHANGED <<build, held, returned>>
        /\ \/ worker' = [worker EXCEPT ![w] = "done"]
           \/ worker' = [worker EXCEPT ![w] = "failed"]
    BY ZenonT(30), <1>11 DEF finishWorker, Failed
  <2>6. Remembered'
    BY ZenonT(30), <2>4, <2>5
  <2> QED
    BY SMTT(30), <2>1, <2>3, <2>4, <2>5, <2>6
<1>12. CASE UNCHANGED budgetVars
  <2>1. Working' = Working
    BY SMTT(30), <1>12 DEF budgetVars, Working
  <2> QED
    BY ZenonT(30), <1>12, <2>1 DEF budgetVars
<1> QED
  BY <1>1, <1>2, <1>3, <1>4, <1>5, <1>6, <1>7, <1>8, <1>9, <1>10, <1>11, <1>12 DEF BudgetNext

LEMMA BudgetInvariance == BudgetSpec => []BudgetInv
BY BudgetInitially, BudgetPreserved, PTL DEF BudgetSpec

(* runDeliveryWorker and runExclusiveDeliveryWork give back what they took, *)
(* on every path, and never take more than the channel has.                 *)
LEMMA EverySlotAccounted == BudgetSpec => []SlotsAccounted
<1>1. BudgetInv => SlotsAccounted
  BY SMTT(30) DEF BudgetInv, BudgetTypes, Accounted, SlotsAccounted, Working, Workers
<1> QED
  BY <1>1, BudgetInvariance, PTL

(* The bake excludes every mirror copy and every verification.              *)
LEMMA ExclusiveBake == BudgetSpec => []BakeAlone
<1>1. BudgetInv => BakeAlone
  <2> SUFFICES ASSUME BudgetInv, build = "baking"
               PROVE  Working = {}
    BY ZenonT(30) DEF BakeAlone, Working, Workers
  <2>1. Cardinality(Working) = 0
    BY SMTT(30), WorkingFinite, BudgetBounds DEF BudgetInv, BakeHolds, Accounted, BudgetTypes
  <2> QED
    BY ZenonT(30), <2>1, WorkingFinite, FS_EmptySet
<1> QED
  BY <1>1, BudgetInvariance, PTL

(* Success of resolveLocalDelivery means that every mirror and the build    *)
(* succeeded.                                                               *)
LEMMA ErrorsSurface == BudgetSpec => []NoErrorLost
<1>1. BudgetInv => NoErrorLost
  BY DEF BudgetInv
<1> QED
  BY <1>1, BudgetInvariance, PTL

(* For any capacity and any number of mirrors and outputs the budget of     *)
(* resolveLocalDelivery is kept: slots are given back, the bake is alone,   *)
(* and no error is lost.                                                    *)
THEOREM BudgetAlwaysKept == BudgetSpec => []BudgetIsKept
BY EverySlotAccounted, ExclusiveBake, ErrorsSurface, PTL DEF BudgetIsKept

----------------------------------------------------------------------------
(***************************************************************************)
(* The handoff.  A poll that found the platform ready found the published  *)
(* commit in every read it made, and nothing moves it before the           *)
(* verdict (PollInv).                                                      *)
(***************************************************************************)

(* What a poll has found stays true until the apply publishes again: the    *)
(* source controller only ever fetches what was published last.             *)
PollInv ==
  /\ commit \in Nat /\ fxMain \in {0, commit} /\ git \in Nat
  /\ poll \in [ready : BOOLEAN, failed : BOOLEAN] /\ oci \in [spec : Nat, seen : Nat, fetched : Nat]
  /\ fxStep \in {"oci", "helm", "root", "verdict"} /\ poll.ready => git = commit
  /\ fxStep = "verdict" /\ poll.ready => oci.spec = Tag(commit)
  /\ fxStep = "done" => git = commit /\ oci.spec = Tag(commit)

LEMMA TagNumber == \A c \in Nat : Tag(c) \in Nat
BY SMTT(30) DEF Tag

(* A read of the poll can only make it less ready. *)
LEMMA ReadFinds ==
  ASSUME PollInv, NEW step, NEW next, NEW ready \in BOOLEAN, Read(step, next, ready)
  PROVE  /\ poll' \in [ready : BOOLEAN, failed : BOOLEAN] /\ (poll'.ready <=> poll.ready /\ ready)
         /\ fxStep = step /\ fxStep' = next /\ UNCHANGED <<fxMain, commit, git, oci>>
<1>1. poll' = [poll EXCEPT !.ready = poll.ready /\ ready] /\ poll \in [ready : BOOLEAN, failed : BOOLEAN]
  BY Zenon DEF Read, PollInv
<1>2. poll' \in [ready : BOOLEAN, failed : BOOLEAN] /\ (poll'.ready <=> poll.ready /\ ready)
  BY Zenon, <1>1
<1> QED
  BY Zenon, <1>2 DEF Read, clusterVars

(* A step of the apply that keeps what the poll found, or begins anew. *)
LEMMA PollKept ==
  ASSUME PollInv, UNCHANGED <<fxMain, commit, git, oci>>,
         poll' \in [ready : BOOLEAN, failed : BOOLEAN],
         fxStep' \notin {"oci", "helm", "root", "verdict", "done"}
  PROVE  PollInv'
BY Zenon DEF PollInv

LEMMA PollStep == PollInv /\ [FluxNext]_fluxVars => PollInv'
<1> SUFFICES ASSUME PollInv, [FluxNext]_fluxVars
             PROVE  PollInv'
  OBVIOUS
<1>0. poll \in [ready : BOOLEAN, failed : BOOLEAN]
  BY Zenon DEF PollInv
<1>1. CASE publishSource
  <2>1. /\ commit' \in Nat /\ fxMain' = commit' /\ fxStep' = "bootstrap"
        /\ UNCHANGED <<git, oci, poll>>
    BY SMTT(30), <1>1 DEF publishSource, clusterVars, PollInv
  <2> QED
    BY Zenon, <2>1 DEF PollInv
<1>2. CASE waitExactBranch \/ fluxBootstrap \/ readinessTimeout \/ Setback
  BY Zenon, <1>0, <1>2, PollKept DEF waitExactBranch, fluxBootstrap, readinessTimeout, Setback, clusterVars
<1>3. CASE ProjectFluxSOPSIdentity
  <2>1. poll' \in [ready : BOOLEAN, failed : BOOLEAN]
    BY Zenon, <1>3 DEF ProjectFluxSOPSIdentity
  <2> QED
    BY Zenon, <1>3, <2>1, PollKept DEF ProjectFluxSOPSIdentity, clusterVars
<1>4. CASE readKustomizations
  <2>1. poll' \in [ready : BOOLEAN, failed : BOOLEAN]
    BY Zenon, <1>4 DEF readKustomizations
  <2> QED
    BY Zenon, <1>4, <2>1, PollKept DEF readKustomizations, clusterVars
<1>5. CASE observeGitRepositories
  <2>1. (git = commit) \in BOOLEAN
    BY Zenon
  <2>2. /\ poll' \in [ready : BOOLEAN, failed : BOOLEAN] /\ (poll'.ready <=> poll.ready /\ git = commit)
        /\ fxStep' = "oci" /\ UNCHANGED <<fxMain, commit, git, oci>>
    BY Zenon, <1>5, <2>1, ReadFinds DEF observeGitRepositories
  <2> QED
    BY Zenon, <2>2 DEF PollInv
<1>6. CASE observeOCIRepositories
  <2>1. (oci.spec # 0 /\ oci.seen = oci.spec) \in BOOLEAN
    BY Zenon
  <2>2. /\ poll' \in [ready : BOOLEAN, failed : BOOLEAN] /\ (poll'.ready => poll.ready)
        /\ fxStep = "oci" /\ fxStep' = "helm" /\ UNCHANGED <<fxMain, commit, git, oci>>
    BY Zenon, <1>6, <2>1, ReadFinds DEF observeOCIRepositories
  <2> QED
    BY Zenon, <2>2 DEF PollInv
<1>7. CASE observeHelmReleases
  <2>1. (helm.phase = "ready") \in BOOLEAN
    BY Zenon
  <2>2. /\ poll' \in [ready : BOOLEAN, failed : BOOLEAN] /\ (poll'.ready => poll.ready)
        /\ fxStep = "helm" /\ fxStep' = "root" /\ UNCHANGED <<fxMain, commit, git, oci>>
    BY Zenon, <1>7, <2>1, ReadFinds DEF observeHelmReleases
  <2> QED
    BY Zenon, <2>2 DEF PollInv
<1>8. CASE requireCurrentBigBangRoot
  <2>1. BigBangCurrent \in BOOLEAN
    BY Zenon DEF BigBangCurrent
  <2>2. /\ poll' \in [ready : BOOLEAN, failed : BOOLEAN] /\ (poll'.ready <=> poll.ready /\ BigBangCurrent)
        /\ fxStep = "root" /\ fxStep' = "verdict" /\ UNCHANGED <<fxMain, commit, git, oci>>
    BY Zenon, <1>8, <2>1, ReadFinds DEF requireCurrentBigBangRoot
  <2> QED
    BY Zenon, <2>2 DEF PollInv, BigBangCurrent
<1>9. CASE waitForPlatformReconciliation
  <2>1. /\ UNCHANGED <<fxMain, commit, git, oci, poll>> /\ fxStep = "verdict"
        /\ fxStep' \in {"done", "failed", "kustomizations"} /\ (fxStep' = "done" => poll.ready)
    BY Zenon, <1>9 DEF waitForPlatformReconciliation, clusterVars
  <2> QED
    BY Zenon, <2>1 DEF PollInv
<1>10. CASE ForeignPush
  <2>1. fxMain' = 0 /\ UNCHANGED <<commit, fxStep, git, oci, poll>>
    BY Zenon, <1>10 DEF ForeignPush, clusterVars
  <2> QED
    BY Zenon, <2>1 DEF PollInv
<1>11. CASE FetchSource
  <2>1. git' = commit /\ UNCHANGED <<fxMain, commit, fxStep, oci, poll>>
    BY Zenon, <1>11 DEF FetchSource, fluxOnly, PollInv
  <2> QED
    BY Zenon, <2>1 DEF PollInv
<1>12. CASE Healthy \/ BeginRelease \/ InstallRelease \/ \E k \in Kustomizations : Begin(k)
  <2>1. UNCHANGED <<fxMain, commit, fxStep, git, oci, poll>>
    BY Zenon, <1>12 DEF Healthy, BeginRelease, InstallRelease, Begin, fluxOnly
  <2> QED
    BY Zenon, <2>1 DEF PollInv
<1>13. CASE FetchChart
  <2>1. UNCHANGED <<fxMain, commit, fxStep, git, poll>>
    BY Zenon, <1>13 DEF FetchChart, fluxOnly
  <2>2. oci' \in [spec : Nat, seen : Nat, fetched : Nat] /\ oci'.spec = oci.spec
    BY Zenon, <1>13 DEF FetchChart, PollInv
  <2> QED
    BY Zenon, <2>1, <2>2 DEF PollInv
<1>14. ASSUME NEW k \in Kustomizations, Build(k)
       PROVE  PollInv'
  <2>1. UNCHANGED <<fxMain, commit, fxStep, git, poll>>
    BY Zenon, <1>14 DEF Build, fluxOnly
  <2>2. CASE UNCHANGED oci
    BY Zenon, <2>1, <2>2 DEF PollInv
  <2>3. CASE oci' = [oci EXCEPT !.spec = Tag(git)]
    <3>1. Tag(git) \in Nat
      BY Zenon, TagNumber DEF PollInv
    <3>2. oci' \in [spec : Nat, seen : Nat, fetched : Nat] /\ oci'.spec = Tag(git)
      BY Zenon, <2>3, <3>1 DEF PollInv
    <3> QED
      BY Zenon, <2>1, <3>2 DEF PollInv
  <2> QED
    BY Zenon, <1>14, <2>2, <2>3 DEF Build
<1>15. CASE UNCHANGED fluxVars
  BY Zenon, <1>15 DEF fluxVars, PollInv
<1> QED
  BY ZenonT(30), <1>1, <1>2, <1>3, <1>4, <1>5, <1>6, <1>7, <1>8, <1>9, <1>10, <1>11, <1>12, <1>13, <1>14,
     <1>15 DEF FluxNext, Apply, Flux

LEMMA DoneAlwaysRequested == FluxSpec => []DoneIsRequested
<1>1. FluxInit => PollInv
  <2> SUFFICES ASSUME FluxInit
               PROVE  PollInv
    OBVIOUS
  <2>1. commit = 0 /\ fxMain = 0 /\ git = 0 /\ fxStep = "idle" /\ 0 \in Nat
    BY SMTT(30) DEF FluxInit
  <2>2. poll \in [ready : BOOLEAN, failed : BOOLEAN] /\ oci \in [spec : Nat, seen : Nat, fetched : Nat]
    BY SMTT(30) DEF FluxInit
  <2> QED
    BY Zenon, <2>1, <2>2 DEF PollInv
<1>2. PollInv => DoneIsRequested
  <2>1. \A n \in Nat : n >= n
    BY SMTT(30)
  <2> QED
    BY Zenon, <2>1, TagNumber DEF PollInv, DoneIsRequested
<1> QED
  BY <1>1, <1>2, PollStep, PTL DEF FluxSpec

(***************************************************************************)
(* Success that atum reports is true at both ends of a delivery, however   *)
(* the publication and the handoff interleave: a platform that is reported *)
(* exact is the current tree, published and served, and an apply that is   *)
(* done has the cluster asking for the published commit.                   *)
(***************************************************************************)
THEOREM SuccessAlwaysTrue == PubSpec /\ FluxSpec => []SuccessIsTrue
<1>1. SuccessIsCurrent /\ DoneIsRequested => SuccessIsTrue
  BY Zenon DEF SuccessIsTrue
<1> QED
  BY <1>1, ExactMeansCurrent, DoneAlwaysRequested, PTL
==============================================================================
