---------------------------- MODULE Publication ----------------------------
(***************************************************************************)
(* The publication of one project: `atum artifacts publish`, `atum apply`  *)
(* and `atum platform status` against the project directory, its caches    *)
(* and the seed services (Harbor, Forgejo and the bastion's file server).  *)
(*                                                                         *)
(* A publishing command gives the project lock up before it prepares       *)
(* (ensurePublication), takes it again inside Prepare, gives it up again   *)
(* and takes it a third time to go on.  Around it the working tree is      *)
(* edited by its owner, who takes no lock, `pull updates` commits a new    *)
(* generation whenever the lock is free, caches are wiped, another         *)
(* checkout writes to the seed services, and the command is interrupted at *)
(* any step.  The update itself is atomic here: UpdateRefinement shows     *)
(* that the transaction behind it is.                                      *)
(*                                                                         *)
(* Digests are named by what they are digests of.  A source is the tracked *)
(* tree it was taken from, a build is the delivery graph it was made from, *)
(* and mirrors, charts and Kubespray files are those of a generation.      *)
(***************************************************************************)
EXTENDS Naturals

CONSTANTS
    MaxGen,      \* generations `pull updates` commits
    MaxEvents,   \* edits, wipes, interruptions and foreign writes together
    None,        \* no value
    Partial,     \* an OCI layout that was begun
    Foreign      \* a commit of another checkout

VARIABLES
    tree,      \* the tracked working tree
    holder,    \* who holds the project lock
    cmd,       \* the running command
    mirrors,   \* .atum/cache/images: generation -> None, Partial or the generation
    builds,    \* .atum/cache/builds: graph -> None, Partial or what was built
    seeds,     \* .atum/artifacts/seed: the generations whose archive is there
    harbor,    \* tag -> what it resolves to
    tags,      \* Forgejo source tag -> the commit it resolves to
    main,      \* Forgejo branch main
    bastion,   \* the retained Kubespray files
    receipt,   \* .atum/state/publication.lock.json
    disturbed, \* something changed outside since the status began to look
    events     \* how many of the bounded events have happened

pubVars == <<tree, holder, cmd, mirrors, builds, seeds, harbor, tags, main,
             bastion, receipt, disturbed, events>>

Gens == 1 .. MaxGen
Trees == [gen : Gens, material : {"locked", "edited"}, other : {"locked", "edited"}]
Graphs == [gen : Gens, material : {"locked", "edited"}]
Kinds == {"mirror", "build", "chart"}

ASSUME PublicationBounds ==
    /\ MaxGen \in Nat \ {0} /\ MaxEvents \in Nat
    /\ None # Partial /\ None # Foreign /\ Partial # Foreign
    /\ {None, Partial, Foreign} \cap (Gens \cup Trees \cup Graphs) = {}

Steps == {"idle", "loaded", "unlocked", "prepare", "resolve", "source", "hash", "copy",
          "seed", "manifest", "prepared", "images", "charts", "tag", "branch", "push",
          "report", "put", "receipt", "handoff", "verify", "observe", "done", "failed"}

\* DeliveryGraphSHA256: the build inputs among the tracked files.
Graph(t) == [gen |-> t.gen, material |-> t.material]

\* The graph the committed delivery lock of a generation names.
Committed(g) == [gen |-> g, material |-> "locked"]

\* The Kubespray files of a generation: one of its own and a shared one.
Files(g) == {0, g}

\* What SaveReceipt records and LoadReceipt compares.
Receipts == [desired : Gens, source : Trees, graph : Graphs, seed : Gens, files : Gens]

NoCommand == [step |-> "idle", kind |-> "status", gen |-> 1, runtime |-> 1,
              graph |-> Committed(1), source |-> None, staged |-> None,
              mirror |-> "todo", build |-> "todo", workspace |-> None, digest |-> None,
              published |-> {}, lease |-> None, missing |-> {}]

PubInit ==
    /\ tree = [gen |-> 1, material |-> "locked", other |-> "locked"]
    /\ holder = "nobody" /\ cmd = NoCommand
    /\ mirrors = [g \in Gens |-> None] /\ builds = [g \in Graphs |-> None]
    /\ seeds = {} /\ harbor = [k \in Kinds \X Gens |-> None]
    /\ tags = [t \in Trees |-> None] /\ main = None
    /\ bastion = [manifests |-> {}, blobs |-> {}, active |-> None]
    /\ receipt = None /\ disturbed = FALSE
    /\ events = 0

(***************************************************************************)
(* The project lock                                                        *)
(***************************************************************************)
Running == cmd.step \notin {"idle", "done", "failed"}

Goto(s) == cmd' = [cmd EXCEPT !.step = s]

\* A command is over: its memory is gone and the deferred unlock has run.
Finish(result) ==
    /\ cmd' = [NoCommand EXCEPT !.step = result, !.kind = cmd.kind]
    /\ holder' = "nobody"

Fail == Finish("failed")

local == <<tree, mirrors, builds, seeds>>
remote == <<harbor, tags, main, bastion>>
others == <<disturbed, events>>

\* config.Load validates the build graph against the committed delivery lock.
Loads == Graph(tree) = Committed(tree.gen)

\* loadProject: the lock is taken, the tree that is there then is loaded.
Start(kind) ==
    /\ ~ Running /\ holder = "nobody"
    /\ LET first == IF kind = "status" THEN "verify" ELSE "loaded"
       IN  cmd' = [NoCommand EXCEPT !.step = IF Loads THEN first ELSE "failed",
                                    !.kind = kind, !.gen = tree.gen]
    /\ holder' = IF Loads THEN "command" ELSE "nobody"
    /\ UNCHANGED <<local, remote, receipt, others>>

\* ensurePublication lets the lock go so that Prepare can take it.
unlockProject ==
    /\ cmd.step = "loaded" /\ Goto("unlocked") /\ holder' = "nobody"
    /\ UNCHANGED <<local, remote, receipt, others>>

\* Prepare takes the lock and loads the project once more.
PrepareLock ==
    /\ cmd.step = "unlocked" /\ holder = "nobody"
    /\ \/ /\ Loads /\ holder' = "command"
          /\ cmd' = [cmd EXCEPT !.step = "prepare", !.runtime = tree.gen]
       \/ ~ Loads /\ Fail
    /\ UNCHANGED <<local, remote, receipt, others>>

(***************************************************************************)
(* Local delivery: the mirrors and the builds are made concurrently        *)
(***************************************************************************)
resolveLocalDelivery ==
    /\ cmd.step = "prepare"
    /\ cmd' = [cmd EXCEPT !.step = "resolve", !.graph = Graph(tree),
                          !.mirror = "todo", !.build = "todo"]
    /\ UNCHANGED <<holder, local, remote, receipt, others>>

\* ValidateLayoutTree, Resolve and ValidateLinuxAMD64 accept a whole layout only.
openMirrorOutput(g) == mirrors[g] = g

prepareMirrorOutput ==
    /\ cmd.step = "resolve" /\ cmd.mirror = "todo"
    /\ IF openMirrorOutput(cmd.runtime)
         THEN cmd' = [cmd EXCEPT !.mirror = "done"] /\ UNCHANGED mirrors
         ELSE /\ cmd' = [cmd EXCEPT !.mirror = "copy"]
              /\ mirrors' = [mirrors EXCEPT ![cmd.runtime] = Partial]
    /\ UNCHANGED <<tree, holder, builds, seeds, remote, receipt, others>>

CopyToStore ==
    /\ cmd.step = "resolve" /\ cmd.mirror = "copy"
    /\ cmd' = [cmd EXCEPT !.mirror = "done"]
    /\ mirrors' = [mirrors EXCEPT ![cmd.runtime] = cmd.runtime]
    /\ UNCHANGED <<tree, holder, builds, seeds, remote, receipt, others>>

\* openBuildLayout accepts one whole root; anything else is removed.
prepareBuildOutput ==
    /\ cmd.step = "resolve" /\ cmd.build = "todo"
    /\ IF builds[cmd.graph] \in Graphs
         THEN cmd' = [cmd EXCEPT !.build = "done"] /\ UNCHANGED builds
         ELSE /\ cmd' = [cmd EXCEPT !.build = "workspace"]
              /\ builds' = [builds EXCEPT ![cmd.graph] = None]
    /\ UNCHANGED <<tree, holder, mirrors, seeds, remote, receipt, others>>

MutantMaterializeBuildWorkspace ==
    /\ cmd.step = "resolve" /\ cmd.build = "workspace"
    /\ cmd' = [cmd EXCEPT !.workspace = Graph(tree), !.build = "bake"]
    /\ UNCHANGED <<holder, local, remote, receipt, others>>

\* The build reads a snapshot, which must have the graph that was resolved.
materializeBuildWorkspace ==
    /\ cmd.step = "resolve" /\ cmd.build = "workspace"
    /\ IF Graph(tree) = cmd.graph
         THEN /\ cmd' = [cmd EXCEPT !.workspace = Graph(tree), !.build = "bake"]
              /\ UNCHANGED holder
         ELSE Fail
    /\ UNCHANGED <<local, remote, receipt, others>>

\* Bake writes its output in place, so an interrupted one leaves a part of it.
startBake ==
    /\ cmd.step = "resolve" /\ cmd.build = "bake"
    /\ cmd' = [cmd EXCEPT !.build = "baking"]
    /\ builds' = [builds EXCEPT ![cmd.graph] = Partial]
    /\ UNCHANGED <<tree, holder, mirrors, seeds, remote, receipt, others>>

runBake ==
    /\ cmd.step = "resolve" /\ cmd.build = "baking"
    /\ cmd' = [cmd EXCEPT !.build = "recheck"]
    /\ builds' = [builds EXCEPT ![cmd.graph] = cmd.workspace]
    /\ UNCHANGED <<tree, holder, mirrors, seeds, remote, receipt, others>>

recheckGraph ==
    /\ cmd.step = "resolve" /\ cmd.build = "recheck"
    /\ IF Graph(tree) = cmd.graph
         THEN cmd' = [cmd EXCEPT !.build = "done"] /\ UNCHANGED holder
         ELSE Fail
    /\ UNCHANGED <<local, remote, receipt, others>>

\* matchesCommittedDelivery: same graph, same images, same digests.
matchesCommittedDelivery(graph, g) == builds[graph] = Committed(g)

assembleImageLock ==
    /\ cmd.step = "resolve" /\ cmd.mirror = "done" /\ cmd.build = "done"
    /\ IF matchesCommittedDelivery(cmd.graph, cmd.runtime)
         THEN /\ cmd' = [cmd EXCEPT !.step = "source", !.digest = builds[cmd.graph],
                                 !.workspace = None]
              /\ UNCHANGED holder
         ELSE Fail
    /\ UNCHANGED <<local, remote, receipt, others>>

\* gitsnapshot.Load and Identity read one file after the other.
snapshotLoad ==
    /\ cmd.step = "source"
    /\ cmd' = [cmd EXCEPT !.step = "hash", !.source = tree]
    /\ UNCHANGED <<holder, local, remote, receipt, others>>

snapshotIdentity ==
    /\ cmd.step = "hash"
    /\ cmd' = [cmd EXCEPT !.step = "copy", !.source.other = tree.other]
    /\ UNCHANGED <<holder, local, remote, receipt, others>>

\* A file is copied as it is when its turn comes: early, or as late as now.
materializePublicationSource ==
    /\ cmd.step = "copy"
    /\ \E m \in {cmd.source.material, tree.material}, o \in {cmd.source.other, tree.other} :
           cmd' = [cmd EXCEPT !.step = "seed",
                              !.staged = [gen |-> cmd.source.gen, material |-> m, other |-> o]]
    /\ UNCHANGED <<holder, local, remote, receipt, others>>

\* The seed archive is named by its content and never replaced.
prepareSeed ==
    /\ cmd.step = "seed" /\ Goto("manifest") /\ seeds' = seeds \cup {cmd.runtime}
    /\ UNCHANGED <<tree, holder, mirrors, builds, remote, receipt, others>>

\* The manifest is made and Prepare's deferred unlock runs.
MaterializeFileManifest ==
    /\ cmd.step = "manifest" /\ Goto("prepared") /\ holder' = "nobody"
    /\ UNCHANGED <<local, remote, receipt, others>>

MutantReloadProject ==
    /\ cmd.step = "prepared" /\ holder = "nobody" /\ holder' = "command"
    /\ cmd' = [cmd EXCEPT !.step = "images", !.gen = tree.gen]
    /\ UNCHANGED <<local, remote, receipt, others>>

\* The lock again; the reloaded project gives way to the prepared one.
reloadProject ==
    /\ cmd.step = "prepared" /\ holder = "nobody"
    /\ \/ /\ Loads /\ holder' = "command"
          /\ cmd' = [cmd EXCEPT !.step = "images", !.gen = cmd.runtime]
       \/ ~ Loads /\ Fail
    /\ UNCHANGED <<local, remote, receipt, others>>

(***************************************************************************)
(* Harbor: images in any order, then charts; a tag is never moved          *)
(***************************************************************************)
\* What a tag of the publication must resolve to.
Digest(kind) == IF kind = "build" THEN cmd.digest ELSE Committed(cmd.runtime)

\* The store a tag is filled from still has its content.
Stored(kind) ==
    CASE kind = "mirror" -> openMirrorOutput(cmd.runtime)
      [] kind = "build" -> builds[cmd.graph] = cmd.digest
      [] OTHER -> TRUE

\* Charts wait for both images, the source for the charts.
AfterPublish(kind) ==
    LET published == cmd.published \cup {kind}
    IN  CASE published = Kinds -> "tag"
          [] published = {"mirror", "build"} -> "charts"
          [] OTHER -> cmd.step

\* Resolve first: equal content is reused, other content is refused.
Publish(kind) ==
    LET tag == harbor[<<kind, cmd.runtime>>]
        exact == tag = Digest(kind) \/ (tag = None /\ Stored(kind))
    IN  \/ /\ exact
           /\ harbor' = [harbor EXCEPT ![<<kind, cmd.runtime>>] = Digest(kind)]
           /\ cmd' = [cmd EXCEPT !.published = @ \cup {kind}, !.step = AfterPublish(kind)]
           /\ UNCHANGED holder
        \/ ~ exact /\ Fail /\ UNCHANGED harbor

publishPreparedImages(kind) ==
    /\ cmd.step = "images" /\ kind \notin cmd.published
    /\ Publish(kind)
    /\ UNCHANGED <<local, tags, main, bastion, receipt, others>>

publishCharts ==
    /\ cmd.step = "charts"
    /\ Publish("chart")
    /\ UNCHANGED <<local, tags, main, bastion, receipt, others>>

\* withAtumRepository commits the copy, whose commit must be the identity's.
pushImmutable ==
    /\ cmd.step = "tag"
    /\ \/ /\ cmd.staged = cmd.source /\ tags[cmd.source] \in {None, cmd.source}
          /\ tags' = [tags EXCEPT ![cmd.source] = cmd.source]
          /\ Goto("branch") /\ UNCHANGED holder
       \/ /\ cmd.staged # cmd.source \/ tags[cmd.source] \notin {None, cmd.source}
          /\ Fail /\ UNCHANGED tags
    /\ UNCHANGED <<local, harbor, main, bastion, receipt, others>>

\* exactBranch: the lease is what main is now.
readBranch ==
    /\ cmd.step = "branch"
    /\ cmd' = [cmd EXCEPT !.lease = main, !.step = IF main = cmd.source THEN "report" ELSE "push"]
    /\ UNCHANGED <<holder, local, remote, receipt, others>>

\* A push whose lease broke succeeds only if main already is the source.
advanceBranch ==
    /\ cmd.step = "push"
    /\ \/ main \in {cmd.lease, cmd.source} /\ main' = cmd.source /\ Goto("report") /\ UNCHANGED holder
       \/ main \notin {cmd.lease, cmd.source} /\ Fail /\ UNCHANGED main
    /\ UNCHANGED <<local, harbor, tags, bastion, receipt, others>>

(***************************************************************************)
(* The bastion's helper: report, put, activate                             *)
(***************************************************************************)
reportFiles ==
    /\ cmd.step = "report"
    /\ bastion' = [bastion EXCEPT !.manifests = @ \cup {cmd.runtime}]
    /\ cmd' = [cmd EXCEPT !.step = "put", !.missing = Files(cmd.runtime) \ bastion.blobs]
    /\ UNCHANGED <<holder, local, harbor, tags, main, receipt, others>>

\* A blob is taken only for a manifest that is there.
putFile(blob) ==
    /\ cmd.step = "put" /\ blob \in cmd.missing
    /\ \/ /\ cmd.runtime \in bastion.manifests
          /\ bastion' = [bastion EXCEPT !.blobs = @ \cup {blob}]
          /\ cmd' = [cmd EXCEPT !.missing = @ \ {blob}] /\ UNCHANGED holder
       \/ cmd.runtime \notin bastion.manifests /\ Fail /\ UNCHANGED bastion
    /\ UNCHANGED <<local, harbor, tags, main, receipt, others>>

\* The projection switches and what it does not need is removed.
Activated(g) == [manifests |-> {g}, blobs |-> Files(g), active |-> g]

activateFiles ==
    /\ cmd.step = "put" /\ cmd.missing = {}
    /\ \/ /\ cmd.runtime \in bastion.manifests /\ Files(cmd.runtime) \subseteq bastion.blobs
          /\ bastion' = Activated(cmd.runtime) /\ Goto("receipt") /\ UNCHANGED holder
       \/ /\ cmd.runtime \notin bastion.manifests \/ ~ Files(cmd.runtime) \subseteq bastion.blobs
          /\ Fail /\ UNCHANGED bastion
    /\ UNCHANGED <<local, harbor, tags, main, receipt, others>>

SaveReceipt ==
    /\ cmd.step = "receipt"
    /\ receipt' = [desired |-> cmd.gen, source |-> cmd.source, graph |-> cmd.digest,
                   seed |-> cmd.runtime, files |-> cmd.runtime]
    /\ IF cmd.kind = "publish" THEN Finish("done")
                               ELSE Goto("handoff") /\ UNCHANGED holder
    /\ UNCHANGED <<local, remote, others>>

\* bootstrapFlux waits for main to be the published commit; Convergence has the rest.
bootstrapFlux ==
    /\ cmd.step = "handoff"
    /\ IF main = cmd.source THEN Goto("verify") /\ UNCHANGED holder ELSE Fail
    /\ UNCHANGED <<local, remote, receipt, others>>

MutantValidReceipt(r, g) == r # None /\ r.desired = g /\ r.seed \in seeds /\ r.files = g

\* LoadReceipt: against the loaded project and the tree as it is now.
ValidReceipt(r, g) ==
    /\ r # None
    /\ r.desired = g /\ r.source = tree /\ r.seed \in seeds /\ r.files = g
    /\ r.graph = Graph(tree)

LoadReceipt ==
    /\ cmd.step = "verify"
    /\ IF ValidReceipt(receipt, cmd.gen) THEN Goto("observe") /\ UNCHANGED holder ELSE Fail
    /\ disturbed' = FALSE
    /\ UNCHANGED <<local, remote, receipt, events>>

\* observeSeedPublication, observeKubesprayFiles and platformExactnessError.
observeSeedPublication ==
    /\ cmd.step = "observe"
    /\ LET exact == /\ main = receipt.source
                    /\ harbor[<<"build", receipt.desired>>] = receipt.graph
                    /\ \A k \in {"mirror", "chart"} :
                          harbor[<<k, receipt.desired>>] = Committed(receipt.desired)
                    /\ bastion.active = receipt.files
       IN  Finish(IF exact THEN "done" ELSE "failed")
    /\ UNCHANGED <<local, remote, receipt, others>>

(***************************************************************************)
(* Everything else that happens                                            *)
(***************************************************************************)
Event == events < MaxEvents /\ events' = events + 1

\* A call fails, or the process is killed: the kernel drops its lock.
Stop ==
    /\ Running /\ Event
    /\ Fail
    /\ UNCHANGED <<local, remote, receipt, disturbed>>

\* The owner edits, or restores, a tracked file.
Edit(field) ==
    /\ Event
    /\ \E v \in {"locked", "edited"} \ {tree[field]} : tree' = [tree EXCEPT ![field] = v]
    /\ disturbed' = TRUE
    /\ UNCHANGED <<holder, cmd, mirrors, builds, seeds, remote, receipt>>

\* The owner clears the ignored state that Prepare makes again.
Wipe ==
    /\ Event
    /\ mirrors' = [g \in Gens |-> None] /\ builds' = [g \in Graphs |-> None] /\ seeds' = {}
    /\ disturbed' = TRUE
    /\ UNCHANGED <<tree, holder, cmd, remote, receipt>>

\* `pull updates` locks the graph of the tree it finds into a new generation.
PullUpdates ==
    /\ holder = "nobody" /\ tree.gen < MaxGen
    /\ tree' = [tree EXCEPT !.gen = @ + 1, !.material = "locked"]
    /\ disturbed' = TRUE
    /\ UNCHANGED <<holder, cmd, mirrors, builds, seeds, remote, receipt, events>>

\* Another checkout moves main, or activates its own files.
ForeignPublish ==
    /\ Event
    /\ \/ main' = Foreign /\ UNCHANGED bastion
       \/ \E g \in Gens : bastion' = Activated(g) /\ UNCHANGED main
    /\ disturbed' = TRUE
    /\ UNCHANGED <<local, holder, cmd, harbor, tags, receipt>>

Prepare ==
    \/ unlockProject \/ PrepareLock \/ resolveLocalDelivery
    \/ prepareMirrorOutput \/ CopyToStore
    \/ prepareBuildOutput \/ materializeBuildWorkspace \/ startBake \/ runBake \/ recheckGraph
    \/ assembleImageLock \/ snapshotLoad \/ snapshotIdentity \/ materializePublicationSource
    \/ prepareSeed \/ MaterializeFileManifest \/ reloadProject

Seed ==
    \/ \E kind \in {"mirror", "build"} : publishPreparedImages(kind)
    \/ publishCharts
    \/ pushImmutable \/ readBranch \/ advanceBranch
    \/ reportFiles \/ (\E blob \in {0} \cup Gens : putFile(blob)) \/ activateFiles
    \/ SaveReceipt \/ bootstrapFlux

Status == LoadReceipt \/ observeSeedPublication

Command == Prepare \/ Seed \/ Status

Outside ==
    \/ Stop \/ (\E field \in {"material", "other"} : Edit(field))
    \/ Wipe \/ PullUpdates \/ ForeignPublish

PubNext == (\E kind \in {"apply", "publish", "status"} : Start(kind)) \/ Command \/ Outside

\* A started command goes on, and the owner comes back to publish again.
PubFairness == WF_pubVars(Command) /\ SF_pubVars(Start("publish"))

PubSpec == PubInit /\ [][PubNext]_pubVars /\ PubFairness

(***************************************************************************)
(* Properties                                                              *)
(***************************************************************************)
\* The state is well formed, and a command past its snapshot has an identity.
PublicationTypeOK ==
    /\ tree \in Trees /\ holder \in {"nobody", "command"} /\ cmd.step \in Steps
    /\ cmd.step \in {"hash", "copy", "seed", "manifest", "prepared", "images", "charts", "tag",
                     "branch", "push", "report", "put", "receipt", "handoff"} => cmd.source \in Trees
    /\ mirrors \in [Gens -> Gens \cup {None, Partial}]
    /\ builds \in [Graphs -> Graphs \cup {None, Partial}] /\ seeds \subseteq Gens
    /\ harbor \in [Kinds \X Gens -> Graphs \cup {None}] /\ tags \in [Trees -> Trees \cup {None}]
    /\ main \in Trees \cup {None, Foreign} /\ receipt \in Receipts \cup {None}

\* A build cache entry was made from exactly the inputs its path names, whatever
\* was edited while Bake ran: the snapshot is checked, not only the tree.
BuildCacheHonest == \A g \in Graphs : builds[g] \in {None, Partial, g}

\* Harbor never holds, under the tag of a generation, a build made from edited
\* inputs: matchesCommittedDelivery stops it before anything is published.
HarborExact == \A g \in Gens : harbor[<<"build", g>>] \in {None, Committed(g)}

\* A Forgejo source tag resolves to the tree whose digest it carries, although
\* the tree is hashed first and copied later, with edits in between.
TagNamesContent == \A t \in Trees : tags[t] \in {None, t}

\* A receipt describes one generation, although the lock was given up twice and
\* `pull updates` may have committed another before the project was reloaded.
ReceiptUnmixed ==
    receipt # None =>
        /\ receipt.desired = receipt.source.gen /\ receipt.desired = receipt.seed
        /\ receipt.desired = receipt.files /\ receipt.desired = receipt.graph.gen

\* What a receipt records is in Harbor and Forgejo: it is written last.
ReceiptBacked ==
    receipt # None =>
        /\ \A k \in Kinds : harbor[<<k, receipt.desired>>] = Committed(receipt.desired)
        /\ tags[receipt.source] = receipt.source

\* An apply or a status that reports an exact platform did see the current tree
\* published: nothing prepared before an edit, an update, another checkout's
\* push or an interrupted rerun passes for it.
SuccessIsCurrent ==
    cmd.step = "done" /\ cmd.kind # "publish" /\ ~ disturbed =>
        /\ receipt # None /\ receipt.source = tree /\ main = tree
        /\ bastion.active = tree.gen /\ harbor[<<"build", tree.gen>>] = Graph(tree)

\* The served projection has every file of its manifest, although files reported
\* as present are pruned when another checkout activates in between.
ActiveComplete == bastion.active # None => Files(bastion.active) \subseteq bastion.blobs

\* A name tells the content: what is found under the path of a build cache entry, the
\* tag of an image or the tag of a source is what was hashed for it, and the files
\* named by the served manifest are there.
NamesTellContent == BuildCacheHonest /\ HarborExact /\ TagNamesContent /\ ActiveComplete

\* A receipt is true: it is of one generation, and what it records is there.
ReceiptIsTrue == ReceiptUnmixed /\ ReceiptBacked

\* CONTRACT.md: a missing or stale receipt is repaired by rerunning the delivery
\* operation, whatever an interrupted run left in the caches and the services,
\* once the build inputs are the locked ones.
RerunRepairs ==
    <>[](tree.material = "locked") => <>[](receipt # None /\ receipt.source = tree)

=============================================================================
