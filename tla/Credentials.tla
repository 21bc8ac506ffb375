---------------------------- MODULE Credentials ----------------------------
(***************************************************************************)
(* Atum's runtime credentials: the ignored local document, the committed   *)
(* SOPS document, the Flux age identity and the encrypted Flux source that *)
(* `atum secrets render` writes from them, through the publication of that *)
(* source to the projection of the age key into the cluster.               *)
(*                                                                         *)
(* Commands run one at a time under the project lock, except that an apply *)
(* lets the lock go between staging its source snapshot and going on.  The *)
(* owner of the project edits, removes and restores files at any moment,   *)
(* and a command may be interrupted between any two writes.                *)
(*                                                                         *)
(* A generated value is a number, unique to its generation; a document has *)
(* a seed (standing for every value that is not part of the root CA), and  *)
(* the two halves of the CA pair.  0 is an absent field.                   *)
(***************************************************************************)
EXTENDS Naturals, FiniteSets

CONSTANTS
    Commands,   \* concurrent processes
    Runs,       \* the kinds of command each of them runs
    MaxMade,    \* values generated, by Atum or by the owner
    MaxKeys,    \* age identities generated
    MaxOwner,   \* changes by the owner, and interruptions
    None,       \* no file
    Broken      \* a file that cannot be read, decoded or decrypted

VARIABLES
    localDoc,     \* the ignored override: None, Broken or a partial document
    sopsDoc,      \* the committed document: None, Broken or a document
    ageKey,       \* .atum/state/flux-sops.agekey
    source,       \* the rendered Flux source: member -> [of, to]
    main,         \* the published source
    nodes,        \* the root CA the cluster's nodes trust
    clusterKey,   \* the age key projected into the cluster
    project,      \* holder of the project lock
    secretsLock,  \* holder of .atum/state/secrets.lock
    run,          \* what each process is doing
    made,         \* values generated so far
    keys,         \* age identities generated so far
    written,      \* values that have been in a stored document
    owner         \* changes and interruptions so far

files == <<localDoc, sopsDoc, ageKey, source>>
outside == <<main, nodes, clusterKey>>
counts == <<made, keys, written, owner>>
credVars == <<files, outside, project, secretsLock, run, counts>>

Fields == {"seed", "cert", "key"}
Docs == [Fields -> 0 .. MaxMade]
Members == <<"config", "seed", "ca">>
MemberSet == {"config", "seed", "ca"}
Entries == [of : 0 .. MaxMade, to : 0 .. MaxKeys]
Kinds == {"init", "commit", "validate", "render", "apply"}
Steps == {"idle", "staging", "staged", "create", "lock", "local", "sops", "generate", "agekey",
          "write", "seed", "converge", "bootstrap", "project", "applied"}

ASSUME CredentialBounds ==
    /\ IsFiniteSet(Commands) /\ MaxMade \in Nat /\ MaxKeys \in Nat /\ MaxOwner \in Nat
    /\ None # Broken /\ {None, Broken} \cap Docs = {} /\ None \notin Commands
    /\ Runs \in [Commands -> SUBSET Kinds]

Unrendered == [m \in MemberSet |-> [of |-> 0, to |-> 0]]
Idle == [step |-> "idle", kind |-> "init", phase |-> "first", over |-> None, doc |-> None,
         key |-> 0, staged |-> Unrendered, member |-> 1]

CredInit ==
    /\ localDoc = None /\ sopsDoc = None /\ ageKey = 0 /\ source = Unrendered
    /\ main = Unrendered /\ nodes = 0 /\ clusterKey = 0
    /\ project = None /\ secretsLock = None /\ run = [p \in Commands |-> Idle]
    /\ made = 0 /\ keys = 0 /\ written = {} /\ owner = 0

Goto(p, step) == run' = [run EXCEPT ![p].step = step]

\* withProjectUnlock: a command that ends, well or not, gives its locks up.
End(p) ==
    /\ run' = [run EXCEPT ![p] = Idle]
    /\ project' = (IF project = p THEN None ELSE project)
    /\ secretsLock' = (IF secretsLock = p THEN None ELSE secretsLock)

(***************************************************************************)
(* Documents                                                               *)
(***************************************************************************)
\* Validate: every field is there and the CA halves are a pair.
Valid(doc) == (\A f \in Fields : doc[f] # 0) /\ doc["cert"] = doc["key"]

Empty == [f \in Fields |-> 0]

\* applyOverride replaces exactly the fields the override has.
applyOverride(doc, override) ==
    [f \in Fields |-> IF override[f] # 0 THEN override[f] ELSE doc[f]]

\* generate: every value fresh.
generate == [f \in Fields |-> made + 1]

Values(doc) == {doc[f] : f \in Fields} \ {0}

(***************************************************************************)
(* Commands                                                                *)
(***************************************************************************)
First(kind) ==
    CASE kind \in {"init", "commit"} -> "create"
      [] kind = "validate" -> "lock"
      [] kind = "render" -> "local"
      [] kind = "apply" -> "staging"

Begin(p, kind) ==
    /\ run[p].step = "idle" /\ project = None /\ project' = p
    /\ run' = [run EXCEPT ![p] = [Idle EXCEPT !.kind = kind, !.step = First(kind)]]
    /\ UNCHANGED <<files, outside, secretsLock, counts>>

\* Prepare copies the source and its deferred unlock lets the lock go.
stageSource(p) ==
    /\ run[p].step = "staging" /\ project' = None
    /\ run' = [run EXCEPT ![p].step = "staged", ![p].staged = source]
    /\ UNCHANGED <<files, outside, secretsLock, counts>>

relock(p) ==
    /\ run[p].step = "staged" /\ project = None /\ project' = p /\ Goto(p, "lock")
    /\ UNCHANGED <<files, outside, secretsLock, counts>>

MutantWrite(file) == TRUE

\* CreateRegularWith renames without replacing.
write(file) == file = None

\* Init creates exactly one representation, or nothing when it exists.
Init(p) ==
    /\ run[p].step = "create" /\ made < MaxMade
    /\ LET target == IF run[p].kind = "init" THEN localDoc ELSE sopsDoc
       IN  IF write(target)
             THEN /\ made' = made + 1 /\ written' = written \cup Values(generate)
                  /\ IF run[p].kind = "init"
                       THEN localDoc' = generate /\ UNCHANGED sopsDoc
                       ELSE sopsDoc' = generate /\ UNCHANGED localDoc
             ELSE UNCHANGED <<localDoc, sopsDoc, made, written>>
    /\ End(p)
    /\ UNCHANGED <<ageKey, source, outside, keys, owner>>

LoadOrCreateLocal(p) ==
    /\ run[p].step = "lock" /\ secretsLock = None /\ secretsLock' = p /\ Goto(p, "local")
    /\ UNCHANGED <<files, outside, project, counts>>

\* What a load is for: ensured for a command, or read again for the handoff.
Loaded(p, doc) ==
    IF run[p].kind = "validate" THEN End(p)
    ELSE LET next == IF run[p].kind = "render" THEN "agekey"
                     ELSE IF run[p].phase = "first" THEN "seed" ELSE "bootstrap"
         IN  /\ run' = [run EXCEPT ![p].step = next, ![p].doc = doc, ![p].over = None]
             /\ secretsLock' = (IF secretsLock = p THEN None ELSE secretsLock)
             /\ UNCHANGED project

\* Load reads the override first; a complete one is the whole answer.
readLocal(p) ==
    /\ run[p].step = "local"
    /\ CASE localDoc = Broken -> End(p)
         [] localDoc = None -> Goto(p, "sops") /\ UNCHANGED <<project, secretsLock>>
         [] OTHER -> \/ Valid(localDoc) /\ Loaded(p, localDoc)
                     \/ /\ ~ Valid(localDoc)
                        /\ run' = [run EXCEPT ![p].step = "sops", ![p].over = localDoc]
                        /\ UNCHANGED <<project, secretsLock>>
    /\ UNCHANGED <<files, outside, counts>>

Ensures(p) == run[p].kind \in {"validate", "apply"} /\ run[p].phase = "first"

\* Then the committed document, overlaid; only a double absence is ErrNotFound.
readSOPS(p) ==
    /\ run[p].step = "sops"
    /\ LET override == IF run[p].over = None THEN Empty ELSE run[p].over
       IN  CASE sopsDoc = None /\ run[p].over = None /\ Ensures(p) ->
                    Goto(p, "generate") /\ UNCHANGED <<project, secretsLock>>
             [] sopsDoc \in Docs /\ Valid(applyOverride(sopsDoc, override)) ->
                    Loaded(p, applyOverride(sopsDoc, override))
             [] OTHER -> End(p)
    /\ UNCHANGED <<files, outside, counts>>

\* The override is created; one that appeared meanwhile is loaded instead.
createLocal(p) ==
    /\ run[p].step = "generate" /\ made < MaxMade
    /\ \/ /\ write(localDoc)
          /\ localDoc' = generate /\ made' = made + 1
          /\ written' = written \cup Values(generate)
          /\ Loaded(p, generate)
       \/ ~ write(localDoc) /\ Goto(p, "local") /\ UNCHANGED <<localDoc, made, written, project, secretsLock>>
    /\ UNCHANGED <<sopsDoc, ageKey, source, outside, keys, owner>>

(***************************************************************************)
(* The Flux source                                                         *)
(***************************************************************************)
\* The stored identity, or one created now.
EnsureFluxAgeIdentity ==
    \/ ageKey # 0 /\ UNCHANGED <<ageKey, keys>>
    \/ ageKey = 0 /\ keys < MaxKeys /\ keys' = keys + 1 /\ ageKey' = keys + 1

renderIdentity(p) ==
    /\ run[p].step = "agekey" /\ EnsureFluxAgeIdentity
    /\ run' = [run EXCEPT ![p].step = "write", ![p].key = ageKey']
    /\ UNCHANGED <<localDoc, sopsDoc, source, outside, project, secretsLock, made, written, owner>>

\* The stateful projection is derived from the seed alone: the same seed, the same
\* digest.  The CA digest is that of the certificate.
DeriveStatefulProjection(doc) == doc["seed"]
RootCADigest(doc) == doc["cert"]

\* The digest an encrypted member carries.
Digest(doc, member) ==
    CASE member = "config" -> 0
      [] member = "seed" -> DeriveStatefulProjection(doc)
      [] member = "ca" -> RootCADigest(doc)

Rendered(doc, key) == [m \in MemberSet |-> [of |-> Digest(doc, m), to |-> key]]

\* RenderFluxSource writes one member after the other, each atomically.
RenderFluxSource(p) ==
    /\ run[p].step = "write"
    /\ LET member == Members[run[p].member]
       IN  source' = [source EXCEPT ![member] = Rendered(run[p].doc, run[p].key)[member]]
    /\ \/ run[p].member = 3 /\ End(p)
       \/ /\ run[p].member < 3 /\ run' = [run EXCEPT ![p].member = @ + 1]
          /\ UNCHANGED <<project, secretsLock>>
    /\ UNCHANGED <<localDoc, sopsDoc, ageKey, outside, counts>>

\* Every member carries the digest of these credentials and this recipient.
ValidateFluxSource(src, doc, key) == src = Rendered(doc, key)

(***************************************************************************)
(* Apply                                                                   *)
(***************************************************************************)
\* Seed validates the staged source against the ensured credentials first.
Seed(p) ==
    /\ run[p].step = "seed" /\ EnsureFluxAgeIdentity
    /\ IF ValidateFluxSource(run[p].staged, run[p].doc, ageKey')
         THEN /\ main' = run[p].staged /\ Goto(p, "converge")
              /\ UNCHANGED <<project, secretsLock>>
         ELSE End(p) /\ UNCHANGED main
    /\ UNCHANGED <<localDoc, sopsDoc, source, nodes, clusterKey, made, written, owner>>

\* Kubespray installs the CA of the handoff; the credentials are read again after it.
converge(p) ==
    /\ run[p].step = "converge" /\ nodes' = run[p].doc["cert"]
    /\ run' = [run EXCEPT ![p].step = "local", ![p].phase = "handoff", ![p].doc = None]
    /\ UNCHANGED <<files, main, clusterKey, project, secretsLock, counts>>

MutantBootstrapFlux(p) ==
    /\ run[p].step = "bootstrap" /\ EnsureFluxAgeIdentity
    /\ run' = [run EXCEPT ![p].step = "project", ![p].key = ageKey']
    /\ UNCHANGED <<localDoc, sopsDoc, source, outside, project, secretsLock, made, written, owner>>

bootstrapFlux(p) ==
    /\ run[p].step = "bootstrap" /\ EnsureFluxAgeIdentity
    /\ IF ValidateFluxSource(run[p].staged, run[p].doc, ageKey')
         THEN /\ run' = [run EXCEPT ![p].step = "project", ![p].key = ageKey']
              /\ UNCHANGED <<project, secretsLock>>
         ELSE End(p)
    /\ UNCHANGED <<localDoc, sopsDoc, source, outside, made, written, owner>>

ProjectKey(p) ==
    /\ run[p].step = "project" /\ clusterKey' = run[p].key /\ Goto(p, "applied")
    /\ UNCHANGED <<files, main, nodes, project, secretsLock, counts>>

finishApply(p) ==
    /\ run[p].step = "applied" /\ End(p)
    /\ UNCHANGED <<files, outside, counts>>

(***************************************************************************)
(* Interruptions and the owner                                             *)
(***************************************************************************)
Event == owner < MaxOwner /\ owner' = owner + 1

Interrupt(p) ==
    /\ run[p].step # "idle" /\ Event /\ End(p)
    /\ UNCHANGED <<files, outside, made, keys, written>>

\* The owner puts a field of their own into the override, damages or removes it.
EditLocal ==
    /\ Event
    /\ \/ /\ made < MaxMade /\ made' = made + 1 /\ written' = written \cup {made + 1}
          /\ LET before == IF localDoc \in {None, Broken} THEN Empty ELSE localDoc
             IN  \E fields \in {{"seed"}, {"cert"}, {"cert", "key"}, Fields} :
                    localDoc' = [f \in Fields |-> IF f \in fields THEN made + 1 ELSE before[f]]
       \/ localDoc' \in {None, Broken} /\ UNCHANGED <<made, written>>
    /\ UNCHANGED <<sopsDoc, ageKey, source, outside, project, secretsLock, run, keys>>

RemoveSOPS ==
    /\ Event /\ sopsDoc # None /\ sopsDoc' \in {None, Broken}
    /\ UNCHANGED <<localDoc, ageKey, source, outside, project, secretsLock, run, made, keys, written>>

\* The ignored state directory is cleared.
WipeState ==
    /\ Event /\ ageKey # 0 /\ ageKey' = 0
    /\ UNCHANGED <<localDoc, sopsDoc, source, outside, project, secretsLock, run, made, keys, written>>

\* A member of the tracked source is restored to what is published.
RestoreMember ==
    /\ Event /\ \E m \in MemberSet : source' = [source EXCEPT ![m] = main[m]]
    /\ UNCHANGED <<localDoc, sopsDoc, ageKey, outside, project, secretsLock, run, made, keys, written>>

Step(p) ==
    \/ stageSource(p) \/ relock(p) \/ Init(p) \/ LoadOrCreateLocal(p) \/ readLocal(p)
    \/ readSOPS(p) \/ createLocal(p) \/ renderIdentity(p) \/ RenderFluxSource(p) \/ Seed(p)
    \/ converge(p) \/ bootstrapFlux(p) \/ ProjectKey(p) \/ finishApply(p)

Owner == EditLocal \/ RemoveSOPS \/ WipeState \/ RestoreMember

CredNext ==
    \/ \E p \in Commands : Step(p) \/ Interrupt(p) \/ \E kind \in Runs[p] : Begin(p, kind)
    \/ Owner

\* A command that runs goes on, a command that polls for the project lock gets it in
\* one of the gaps between the others, and the owner comes back to render and apply.
CredFairness ==
    \A p \in Commands :
       /\ WF_credVars(Step(p)) /\ SF_credVars(relock(p))
       /\ \A kind \in Runs[p] \cap {"render", "apply"} : SF_credVars(Begin(p, kind))

CredSpec == CredInit /\ [][CredNext]_credVars /\ CredFairness

(***************************************************************************)
(* Properties                                                              *)
(***************************************************************************)
\* The state is well formed, and only holders of the project lock are inside.
CredTypeOK ==
    /\ localDoc \in {None, Broken} \cup Docs /\ sopsDoc \in {None, Broken} \cup Docs
    /\ ageKey \in 0 .. keys /\ keys \in 0 .. MaxKeys /\ made \in 0 .. MaxMade
    /\ source \in [MemberSet -> Entries] /\ main \in [MemberSet -> Entries]
    /\ \A p \in Commands :
          /\ run[p].step \in Steps /\ run[p].kind \in Kinds
          /\ run[p].step \notin {"idle", "staged"} => project = p
          /\ run[p].step \in {"seed", "bootstrap", "write"} => run[p].doc \in Docs

\* "Atum will not rotate live platform credentials during initialization": no
\* command replaces a document or an age identity that exists; only the owner does.
NeverRotates ==
    [][owner' = owner =>
          /\ localDoc # None => localDoc' = localDoc
          /\ sopsDoc # None => sopsDoc' = sopsDoc
          /\ ageKey # 0 => ageKey' = ageKey]_credVars

\* A half-rendered source is never published, nor one that mixes recipients or
\* credentials, although members are written one by one and staged unlocked.
PublishedIsWhole ==
    main = Unrendered \/ \E p \in 1 .. keys, s \in written, c \in written :
        main = [config |-> [of |-> 0, to |-> p], seed |-> [of |-> s, to |-> p],
                ca |-> [of |-> c, to |-> p]]

\* When an apply succeeds, the key in the cluster decrypts every published member
\* and the nodes trust the CA that the source carries, although credentials and
\* age key are read twice, before and after the long convergence.
AppliedAgrees ==
    \A p \in Commands : run[p].step = "applied" =>
        /\ \A m \in MemberSet : main[m].to = clusterKey
        /\ main["ca"].of = nodes

\* Whatever was interrupted, lost or restored: once the stored credentials stay
\* loadable, render and apply succeed again and again.
Loadable ==
    LET override == IF localDoc = None THEN Empty ELSE localDoc
    IN  /\ localDoc # Broken /\ sopsDoc # Broken
        /\ \/ localDoc = None /\ sopsDoc = None
           \/ localDoc # None /\ Valid(localDoc)
           \/ sopsDoc # None /\ Valid(applyOverride(sopsDoc, override))
Rerunnable == Loadable /\ made < MaxMade /\ keys < MaxKeys
Applied == \E p \in Commands : run[p].step = "applied"
RerunsSucceed == <>[]Rerunnable => []<>Applied
=============================================================================
