--------------------------- MODULE ImageAdmission ---------------------------
(***************************************************************************)
(* How pulls decide what is delivered for each image, one pull after       *)
(* another: admitFinalRenderedImages of cli/update/image_admission.go with *)
(* the receipts that LoadUpdateInput of cli/config/config.go takes from    *)
(* the committed state, and refreshMirrorDigests of image_mapping.go.  An  *)
(* official image that satisfies every contract of the final render is     *)
(* mirrored by digest; one that does not is built, with the evidence       *)
(* recorded.  Upstream moves its tags, charts and values change the        *)
(* contracts, and the OCI layouts that deliveries leave in the cache come  *)
(* and go.                                                                 *)
(*                                                                         *)
(* A digest stands for an image and what it satisfies; a contract for the  *)
(* runtime contract (its SHA-256) of a container at a rendered location.   *)
(***************************************************************************)
EXTENDS Naturals, FiniteSets

CONSTANTS Images, Configured,  \* all images; those of discovery "configuration"
          References,          \* the tagged references of upstream
          SourcesOf,           \* those that the releases of an image may name
          Digests, Contracts, Locations,
          Satisfactions,       \* which contracts the digests may satisfy
          Unused,              \* no container at a location
          Undecided,           \* an image without a result, or not yet delivered
          MaxTurns             \* changes of the world around the pulls

ASSUME AdmissionAssumption ==
    /\ Configured \subseteq Images /\ SourcesOf \in [Images -> SUBSET References]
    /\ Satisfactions \subseteq [Digests -> SUBSET Contracts] /\ Undecided \notin Digests

VARIABLES satisfies,  \* the contracts that an official image satisfies
          buildable,  \* compatibilityBuildRecipe has a recipe for the images
          tagged,       \* what a source resolves to
          published,  \* everything it has ever resolved to
          rendered,   \* the source and the uses of each image in the final render
          committed,  \* the delivery of each image in the committed state
          layouts,    \* the OCI layouts in the cache, by image and digest
          spoiled,    \* those of them that do not validate
          loaded,     \* the committed state that the pull works from
          unchanged,  \* renderContractsUnchanged
          phase,      \* "idle", "inspecting", "admitted"
          results,    \* what the pull found for each image
          steady,     \* the images whose source and uses are as in the last pull
          turns

admVars == <<satisfies, buildable, tagged, published, rendered, committed, layouts, spoiled, loaded,
             unchanged, phase, results, steady, turns>>

world == <<satisfies, buildable, tagged, published, rendered, layouts, spoiled, turns>>

UseSets == [Locations -> Contracts \union {Unused}]
Required(uses) == {uses[l] : l \in Locations} \ {Unused}
Mismatches(digest, uses) == Required(uses) \ satisfies[digest]
NoUse == [l \in Locations |-> Unused]

(* A configured image is no part of the render and has no contract.         *)
Renders(i) ==
    [source : SourcesOf[i], uses : IF i \in Configured THEN {NoUse} ELSE UseSets \ {NoUse}]

AdmInit ==
    /\ satisfies \in Satisfactions /\ buildable \in BOOLEAN
    /\ tagged \in [References -> Digests] /\ published = [s \in References |-> {tagged[s]}]
    /\ rendered \in [Images -> UNION {Renders(i) : i \in Images}]
    /\ \A i \in Images : rendered[i] \in Renders(i)
    /\ committed = [i \in Images |-> Undecided] /\ loaded = committed
    /\ layouts = {} /\ spoiled = {} /\ unchanged = FALSE /\ phase = "idle"
    /\ results = [i \in Images |-> Undecided] /\ steady = {} /\ turns = 0

Mirror(i, digest) ==
    [type |-> "mirror", source |-> rendered[i].source, digest |-> digest,
     uses |-> rendered[i].uses, lacks |-> {}]
Rebuilt(i, digest, lacks) ==
    [type |-> "build", source |-> rendered[i].source, digest |-> digest,
     uses |-> rendered[i].uses, lacks |-> lacks]
Delivered(i, type) == loaded[i] # Undecided /\ loaded[i].type = type

----------------------------------------------------------------------------
(* LoadUpdateInput: only configured images stay in the desired state as     *)
(* previous images; the others leave receipts.                              *)

Previous(i) == i \in Configured /\ Delivered(i, "mirror")
MirrorReceipt(i) == Delivered(i, "mirror")
CompatibilityReceipt(i) == i \notin Configured /\ Delivered(i, "build")

(* renderContractsUnchanged compares versions and generated values, not the *)
(* values that an operator edits: any render may find it true.              *)
startAdmission ==
    /\ phase = "idle" /\ phase' = "inspecting"
    /\ loaded' = committed /\ unchanged' \in BOOLEAN
    /\ results' = [i \in Images |-> Undecided]
    /\ UNCHANGED <<world, committed, steady>>

Inspecting(i) == phase = "inspecting" /\ results[i] = Undecided
Finds(i, result) ==
    /\ results' = [results EXCEPT ![i] = result]
    /\ UNCHANGED <<world, committed, loaded, unchanged, phase, steady>>

reusableMirrorDigest(i) ==
    unchanged /\ Previous(i) /\ loaded[i].source = rendered[i].source

MutantCompatibilityObservationsMatch(i) ==
    \A l \in Locations : rendered[i].uses[l] \in {loaded[i].uses[l], Unused}

compatibilityObservationsMatch(i) == rendered[i].uses = loaded[i].uses

reusableCompatibility(i) ==
    /\ CompatibilityReceipt(i) /\ loaded[i].source = rendered[i].source
    /\ compatibilityObservationsMatch(i)

openReusableOfficialImageCache(i) ==
    /\ MirrorReceipt(i) /\ loaded[i].source = rendered[i].source
    /\ <<i, loaded[i].digest>> \in layouts

(* compareOfficialCandidate and what follows from it.                       *)
Decision(i, digest) ==
    LET lacks == Mismatches(digest, rendered[i].uses)
    IN  IF lacks = {} THEN Mirror(i, digest) ELSE Rebuilt(i, digest, lacks)

(* The images are inspected concurrently, each from the nearest evidence.   *)
reuseMirror(i) ==
    Inspecting(i) /\ reusableMirrorDigest(i) /\ Finds(i, Mirror(i, loaded[i].digest))

reuseCompatibility(i) ==
    /\ Inspecting(i) /\ ~reusableMirrorDigest(i) /\ reusableCompatibility(i)
    /\ Finds(i, Rebuilt(i, loaded[i].digest, loaded[i].lacks))

inspectCached(i) ==
    /\ Inspecting(i) /\ ~reusableMirrorDigest(i) /\ ~reusableCompatibility(i)
    /\ openReusableOfficialImageCache(i) /\ <<i, loaded[i].digest>> \notin spoiled
    /\ Finds(i, Decision(i, loaded[i].digest))

inspectOfficialCandidate(i) ==
    /\ Inspecting(i) /\ ~reusableMirrorDigest(i) /\ ~reusableCompatibility(i)
    /\ ~openReusableOfficialImageCache(i)
    /\ Finds(i, Decision(i, tagged[rendered[i].source]))

Abandons ==
    /\ phase' = "idle" /\ results' = [i \in Images |-> Undecided] /\ unchanged' = FALSE
    /\ UNCHANGED <<world, committed, loaded, steady>>

(* A layout that does not validate, or a registry that does not answer.     *)
inspectFails(i) ==
    /\ Inspecting(i) /\ ~reusableMirrorDigest(i) /\ ~reusableCompatibility(i)
    /\ Abandons

(* The join of the group: every mismatch needs a recipe.                    *)
admitFinalRenderedImages ==
    /\ phase = "inspecting" /\ \A i \in Images : results[i] # Undecided
    /\ IF buildable \/ \A i \in Images : results[i].type = "mirror"
       THEN /\ phase' = "admitted"
            /\ UNCHANGED <<world, committed, loaded, unchanged, results, steady>>
       ELSE Abandons

(* Only a mirror without a digest is resolved, to its pinned digest or to   *)
(* its tag: an inspected digest is kept although its tag may have moved.    *)
refreshMirrorDigests(i) ==
    IF results[i].type # "mirror" \/ results[i].digest # Undecided THEN results[i]
    ELSE [results[i] EXCEPT !.digest =
            IF Previous(i) /\ loaded[i].source = results[i].source THEN loaded[i].digest ELSE tagged[results[i].source]]

commitImages ==
    /\ phase = "admitted" /\ phase' = "idle"
    /\ committed' = [i \in Images |-> refreshMirrorDigests(i)]
    /\ steady' = {i \in Images : results[i].digest = tagged[results[i].source]}
    /\ results' = [i \in Images |-> Undecided] /\ loaded' = committed' /\ unchanged' = FALSE
    /\ UNCHANGED world

----------------------------------------------------------------------------
(* The world.                                                               *)

Turn == turns < MaxTurns /\ turns' = turns + 1

MoveTag(s) ==
    /\ Turn /\ tagged' \in [References -> Digests]
    /\ \A r \in References : (r = s) = (tagged'[r] # tagged[r])
    /\ published' = [published EXCEPT ![s] = @ \union {tagged'[s]}]
    /\ steady' = {i \in steady : rendered[i].source # s}
    /\ UNCHANGED <<satisfies, buildable, rendered, committed, layouts, spoiled, loaded, unchanged,
                   phase, results>>

(* Another chart release, or an edit of the values, between two pulls.      *)
Rerender(i) ==
    /\ Turn /\ phase = "idle"
    /\ rendered' \in {[rendered EXCEPT ![i] = r] : r \in Renders(i) \ {rendered[i]}}
    /\ steady' = steady \ {i}
    /\ UNCHANGED <<satisfies, buildable, tagged, published, committed, layouts, spoiled, loaded,
                   unchanged, phase, results>>

(* A delivery leaves its mirrors in the cache; layouts are lost or spoiled. *)
FillCache ==
    /\ Turn /\ phase = "idle"
    /\ layouts' = layouts \union {<<i, committed[i].digest>> :
                     i \in {j \in Images : committed[j] # Undecided /\ committed[j].type = "mirror"}}
    /\ layouts' # layouts
    /\ UNCHANGED <<satisfies, buildable, tagged, published, rendered, committed, spoiled, loaded,
                   unchanged, phase, results, steady>>

LoseCache ==
    /\ Turn /\ layouts # {}
    /\ \/ layouts' = {} /\ spoiled' = {}
       \/ layouts' = layouts /\ spoiled' = layouts /\ spoiled # layouts
    /\ UNCHANGED <<satisfies, buildable, tagged, published, rendered, committed, loaded, unchanged,
                   phase, results, steady>>

AdmStep ==
    \/ startAdmission \/ admitFinalRenderedImages \/ commitImages
    \/ \E i \in Images : \/ reuseMirror(i) \/ reuseCompatibility(i) \/ inspectCached(i)
                         \/ inspectOfficialCandidate(i) \/ inspectFails(i)

AdmNext ==
    \/ AdmStep \/ FillCache \/ LoseCache
    \/ (\E s \in References : MoveTag(s)) \/ (\E i \in Images : Rerender(i))

----------------------------------------------------------------------------
(* The types of the admission.                                              *)
AdmTypeOK ==
    /\ phase \in {"idle", "inspecting", "admitted"} /\ spoiled \subseteq layouts
    /\ \A i \in Images : results[i] # Undecided =>
          /\ results[i].digest \in Digests /\ results[i].type \in {"mirror", "build"}
          /\ results[i].lacks \subseteq Contracts

(* What is committed is justified, however tags moved during the pull,      *)
(* whichever layouts were cached and whatever earlier pulls had admitted.   *)
(* A mirrored image satisfies every contract of the render it is committed  *)
(* with ("compares the effective runtime contract before admitting          *)
(* delivery").  A built one has evidence that it must be: the recorded      *)
(* official image lacks exactly what is recorded, for exactly these uses.   *)
(* The digest is one that upstream published under the committed source,    *)
(* never one that an earlier source left in a receipt.                      *)
AdmissionIsJustified ==
    \A i \in Images : committed[i] # Undecided =>
        LET image == committed[i]
            lacks == Mismatches(image.digest, image.uses)
        IN  /\ image.type = "mirror" => lacks = {}
            /\ image.type = "build" => /\ image.lacks = lacks /\ lacks # {}
                                       /\ i \notin Configured
            /\ image.digest \in published[image.source]

(* A pull that finds source, uses and tag as the last one left them decides *)
(* as the last one did, from whatever evidence it takes.                    *)
RepeatsItself ==
    commitImages => \A i \in steady : committed[i] # Undecided => committed'[i] = committed[i]

(* Image admission is sound: every decision is justified, and it stands as  *)
(* long as nothing it rests on changes.                                     *)
AdmissionIsSound == [][AdmissionIsJustified' /\ RepeatsItself]_admVars

AdmSpec == AdmInit /\ [][AdmNext]_admVars
=============================================================================
