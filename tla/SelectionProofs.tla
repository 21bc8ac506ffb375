--------------------------- MODULE SelectionProofs ---------------------------
(***************************************************************************)
(* What a pull decides to deploy, for any catalogs, candidates, images and *)
(* contracts and any number of pulls: the admission of official images and *)
(* the selection of the chart releases.                                    *)
(***************************************************************************)
EXTENDS ChartSelection, ImageAdmission, SequenceTheorems, TLAPS

----------------------------------------------------------------------------
(***************************************************************************)
(* The admission of images.  A decision is justified by the digest it pinned *)
(* and the uses it was made for; between pulls it stays justified because  *)
(* references keep what was published (WorldInv), and a pull that finds the *)
(* world as it was decides as it did (SteadyInv).                          *)
(***************************************************************************)

(* A decision about an image, and what justifies it. *)
Delivery == [type : {"mirror", "build"}, source : References, digest : Digests, uses : UseSets,
             lacks : SUBSET Contracts]
Justified(i, d) ==
  /\ d \in Delivery /\ d.digest \in published[d.source]
  /\ d.type = "mirror" => d.lacks = {} /\ Mismatches(d.digest, d.uses) = {}
  /\ d.type = "build" => d.lacks # {} /\ d.lacks = Mismatches(d.digest, d.uses) /\ i \notin Configured
ForRender(i, d) == d.source = rendered[i].source /\ d.uses = rendered[i].uses

(* What the world gives, what is decided, and what rests on a steady image. *)
WorldInv ==
  /\ satisfies \in [Digests -> SUBSET Contracts]
  /\ tagged \in [References -> Digests] /\ published \in [References -> SUBSET Digests]
  /\ \A s \in References : tagged[s] \in published[s]
  /\ DOMAIN rendered = Images /\ \A i \in Images : rendered[i] \in Renders(i)
DecisionInv ==
  /\ loaded = committed /\ DOMAIN results = Images
  /\ \A i \in Images : committed[i] # Undecided => Justified(i, committed[i])
  /\ \A i \in Images : results[i] # Undecided =>
        phase # "idle" /\ Justified(i, results[i]) /\ ForRender(i, results[i])
SteadyInv ==
  /\ steady \subseteq Images
  /\ \A i \in steady : committed[i] # Undecided =>
        /\ ForRender(i, committed[i]) /\ committed[i].digest = tagged[committed[i].source]
        /\ results[i] # Undecided => results[i].digest = committed[i].digest
JoinInv == phase = "admitted" => \A i \in Images : results[i] # Undecided
AdmInv == WorldInv /\ DecisionInv /\ SteadyInv /\ JoinInv

LEMMA Otherwise == \A a, b, x, y : (a = b) = (x # y) => (a # b => x = y)
BY SMTT(30)

(* What a render asks for; a configured image asks for nothing. *)
LEMMA RenderFacts ==
  ASSUME WorldInv, NEW i \in Images
  PROVE  /\ rendered[i].source \in References /\ rendered[i].uses \in UseSets
         /\ i \in Configured => rendered[i].uses = NoUse
<1>1. SourcesOf[i] \subseteq References
  BY Zenon, AdmissionAssumption
<1>2. rendered[i] \in Renders(i)
  BY Zenon DEF WorldInv
<1>3. rendered[i].source \in SourcesOf[i] /\ rendered[i].uses \in IF i \in Configured THEN {NoUse} ELSE UseSets \ {NoUse}
  BY Zenon, <1>2 DEF Renders
<1>4. NoUse \in UseSets
  BY Zenon DEF NoUse, UseSets
<1> QED
  BY Zenon, <1>1, <1>3, <1>4

LEMMA NothingRequired == \A d : Mismatches(d, NoUse) = {}
BY Zenon DEF Mismatches, Required, NoUse

LEMMA LacksContracts ==
  ASSUME NEW d, NEW uses \in UseSets
  PROVE  Mismatches(d, uses) \subseteq Contracts
BY Zenon DEF Mismatches, Required, UseSets

(* The fields of the two decisions. *)
LEMMA MirrorFields ==
  ASSUME NEW i, NEW d
  PROVE  /\ Mirror(i, d).type = "mirror" /\ Mirror(i, d).source = rendered[i].source
         /\ Mirror(i, d).digest = d /\ Mirror(i, d).uses = rendered[i].uses /\ Mirror(i, d).lacks = {}
BY SMTT(30) DEF Mirror

LEMMA BuildFields ==
  \A i, d, l :
         /\ Rebuilt(i, d, l).type = "build" /\ Rebuilt(i, d, l).source = rendered[i].source
         /\ Rebuilt(i, d, l).digest = d /\ Rebuilt(i, d, l).uses = rendered[i].uses /\ Rebuilt(i, d, l).lacks = l
BY SMTT(30) DEF Rebuilt

LEMMA DeliveryRecords ==
  ASSUME NEW R, NEW D, NEW U, NEW C, NEW r \in R, NEW d \in D, NEW u \in U, NEW l \in SUBSET C
  PROVE  /\ [type |-> "mirror", source |-> r, digest |-> d, uses |-> u, lacks |-> {}]
              \in [type : {"mirror", "build"}, source : R, digest : D, uses : U, lacks : SUBSET C]
         /\ [type |-> "build", source |-> r, digest |-> d, uses |-> u, lacks |-> l]
              \in [type : {"mirror", "build"}, source : R, digest : D, uses : U, lacks : SUBSET C]
BY SMTT(30)

LEMMA DecisionTypes ==
  ASSUME WorldInv, NEW i \in Images, NEW d \in Digests, NEW l \in SUBSET Contracts
  PROVE  Mirror(i, d) \in Delivery /\ Rebuilt(i, d, l) \in Delivery
<1>1. rendered[i].source \in References /\ rendered[i].uses \in UseSets
  BY Zenon, RenderFacts
<1> QED
  BY Zenon, <1>1, DeliveryRecords DEF Mirror, Rebuilt, Delivery

(* A mirror is justified by a digest that lacks nothing, a build by what it lacks. *)
LEMMA MirrorJustified ==
  ASSUME WorldInv, NEW i \in Images, NEW d \in published[rendered[i].source],
         Mismatches(d, rendered[i].uses) = {}
  PROVE  Justified(i, Mirror(i, d)) /\ ForRender(i, Mirror(i, d)) /\ Mirror(i, d).digest = d
<1>1. d \in Digests /\ {} \in SUBSET Contracts
  BY Zenon, RenderFacts DEF WorldInv
<1>2. Mirror(i, d) \in Delivery
  BY Zenon, <1>1, DecisionTypes
<1>3. /\ Mirror(i, d).type = "mirror" /\ Mirror(i, d).source = rendered[i].source
      /\ Mirror(i, d).digest = d /\ Mirror(i, d).uses = rendered[i].uses /\ Mirror(i, d).lacks = {}
  BY Zenon, MirrorFields
<1>4. "mirror" # "build"
  BY Zenon
<1> QED
  BY Zenon, <1>2, <1>3, <1>4 DEF Justified, ForRender

LEMMA BuildJustified ==
  ASSUME WorldInv, NEW i \in Images, NEW d \in published[rendered[i].source],
         NEW l, l # {}, Mismatches(d, rendered[i].uses) = l
  PROVE  Justified(i, Rebuilt(i, d, l)) /\ ForRender(i, Rebuilt(i, d, l)) /\ Rebuilt(i, d, l).digest = d
<1>1. d \in Digests /\ l \in SUBSET Contracts
  BY Zenon, RenderFacts, LacksContracts DEF WorldInv
<1>2. Rebuilt(i, d, l) \in Delivery
  BY Zenon, <1>1, DecisionTypes
<1>3. /\ Rebuilt(i, d, l).type = "build" /\ Rebuilt(i, d, l).source = rendered[i].source
      /\ Rebuilt(i, d, l).digest = d /\ Rebuilt(i, d, l).uses = rendered[i].uses /\ Rebuilt(i, d, l).lacks = l
  BY SMTT(30) DEF Rebuilt
<1>4. "mirror" # "build" /\ i \notin Configured
  BY Zenon, RenderFacts, NothingRequired
<1> QED
  BY Zenon, <1>2, <1>3, <1>4 DEF Justified, ForRender

LEMMA DecisionJustified ==
  ASSUME WorldInv, NEW i \in Images, NEW d \in published[rendered[i].source]
  PROVE  Justified(i, Decision(i, d)) /\ ForRender(i, Decision(i, d)) /\ Decision(i, d).digest = d
BY Zenon, MirrorJustified, BuildJustified DEF Decision

(* Source, uses and digest determine a justified decision. *)
LEMMA Determined ==
  ASSUME NEW i, NEW d, NEW e, Justified(i, d), Justified(i, e),
         d.source = e.source, d.uses = e.uses, d.digest = e.digest
  PROVE  d = e
<1>1. d \in Delivery /\ e \in Delivery
  BY Zenon DEF Justified
<1>2. d.type \in {"mirror", "build"} /\ e.type \in {"mirror", "build"}
  BY Zenon, <1>1 DEF Delivery
<1>3. d.type = e.type /\ d.lacks = e.lacks
  BY Zenon, <1>2 DEF Justified
<1> QED
  BY SMTT(30), <1>1, <1>3 DEF Delivery

(* A decision stays justified while tags move. *)
LEMMA JustifiedKept ==
  ASSUME UNCHANGED satisfies, WorldInv, \A s \in References : published[s] \subseteq published'[s],
         NEW i, NEW d, Justified(i, d)
  PROVE  Justified(i, d)'
<1>1. d.source \in References
  BY Zenon DEF Justified, Delivery
<1> QED
  BY Zenon, <1>1 DEF Justified, Mismatches

(* What does not touch the world or the decisions. *)
LEMMA WorldKept ==
  ASSUME WorldInv, UNCHANGED <<satisfies, tagged, published, rendered>>
  PROVE  WorldInv'
BY Zenon DEF WorldInv, Renders

LEMMA DecisionsKept ==
  ASSUME WorldInv, DecisionInv, UNCHANGED <<satisfies, committed, loaded>>,
         \A s \in References : published[s] \subseteq published'[s],
         DOMAIN results' = Images,
         \A i \in Images : results'[i] # Undecided =>
            /\ results'[i] = results[i] \/ Justified(i, results'[i])
            /\ phase' # "idle" /\ ForRender(i, results[i])'
  PROVE  DecisionInv'
<1>1. ASSUME NEW i \in Images, committed'[i] # Undecided
      PROVE  Justified(i, committed[i])'
  <2>1. PICK d : d = committed[i]
    BY Zenon
  <2>2. Justified(i, d)
    BY Zenon, <1>1, <2>1 DEF DecisionInv
  <2>3. Justified(i, d)'
    BY Zenon, <2>2, JustifiedKept
  <2> QED
    BY Zenon, <2>1, <2>3 DEF Justified
<1>2. ASSUME NEW i \in Images, results'[i] # Undecided
      PROVE  Justified(i, results[i])'
  <2>1. PICK d : d = results'[i]
    BY Zenon
  <2>2. Justified(i, d)
    BY Zenon, <1>2, <2>1 DEF DecisionInv
  <2>3. Justified(i, d)'
    BY Zenon, <2>2, JustifiedKept
  <2> QED
    BY Zenon, <2>1, <2>3 DEF Justified
<1> QED
  BY Zenon, <1>1, <1>2 DEF DecisionInv

(* A justified finding for the render, of the digest of a steady image. *)
LEMMA Found ==
  ASSUME AdmInv, NEW i \in Images, NEW d, Inspecting(i), Finds(i, d), Justified(i, d), ForRender(i, d),
         i \in steady /\ committed[i] # Undecided => d.digest = committed[i].digest
  PROVE  AdmInv'
<1>1. /\ results' = [results EXCEPT ![i] = d] /\ phase = "inspecting"
      /\ UNCHANGED <<satisfies, tagged, published, rendered, committed, loaded, phase, steady>>
  BY Zenon DEF Finds, Inspecting, world
<1>2. DOMAIN results' = Images /\ results'[i] = d /\ \A j \in Images : j # i => results'[j] = results[j]
  BY Zenon, <1>1 DEF AdmInv, DecisionInv
<1>3. WorldInv'
  BY Zenon, <1>1, WorldKept DEF AdmInv
<1>4. DecisionInv'
  <2>1. \A j \in Images : results'[j] # Undecided =>
            /\ results'[j] = results[j] \/ Justified(j, results'[j])
            /\ phase' # "idle" /\ ForRender(j, results[j])'
    BY Zenon, <1>1, <1>2 DEF AdmInv, DecisionInv, ForRender
  <2>2. \A s \in References : published[s] \subseteq published'[s]
    BY Zenon, <1>1
  <2> QED
    BY Zenon, <1>1, <1>2, <2>1, <2>2, DecisionsKept DEF AdmInv
<1>5. SteadyInv'
  <2> SUFFICES ASSUME NEW j \in steady, committed[j] # Undecided
               PROVE  /\ ForRender(j, committed[j])' /\ committed[j].digest = tagged[committed[j].source]
                      /\ results'[j] # Undecided => results'[j].digest = committed[j].digest
    BY Zenon, <1>1 DEF SteadyInv, AdmInv
  <2>1. /\ ForRender(j, committed[j]) /\ committed[j].digest = tagged[committed[j].source] /\ j \in Images
        /\ results[j] # Undecided => results[j].digest = committed[j].digest
    BY Zenon DEF SteadyInv, AdmInv
  <2>2. ForRender(j, committed[j])'
    BY Zenon, <1>1, <2>1 DEF ForRender
  <2> QED
    BY Zenon, <1>2, <2>1, <2>2
<1>6. JoinInv'
  BY Zenon, <1>1 DEF JoinInv
<1> QED
  BY Zenon, <1>3, <1>4, <1>5, <1>6 DEF AdmInv

(* A step that forgets the findings, and commits nothing. *)
LEMMA Forgotten ==
  ASSUME AdmInv, results' = [i \in Images |-> Undecided], loaded' = committed,
         phase' # "admitted", UNCHANGED <<satisfies, tagged, published, rendered, committed, steady>>
  PROVE  AdmInv'
<1>1. DOMAIN results' = Images /\ \A i \in Images : results'[i] = Undecided
  BY Zenon
<1>2. WorldInv'
  BY Zenon, WorldKept DEF AdmInv
<1>3. DecisionInv'
  <2>1. \A s \in References : published[s] \subseteq published'[s]
    BY Zenon
  <2>2. UNCHANGED loaded
    BY Zenon DEF AdmInv, DecisionInv
  <2> QED
    BY Zenon, <1>1, <2>1, <2>2, DecisionsKept DEF AdmInv
<1>4. SteadyInv'
  BY Zenon, <1>1 DEF AdmInv, SteadyInv, ForRender
<1> QED
  BY Zenon, <1>2, <1>3, <1>4 DEF AdmInv, JoinInv

(* A finding is committed as it is: every digest is known by then. *)
LEMMA Commits ==
  ASSUME AdmInv, commitImages, NEW i \in Images
  PROVE  /\ results[i] # Undecided /\ committed'[i] = results[i]
         /\ Justified(i, results[i]) /\ ForRender(i, results[i])
<1>1. results[i] # Undecided
  BY Zenon DEF AdmInv, JoinInv, commitImages
<1>2. Justified(i, results[i]) /\ ForRender(i, results[i])
  BY Zenon, <1>1 DEF AdmInv, DecisionInv
<1>3. results[i].digest # Undecided
  BY Zenon, <1>2, AdmissionAssumption DEF Justified, Delivery
<1>4. committed'[i] = refreshMirrorDigests(i)
  BY Zenon DEF commitImages
<1> QED
  BY Zenon, <1>1, <1>2, <1>3, <1>4 DEF refreshMirrorDigests

LEMMA AdmStepInv == AdmInv /\ [AdmNext]_admVars => AdmInv'
<1> SUFFICES ASSUME AdmInv, [AdmNext]_admVars
             PROVE  AdmInv'
  OBVIOUS
<1>0. WorldInv /\ DecisionInv /\ SteadyInv /\ JoinInv
  BY Zenon DEF AdmInv
<1>1. CASE startAdmission
  BY Zenon, <1>1, Forgotten DEF startAdmission, world
<1>2. ASSUME Abandons
      PROVE  AdmInv'
  <2>1. loaded' = committed
    BY Zenon, <1>0, <1>2 DEF Abandons, DecisionInv
  <2> QED
    BY Zenon, <1>2, <2>1, Forgotten DEF Abandons, world
<1>3. ASSUME NEW i \in Images, reuseMirror(i)
      PROVE  AdmInv'
  <2> DEFINE d == loaded[i].digest
  <2>1. /\ i \in Configured /\ loaded[i] # Undecided /\ loaded[i] = committed[i]
        /\ loaded[i].source = rendered[i].source
    BY Zenon, <1>0, <1>3 DEF reuseMirror, reusableMirrorDigest, Previous, Delivered, DecisionInv
  <2>2. Justified(i, loaded[i])
    BY Zenon, <1>0, <2>1 DEF DecisionInv
  <2>3. d \in published[rendered[i].source]
    BY Zenon, <2>1, <2>2 DEF Justified
  <2>4. Mismatches(d, rendered[i].uses) = {}
    BY Zenon, <1>0, <2>1, RenderFacts, NothingRequired
  <2>5. Inspecting(i) /\ Finds(i, Mirror(i, d))
    BY Zenon, <1>3 DEF reuseMirror
  <2> HIDE DEF d
  <2>6. Justified(i, Mirror(i, d)) /\ ForRender(i, Mirror(i, d)) /\ Mirror(i, d).digest = d
    BY Zenon, <1>0, <2>3, <2>4, MirrorJustified
  <2>7. d = committed[i].digest
    BY Zenon, <2>1 DEF d
  <2> QED
    BY Zenon, <2>5, <2>6, <2>7, Found
<1>4. ASSUME NEW i \in Images, reuseCompatibility(i)
      PROVE  AdmInv'
  <2> DEFINE d == loaded[i].digest
             l == loaded[i].lacks
  <2>1. /\ loaded[i] # Undecided /\ loaded[i] = committed[i] /\ loaded[i].type = "build"
        /\ loaded[i].source = rendered[i].source /\ rendered[i].uses = loaded[i].uses
    BY Zenon, <1>0, <1>4 DEF reuseCompatibility, reusableCompatibility, CompatibilityReceipt, Delivered,
       compatibilityObservationsMatch, DecisionInv
  <2>2. Justified(i, loaded[i])
    BY Zenon, <1>0, <2>1 DEF DecisionInv
  <2>3. d \in published[rendered[i].source]
    BY Zenon, <2>1, <2>2 DEF Justified
  <2>4. Mismatches(d, rendered[i].uses) = l /\ l # {}
    BY Zenon, <2>1, <2>2 DEF Justified
  <2>5. Inspecting(i) /\ Finds(i, Rebuilt(i, d, l))
    BY Zenon, <1>4 DEF reuseCompatibility
  <2>7. d = committed[i].digest
    BY Zenon, <2>1
  <2> HIDE DEF d, l
  <2>6. Justified(i, Rebuilt(i, d, l)) /\ ForRender(i, Rebuilt(i, d, l)) /\ Rebuilt(i, d, l).digest = d
    BY Zenon, <1>0, <2>3, <2>4, BuildJustified
  <2> QED
    BY Zenon, <2>5, <2>6, <2>7, Found
<1>5. ASSUME NEW i \in Images, inspectCached(i)
      PROVE  AdmInv'
  <2> DEFINE d == loaded[i].digest
  <2>1. /\ loaded[i] # Undecided /\ loaded[i] = committed[i]
        /\ loaded[i].source = rendered[i].source
    BY Zenon, <1>0, <1>5 DEF inspectCached, openReusableOfficialImageCache, MirrorReceipt, Delivered, DecisionInv
  <2>2. Justified(i, loaded[i])
    BY Zenon, <1>0, <2>1 DEF DecisionInv
  <2>3. d \in published[rendered[i].source] /\ d = committed[i].digest
    BY Zenon, <2>1, <2>2 DEF Justified
  <2>4. Inspecting(i) /\ Finds(i, Decision(i, d))
    BY Zenon, <1>5 DEF inspectCached
  <2> HIDE DEF d
  <2>5. Justified(i, Decision(i, d)) /\ ForRender(i, Decision(i, d)) /\ Decision(i, d).digest = d
    BY Zenon, <1>0, <2>3, DecisionJustified
  <2> QED
    BY Zenon, <2>3, <2>4, <2>5, Found
<1>6. ASSUME NEW i \in Images, inspectOfficialCandidate(i)
      PROVE  AdmInv'
  <2> DEFINE d == tagged[rendered[i].source]
  <2>1. d \in published[rendered[i].source]
    BY Zenon, <1>0, RenderFacts DEF WorldInv
  <2>2. i \in steady /\ committed[i] # Undecided => d = committed[i].digest
    BY Zenon, <1>0 DEF SteadyInv, ForRender
  <2>3. Inspecting(i) /\ Finds(i, Decision(i, d))
    BY Zenon, <1>6 DEF inspectOfficialCandidate
  <2> HIDE DEF d
  <2>4. Justified(i, Decision(i, d)) /\ ForRender(i, Decision(i, d)) /\ Decision(i, d).digest = d
    BY Zenon, <1>0, <2>1, DecisionJustified
  <2> QED
    BY Zenon, <2>2, <2>3, <2>4, Found
<1>7. ASSUME UNCHANGED <<satisfies, tagged, published, rendered, committed, loaded, results, steady>>,
             phase' = phase \/ (phase' = "admitted" /\ \A i \in Images : results[i] # Undecided)
      PROVE  AdmInv'
  <2>1. WorldInv'
    BY Zenon, <1>0, <1>7, WorldKept
  <2>2. DecisionInv'
    <3>1. \A j \in Images : results'[j] # Undecided =>
            /\ results'[j] = results[j] \/ Justified(j, results'[j])
            /\ phase' # "idle" /\ ForRender(j, results[j])'
      BY Zenon, <1>0, <1>7 DEF DecisionInv, ForRender
    <3>2. \A s \in References : published[s] \subseteq published'[s]
      BY Zenon, <1>7
    <3>3. DOMAIN results' = Images
      BY Zenon, <1>0, <1>7 DEF DecisionInv
    <3> QED
      BY Zenon, <1>0, <1>7, <3>1, <3>2, <3>3, DecisionsKept
  <2>3. SteadyInv'
    BY Zenon, <1>0, <1>7 DEF SteadyInv, ForRender
  <2>4. JoinInv'
    BY Zenon, <1>0, <1>7 DEF JoinInv
  <2> QED
    BY Zenon, <2>1, <2>2, <2>3, <2>4 DEF AdmInv
<1>8. CASE admitFinalRenderedImages
  BY Zenon, <1>2, <1>7, <1>8 DEF admitFinalRenderedImages, world
<1>9. ASSUME NEW i \in Images, inspectFails(i)
      PROVE  AdmInv'
  BY Zenon, <1>2, <1>9 DEF inspectFails
<1>10. CASE commitImages
  <2>1. /\ phase = "admitted" /\ phase' = "idle" /\ loaded' = committed'
        /\ results' = [i \in Images |-> Undecided]
        /\ UNCHANGED <<satisfies, tagged, published, rendered>>
        /\ steady' = {i \in Images : results[i].digest = tagged[results[i].source]}
    BY Zenon, <1>10 DEF commitImages, world
  <2>2. \A i \in Images : committed'[i] = results[i] /\ Justified(i, results[i]) /\ ForRender(i, results[i])
    BY Zenon, <1>10, Commits DEF AdmInv
  <2>3. WorldInv'
    BY Zenon, <1>0, <2>1, WorldKept
  <2>4. DOMAIN results' = Images /\ \A i \in Images : results'[i] = Undecided
    BY Zenon, <2>1
  <2>5. \A i \in Images : Justified(i, committed[i])'
    BY Zenon, <2>1, <2>2 DEF Justified, Mismatches
  <2>6. DecisionInv'
    BY Zenon, <2>1, <2>4, <2>5 DEF DecisionInv
  <2>7. SteadyInv'
    BY Zenon, <2>1, <2>2, <2>4 DEF SteadyInv, ForRender
  <2>8. JoinInv'
    BY Zenon, <2>1 DEF JoinInv
  <2> QED
    BY Zenon, <2>3, <2>6, <2>7, <2>8 DEF AdmInv
<1>11. CASE FillCache \/ LoseCache \/ UNCHANGED admVars
  BY Zenon, <1>7, <1>11 DEF FillCache, LoseCache, admVars
<1>12. ASSUME NEW s \in References, MoveTag(s)
       PROVE  AdmInv'
  <2>1. /\ tagged' \in [References -> Digests] /\ steady' = {i \in steady : rendered[i].source # s}
        /\ published' = [published EXCEPT ![s] = published[s] \union {tagged'[s]}]
        /\ \A r \in References : (r = s) = (tagged'[r] # tagged[r])
        /\ UNCHANGED <<satisfies, rendered, committed, loaded, phase, results>>
    BY Zenon, <1>12 DEF MoveTag
  <2>2. /\ published' \in [References -> SUBSET Digests]
        /\ published'[s] = published[s] \union {tagged'[s]}
        /\ \A r \in References : r # s => published'[r] = published[r] /\ tagged'[r] = tagged[r]
    <3>1. \A r \in References : r # s => tagged'[r] = tagged[r]
      BY Zenon, <2>1, Otherwise
    <3>2. published \in [References -> SUBSET Digests] /\ published[s] \union {tagged'[s]} \in SUBSET Digests
      <4>1. /\ published \in [References -> SUBSET Digests] /\ published[s] \in SUBSET Digests
            /\ tagged'[s] \in Digests
        BY Zenon, <1>0, <2>1 DEF WorldInv
      <4> QED
        BY Zenon, <4>1
    <3> QED
      BY Zenon, <2>1, <3>1, <3>2
  <2>3. \A r \in References : published[r] \subseteq published'[r] /\ tagged'[r] \in published'[r]
    BY Zenon, <1>0, <2>2 DEF WorldInv
  <2>4. WorldInv'
    BY Zenon, <1>0, <2>1, <2>2, <2>3 DEF WorldInv, Renders
  <2>5. DecisionInv'
    <3>1. \A j \in Images : results'[j] # Undecided =>
            /\ results'[j] = results[j] \/ Justified(j, results'[j])
            /\ phase' # "idle" /\ ForRender(j, results[j])'
      BY Zenon, <1>0, <2>1 DEF DecisionInv, ForRender
    <3>2. DOMAIN results' = Images
      BY Zenon, <1>0, <2>1 DEF DecisionInv
    <3> QED
      BY Zenon, <1>0, <2>1, <2>3, <3>1, <3>2, DecisionsKept
  <2>6. ASSUME NEW i \in steady', committed[i] # Undecided
        PROVE  /\ ForRender(i, committed[i])' /\ committed[i].digest = tagged'[committed[i].source]
               /\ results[i] # Undecided => results[i].digest = committed[i].digest
    <3>1. i \in steady /\ i \in Images /\ rendered[i].source # s
      BY Zenon, <1>0, <2>1, <2>6 DEF SteadyInv
    <3>2. /\ ForRender(i, committed[i]) /\ committed[i].digest = tagged[committed[i].source]
          /\ results[i] # Undecided => results[i].digest = committed[i].digest
      BY Zenon, <1>0, <2>6, <3>1 DEF SteadyInv
    <3>3. committed[i].source = rendered[i].source /\ rendered[i].source \in References
      BY Zenon, <1>0, <3>1, <3>2, RenderFacts DEF ForRender
    <3> QED
      BY Zenon, <2>1, <2>2, <3>1, <3>2, <3>3 DEF ForRender
  <2>7. SteadyInv'
    BY Zenon, <1>0, <2>1, <2>6 DEF SteadyInv
  <2>8. JoinInv'
    BY Zenon, <1>0, <2>1 DEF JoinInv
  <2> QED
    BY Zenon, <2>4, <2>5, <2>7, <2>8 DEF AdmInv
<1>13. ASSUME NEW i \in Images, Rerender(i)
       PROVE  AdmInv'
  <2>1. PICK r \in Renders(i) : rendered' = [rendered EXCEPT ![i] = r]
    BY Zenon, <1>13 DEF Rerender
  <2>2. /\ phase = "idle" /\ steady' = steady \ {i}
        /\ UNCHANGED <<satisfies, tagged, published, committed, loaded, phase, results>>
    BY Zenon, <1>13 DEF Rerender
  <2>3. /\ DOMAIN rendered' = Images /\ rendered'[i] = r
        /\ \A j \in Images : j # i => rendered'[j] = rendered[j]
    BY Zenon, <1>0, <2>1 DEF WorldInv
  <2>4. \A j \in Images : rendered'[j] \in Renders(j)
    BY Zenon, <1>0, <2>1, <2>3 DEF WorldInv
  <2>5. WorldInv'
    BY Zenon, <1>0, <2>2, <2>3, <2>4 DEF WorldInv, Renders
  <2>6. \A j \in Images : results[j] = Undecided
    BY Zenon, <1>0, <2>2 DEF DecisionInv
  <2>7. DecisionInv'
    <3>1. \A s \in References : published[s] \subseteq published'[s]
      BY Zenon, <2>2
    <3>2. DOMAIN results' = Images
      BY Zenon, <1>0, <2>2 DEF DecisionInv
    <3> QED
      BY Zenon, <1>0, <2>2, <2>6, <3>1, <3>2, DecisionsKept
  <2>8. SteadyInv'
    <3>1. steady' \subseteq Images
      BY Zenon, <1>0, <2>2 DEF SteadyInv
    <3>2. ASSUME NEW j \in steady', committed'[j] # Undecided
          PROVE  /\ ForRender(j, committed[j])' /\ committed'[j].digest = tagged'[committed'[j].source]
                 /\ results'[j] # Undecided => results'[j].digest = committed'[j].digest
      <4>1. j \in steady /\ j # i /\ j \in Images /\ committed[j] # Undecided
        BY Zenon, <1>0, <2>2, <3>2 DEF SteadyInv
      <4>2. rendered'[j] = rendered[j] /\ results'[j] = Undecided
        BY Zenon, <2>2, <2>3, <2>6, <4>1
      <4>3. ForRender(j, committed[j]) /\ committed[j].digest = tagged[committed[j].source]
        BY Zenon, <1>0, <4>1 DEF SteadyInv
      <4> QED
        BY Zenon, <2>2, <4>2, <4>3 DEF ForRender
    <3> QED
      BY Zenon, <3>1, <3>2 DEF SteadyInv
  <2>9. JoinInv'
    BY Zenon, <2>2 DEF JoinInv
  <2> QED
    BY Zenon, <2>5, <2>7, <2>8, <2>9 DEF AdmInv
<1> QED
  BY ZenonT(30), <1>1, <1>3, <1>4, <1>5, <1>6, <1>8, <1>9, <1>10, <1>11, <1>12, <1>13 DEF AdmNext, AdmStep

LEMMA AdmInitially == AdmInit => AdmInv
<1> SUFFICES ASSUME AdmInit
             PROVE  AdmInv
  OBVIOUS
<1>1. /\ \A i \in Images : committed[i] = Undecided /\ results[i] = Undecided
      /\ DOMAIN results = Images /\ steady = {} /\ phase = "idle" /\ loaded = committed
  BY Zenon DEF AdmInit
<1>2. WorldInv
  <2>1. satisfies \in [Digests -> SUBSET Contracts] /\ tagged \in [References -> Digests]
    BY Zenon, AdmissionAssumption DEF AdmInit
  <2>2. published = [s \in References |-> {tagged[s]}]
    BY Zenon DEF AdmInit
  <2>3. published \in [References -> SUBSET Digests] /\ \A s \in References : tagged[s] \in published[s]
    BY Zenon, <2>1, <2>2
  <2>4. DOMAIN rendered = Images /\ \A i \in Images : rendered[i] \in Renders(i)
    BY Zenon DEF AdmInit
  <2> QED
    BY Zenon, <2>1, <2>3, <2>4 DEF WorldInv
<1> QED
  BY Zenon, <1>1, <1>2 DEF AdmInv, DecisionInv, SteadyInv, JoinInv

(***************************************************************************)
(* What pulls commit for an image is justified and stands: a mirror lacks  *)
(* no contract of the render, a build records exactly what the official    *)
(* image lacks, the digest was published under the committed source, and a *)
(* pull that finds nothing changed decides as the last one did, however    *)
(* tags move while it inspects and whichever layouts are in the cache.     *)
(***************************************************************************)
THEOREM AdmissionAlwaysSound == AdmSpec => AdmissionIsSound
<1>1. AdmInv => AdmissionIsJustified
  BY Zenon DEF AdmInv, DecisionInv, Justified, AdmissionIsJustified
<1>2. AdmInv /\ [AdmNext]_admVars => AdmissionIsJustified'
  BY Zenon, <1>1, AdmStepInv DEF AdmInv, DecisionInv, Justified, AdmissionIsJustified, Mismatches
<1>3. AdmInv => RepeatsItself
  <2> SUFFICES ASSUME AdmInv, commitImages, NEW i \in steady, committed[i] # Undecided
               PROVE  committed'[i] = committed[i]
    BY Zenon DEF RepeatsItself
  <2>1. i \in Images
    BY Zenon DEF AdmInv, SteadyInv
  <2>2. /\ results[i] # Undecided /\ committed'[i] = results[i]
        /\ Justified(i, results[i]) /\ ForRender(i, results[i])
    BY Zenon, <2>1, Commits
  <2>3. Justified(i, committed[i]) /\ ForRender(i, committed[i]) /\ results[i].digest = committed[i].digest
    BY Zenon, <2>1, <2>2 DEF AdmInv, SteadyInv, DecisionInv
  <2>4. results[i].source = committed[i].source /\ results[i].uses = committed[i].uses
    BY Zenon, <2>2, <2>3 DEF ForRender
  <2> QED
    BY Zenon, <2>2, <2>3, <2>4, Determined
<1>4. AdmInv /\ [AdmNext]_admVars => [AdmissionIsJustified' /\ RepeatsItself]_admVars
  BY Zenon, <1>2, <1>3
<1> QED
  BY <1>4, AdmInitially, AdmStepInv, PTL DEF AdmSpec, AdmissionIsSound

----------------------------------------------------------------------------
(***************************************************************************)
(* The selection of chart releases.  The matches of a catalog list what the *)
(* candidate's constraint admits, up to the last scanned release           *)
(* (CatalogInv); an offset skips only what cannot be deployed (TrialInv),  *)
(* and the candidates before the current one were infeasible (PassedInv).  *)
(***************************************************************************)

(* The releases of a catalog that a candidate's constraint admits. *)
Oldest(c) == IF Release(c, current[c]).eligible THEN current[c] ELSE Len(upstream[c])
Fitting(c, k) == {i \in 1..Oldest(c) : Release(c, i).eligible /\ k \in Release(c, i).supports}

(* s lists the members of F up to n in order. *)
Lists(s, n, F) ==
  /\ s \in Seq(Nat) /\ n \in Nat
  /\ \A m \in 1..Len(s) : s[m] \in F /\ s[m] <= n
  /\ \A i \in F : i <= n => \E m \in 1..Len(s) : s[m] = i
  /\ \A m, l \in 1..Len(s) : m < l => s[m] < s[l]

(* A scan extends the list and keeps what is in it. *)
LEMMA ListsMore ==
  ASSUME NEW F \in SUBSET Nat, NEW s, NEW n, Lists(s, n, F), n + 1 \in F
  PROVE  /\ Lists(Append(s, n + 1), n + 1, F) /\ Len(s) <= Len(Append(s, n + 1))
         /\ \A m \in 1..Len(s) : Append(s, n + 1)[m] = s[m]
<1>1. s \in Seq(Nat) /\ n \in Nat /\ n + 1 \in Nat /\ Len(s) \in Nat
  BY SMTT(30) DEF Lists
<1>2. /\ Append(s, n + 1) \in Seq(Nat) /\ Len(Append(s, n + 1)) = Len(s) + 1
      /\ \A m \in 1..Len(s) : Append(s, n + 1)[m] = s[m]
      /\ Append(s, n + 1)[Len(s) + 1] = n + 1
  BY SMTT(30), <1>1
<1>3. /\ \A m \in 1..Len(s) : s[m] \in F /\ s[m] <= n /\ s[m] \in Nat
      /\ \A i \in F : i <= n => \E m \in 1..Len(s) : s[m] = i
      /\ \A m, l \in 1..Len(s) : m < l => s[m] < s[l]
  BY SMTT(30) DEF Lists
<1> DEFINE t == Append(s, n + 1)
<1> HIDE DEF t
<1>4. t \in Seq(Nat) /\ Len(t) = Len(s) + 1 /\ (\A m \in 1..Len(s) : t[m] = s[m]) /\ t[Len(s) + 1] = n + 1
  BY Zenon, <1>2 DEF t
<1>5. \A m \in 1..Len(t) : t[m] \in F /\ t[m] <= n + 1
  BY SMTT(30), <1>1, <1>3, <1>4
<1>6. \A i \in F : i <= n + 1 => \E m \in 1..Len(t) : t[m] = i
  BY SMTT(30), <1>1, <1>3, <1>4
<1>7. ASSUME NEW m \in 1..Len(t), NEW l \in 1..Len(t), m < l
      PROVE  t[m] < t[l]
  <2>1. m \in 1..Len(s) /\ t[m] = s[m]
    BY SMTT(30), <1>1, <1>4, <1>7
  <2>2. CASE l \in 1..Len(s)
    BY Zenon, <1>3, <1>4, <1>7, <2>1, <2>2
  <2>3. CASE l = Len(s) + 1
    BY SMTT(30), <1>1, <1>3, <1>4, <2>1, <2>3
  <2>4. l \in 1..Len(s) \/ l = Len(s) + 1
    BY SMTT(30), <1>1, <1>4
  <2> QED
    BY Zenon, <2>2, <2>3, <2>4
<1>8. Len(s) <= Len(t)
  BY SMTT(30), <1>1, <1>4
<1> QED
  BY Zenon, <1>1, <1>2, <1>4, <1>5, <1>6, <1>7, <1>8 DEF Lists, t

LEMMA ListsSame ==
  ASSUME NEW F \in SUBSET Nat, NEW s, NEW n, Lists(s, n, F), n + 1 \notin F
  PROVE  Lists(s, n + 1, F)
BY SMTT(30) DEF Lists

(* Once everything is scanned, everything is listed. *)
LEMMA ListsAll ==
  ASSUME NEW b \in Nat, NEW F \in SUBSET (1..b), NEW s, NEW n, Lists(s, n, F), n + 1 \notin 1..b
  PROVE  \A i \in F : \E m \in 1..Len(s) : s[m] = i
<1>1. \A i \in F : i <= n
  BY SMTT(30) DEF Lists
<1> QED
  BY Zenon, <1>1 DEF Lists

(* What is not among the first o of the list is not before the next one. *)
LEMMA ListsNext ==
  ASSUME NEW F \in SUBSET Nat, NEW s, NEW n, Lists(s, n, F), NEW o \in Nat, o < Len(s)
  PROVE  s[o + 1] \in F /\ \A i \in F : (\A m \in 1..o : s[m] # i) => s[o + 1] <= i
<1>1. Len(s) \in Nat /\ o + 1 \in 1..Len(s) /\ n \in Nat
  BY SMTT(30) DEF Lists
<1>2. ASSUME NEW i \in F, \A m \in 1..o : s[m] # i
      PROVE  s[o + 1] <= i
  <2>1. s[o + 1] \in Nat /\ s[o + 1] <= n /\ i \in Nat
    BY SMTT(30), <1>1 DEF Lists
  <2>2. CASE i <= n
    <3>1. PICK m \in 1..Len(s) : s[m] = i
      BY Zenon, <2>2 DEF Lists
    <3>2. m \notin 1..o /\ m \in Nat
      BY SMTT(30), <1>1, <1>2, <3>1
    <3>3. o + 1 = m \/ o + 1 < m
      BY SMTT(30), <1>1, <3>1, <3>2
    <3>4. o + 1 < m => s[o + 1] < s[m]
      BY Zenon, <1>1, <3>1 DEF Lists
    <3> QED
      BY SMTT(30), <2>1, <3>1, <3>3, <3>4
  <2>3. CASE ~(i <= n)
    BY SMTT(30), <1>1, <2>1, <2>3
  <2> QED
    BY Zenon, <2>2, <2>3
<1> QED
  BY Zenon, <1>1, <1>2 DEF Lists

LEMMA Bounded ==
  /\ \A b \in Nat : \A x \in 1..b : x # 0
  /\ \A a, b \in Nat : ~(a < b) => b <= a
  /\ \A o, a, b \in Nat : o <= a /\ a <= b => o <= b /\ \A m \in 1..o : m \in 1..a
BY SMTT(30)

LEMMA NextNumber ==
  ASSUME NEW o \in Nat, NEW n \in Nat
  PROVE  /\ o < n => o + 1 <= n
         /\ \A m \in 1..(o + 1) : m \in 1..o \/ m = o + 1
         /\ o <= n \/ n <= o
         /\ o + 1 \in Nat /\ o + 1 # 0 /\ 0 <= n /\ 1..0 = {} /\ 0 \in Nat
         /\ n <= o => (\A m \in 1..n : m \in 1..o)
         /\ ~(n <= o) => o < n
BY SMTT(30)

(* What never changes, and the types the rest needs. *)
FormInv ==
  /\ kubernetes \in Seq(Range(kubernetes)) /\ tried \in 1..Len(kubernetes)
  /\ \A c \in AllCharts : Len(upstream[c]) \in Nat /\ current[c] \in 1..Len(upstream[c])
  /\ offset \in [AllCharts -> Nat] /\ answer \in [AllCharts -> Nat \cup {Unfinished}]
  /\ scanned \in [Range(kubernetes) -> [AllCharts -> Nat]]
  /\ matches \in [Range(kubernetes) -> [AllCharts -> Seq(Nat)]]
  /\ stage \in {"tracked", "bootstrap", "render", "over"}
  /\ failed \in {"none", "error", "incompatible"}

(* The catalogs' caches: right for every candidate, whoever filled them. *)
CatalogInv ==
  \A k \in Range(kubernetes), c \in AllCharts : Lists(matches[k][c], scanned[k][c], Fitting(c, k))

(* The trial of a candidate: a chart skips a release only for a reason. *)
Skips(c) == \A m \in 1..offset[c] : matches[Kube][c][m] \notin Deployable(c, Kube)
Answers(c) == offset[c] < Len(matches[Kube][c]) /\ answer[c] = matches[Kube][c][offset[c] + 1]
TrialInv ==
  /\ \A c \in AllCharts : /\ offset[c] <= Len(matches[Kube][c]) /\ Skips(c)
                          /\ answer[c] \in {0, Unfinished} \/ Answers(c)
                          /\ answer[c] = 0 => failed # "none"
  /\ failed = "incompatible" => \E c \in AllCharts : Deployable(c, Kube) = {}
  /\ stage = "bootstrap" => \A c \in Charts : answer[c] # Unfinished
  /\ stage = "render" => failed = "none" /\ \A c \in AllCharts : answer[c] # Unfinished

(* The candidates before: only a cancelled pull passes over a feasible one. *)
PassedInv ==
  /\ ~withdrawn \/ stage = "render" => \A j \in 1..(tried - 1) : ~Feasible(kubernetes[j])
  /\ stage # "over" => verdict = "none"

SelInv == FormInv /\ CatalogInv /\ TrialInv /\ PassedInv /\ SelectsNewest

(* The candidate under trial, and its charts. *)
LEMMA KubeFacts ==
  ASSUME FormInv, NEW c \in AllCharts
  PROVE  /\ Kube \in Range(kubernetes) /\ Oldest(c) \in Nat
         /\ \A k : Fitting(c, k) \in SUBSET Nat /\ Fitting(c, k) \in SUBSET (1..Oldest(c))
         /\ chartReleaseCandidates(c) = 1..Oldest(c)
         /\ scanned[Kube][c] \in Nat /\ matches[Kube][c] \in Seq(Nat) /\ offset[c] \in Nat
         /\ Len(matches[Kube][c]) \in Nat
<1>1. DOMAIN kubernetes = 1..Len(kubernetes)
  BY Zenon, LenProperties DEF FormInv
<1>2. Kube \in Range(kubernetes)
  BY Zenon, <1>1 DEF FormInv, Kube, Range
<1>3. current[c] \in Nat /\ Len(upstream[c]) \in Nat
  BY SMTT(30) DEF FormInv
<1>4. Oldest(c) \in Nat /\ chartReleaseCandidates(c) = 1..Oldest(c)
  BY Zenon, <1>3 DEF Oldest, chartReleaseCandidates
<1>5. 1..Oldest(c) \subseteq Nat
  BY SMTT(30), <1>4
<1>6. scanned[Kube][c] \in Nat /\ matches[Kube][c] \in Seq(Nat) /\ offset[c] \in Nat
  BY Zenon, <1>2 DEF FormInv
<1>7. Len(matches[Kube][c]) \in Nat
  BY Zenon, <1>6, LenProperties
<1> QED
  BY Zenon, <1>2, <1>4, <1>5, <1>6, <1>7 DEF Fitting

(* What can be deployed is in the part of the catalog that is scanned. *)
LEMMA DeployableFits ==
  ASSUME FormInv, NEW c \in AllCharts, NEW k
  PROVE  Deployable(c, k) = {i \in Fitting(c, k) : Release(c, i).keeps /\ k \in Release(c, i).renders}
<1>1. Len(upstream[c]) \in Nat /\ current[c] \in 1..Len(upstream[c])
  BY Zenon DEF FormInv
<1>2. \A i : i \in 1..current[c] <=> i \in 1..Len(upstream[c]) /\ i <= current[c]
  BY SMTT(30), <1>1
<1>3. \A i : i \in 1..Oldest(c) <=>
          i \in 1..Len(upstream[c]) /\ (i <= current[c] \/ ~Release(c, current[c]).eligible)
  BY Zenon, <1>2 DEF Oldest
<1> QED
  BY Zenon, <1>3 DEF Deployable, Fitting

(* All of this depends on the catalogs only. *)
LEMMA FixedKept ==
  ASSUME UNCHANGED fixed
  PROVE  /\ \A c : Oldest(c)' = Oldest(c)
         /\ \A c, k : Fitting(c, k)' = Fitting(c, k) /\ Deployable(c, k)' = Deployable(c, k)
         /\ \A k : Feasible(k)' <=> Feasible(k)
<1>1. UNCHANGED <<upstream, current, kubernetes, unfit>>
  BY Zenon DEF fixed
<1>2. \A c : Oldest(c)' = Oldest(c)
  BY Zenon, <1>1 DEF Oldest, Release
<1>3. \A c, k : Fitting(c, k)' = Fitting(c, k)
  BY Zenon, <1>1, <1>2 DEF Fitting, Release
<1>4. \A c, k : Deployable(c, k)' = Deployable(c, k)
  BY Zenon, <1>1 DEF Deployable, Release
<1>5. \A k : Feasible(k)' <=> Feasible(k)
  BY Zenon, <1>1, <1>4 DEF Feasible
<1> QED
  BY Zenon, <1>2, <1>3, <1>4, <1>5

(* A candidate is given up: it is not feasible, or the pull is cancelled. *)
LEMMA GivenUp ==
  ASSUME SelInv, stage # "over", NextCandidate, UNCHANGED <<fixed, scanned, matches, withdrawn>>,
         ~withdrawn => ~Feasible(Kube)
  PROVE  SelInv'
<1>0. FormInv /\ CatalogInv /\ TrialInv /\ PassedInv /\ SelectsNewest
  BY Zenon DEF SelInv
<1>1. UNCHANGED <<upstream, current, kubernetes, unfit>> /\ verdict = "none"
  BY Zenon, <1>0 DEF fixed, PassedInv
<1>2. /\ \A c, k : Fitting(c, k)' = Fitting(c, k) /\ Deployable(c, k)' = Deployable(c, k)
      /\ \A k : Feasible(k)' <=> Feasible(k)
  BY Zenon, FixedKept
<1>3. /\ answer' = [c \in AllCharts |-> Unfinished] /\ failed' = "none"
      /\ \A c \in AllCharts : answer'[c] = Unfinished
  BY Zenon DEF NextCandidate, Restart
<1>4. Unfinished # 0 /\ tried \in Nat /\ Len(kubernetes) \in Nat /\ tried <= Len(kubernetes)
  <2>1. Len(kubernetes) \in Nat /\ tried \in 1..Len(kubernetes)
    BY Zenon, <1>0, LenProperties DEF FormInv
  <2>2. Unfinished \notin Nat
    BY Zenon, SelectionAssumption
  <2> QED
    BY SMTT(30), <2>1, <2>2
<1>5. CatalogInv'
  BY Zenon, <1>0, <1>1, <1>2 DEF CatalogInv
<1>6. ~withdrawn => \A j \in 1..tried : ~Feasible(kubernetes[j])
  <2>1. \A j \in 1..tried : j \in 1..(tried - 1) \/ j = tried
    BY SMTT(30), <1>4
  <2> QED
    BY Zenon, <1>0, <2>1 DEF PassedInv, Kube
<1>7. CASE tried = Len(kubernetes)
  <2>1. stage' = "over" /\ verdict' = "incompatible" /\ UNCHANGED <<tried, offset>>
    BY Zenon, <1>7 DEF NextCandidate, Ends
  <2>2. FormInv'
    BY Zenon, <1>0, <1>1, <1>3, <2>1 DEF FormInv
  <2>3. TrialInv'
    BY Zenon, <1>0, <1>1, <1>2, <1>3, <1>4, <2>1 DEF TrialInv, Skips, Kube
  <2>4. PassedInv'
    <3>1. \A j \in 1..(tried - 1) : j \in 1..tried
      BY SMTT(30), <1>4
    <3> QED
      BY Zenon, <1>1, <1>2, <1>6, <2>1, <3>1 DEF PassedInv
  <2>5. SelectsNewest'
    <3>1. \A k \in Range(kubernetes) : \E j \in 1..tried : k = kubernetes[j]
      BY Zenon, <1>0, <1>7, LenProperties DEF FormInv, Range
    <3> QED
      BY Zenon, <1>1, <1>2, <1>6, <2>1, <3>1 DEF SelectsNewest
  <2> QED
    BY Zenon, <1>5, <2>2, <2>3, <2>4, <2>5 DEF SelInv
<1>8. CASE tried # Len(kubernetes)
  <2>1. /\ tried' = tried + 1 /\ stage' = "tracked" /\ UNCHANGED verdict
        /\ offset' = [c \in AllCharts |-> 0]
    BY Zenon, <1>8 DEF NextCandidate
  <2>2. tried' \in 1..Len(kubernetes) /\ tried' - 1 = tried
    BY SMTT(30), <1>4, <1>8, <2>1
  <2>3. offset' \in [AllCharts -> Nat] /\ \A c \in AllCharts : offset'[c] = 0
    BY Zenon, <2>1, <1>4, NextNumber
  <2>4. FormInv'
    BY Zenon, <1>0, <1>1, <1>3, <2>1, <2>2, <2>3 DEF FormInv
  <2>5. TrialInv'
    <3>1. \A c \in AllCharts : 0 <= Len(matches[Kube][c])' /\ 1..0 = {}
      <4>a. Kube' \in Range(kubernetes)
        BY Zenon, <1>0, <1>1, <2>2, LenProperties DEF FormInv, Kube, Range
      <4>b. \A c \in AllCharts : matches'[Kube'][c] \in Seq(Nat)
        BY Zenon, <1>0, <4>a DEF FormInv
      <4>1. \A c \in AllCharts : Len(matches[Kube][c])' \in Nat
        BY Zenon, <4>b, LenProperties
      <4> QED
        BY SMTT(30), <4>1
    <3> QED
      BY Zenon, <1>3, <1>4, <2>1, <2>3, <3>1 DEF TrialInv, Skips
  <2>6. PassedInv'
    BY Zenon, <1>1, <1>2, <1>6, <2>1, <2>2 DEF PassedInv
  <2>7. SelectsNewest'
    BY Zenon, <1>1, <2>1 DEF SelectsNewest
  <2> QED
    BY Zenon, <1>5, <2>4, <2>5, <2>6, <2>7 DEF SelInv
<1> QED
  BY Zenon, <1>7, <1>8

(* A chart moves on from a release that cannot be deployed. *)
LEMMA Backtracked ==
  ASSUME SelInv, stage = "render", NEW c \in AllCharts, backtrackChart(c), answer[c] \notin Deployable(c, Kube),
         UNCHANGED <<fixed, scanned, matches, withdrawn>>
  PROVE  SelInv'
<1>0. FormInv /\ CatalogInv /\ TrialInv /\ PassedInv /\ SelectsNewest
  BY Zenon DEF SelInv
<1>1. UNCHANGED <<upstream, current, kubernetes, unfit, tried, verdict>> /\ verdict = "none" /\ stage' = "tracked"
  BY Zenon, <1>0 DEF fixed, PassedInv, backtrackChart
<1>2. /\ \A d, k : Fitting(d, k)' = Fitting(d, k) /\ Deployable(d, k)' = Deployable(d, k)
      /\ \A k : Feasible(k)' <=> Feasible(k)
  BY Zenon, FixedKept
<1>3. /\ answer' = [d \in AllCharts |-> Unfinished] /\ failed' = "none"
      /\ \A d \in AllCharts : answer'[d] = Unfinished
  BY Zenon DEF backtrackChart, Restart
<1>4. Unfinished # 0
  BY Zenon, SelectionAssumption, NextNumber
<1>5. Answers(c)
  BY Zenon, <1>0, <1>4 DEF TrialInv
<1>6. offset[c] \in Nat /\ Len(matches[Kube][c]) \in Nat /\ offset \in [AllCharts -> Nat]
  BY Zenon, <1>0, KubeFacts DEF FormInv
<1>7. /\ offset[c] + 1 \in Nat /\ offset[c] + 1 <= Len(matches[Kube][c])
      /\ \A m \in 1..(offset[c] + 1) : m \in 1..offset[c] \/ m = offset[c] + 1
  BY Zenon, <1>5, <1>6, NextNumber DEF Answers
<1>8. /\ offset' \in [AllCharts -> Nat] /\ offset'[c] = offset[c] + 1
      /\ \A d \in AllCharts : d # c => offset'[d] = offset[d]
  BY Zenon, <1>6, <1>7 DEF backtrackChart
<1>9. FormInv'
  BY Zenon, <1>0, <1>1, <1>3, <1>8 DEF FormInv
<1>10. CatalogInv'
  BY Zenon, <1>0, <1>1, <1>2 DEF CatalogInv
<1>11. Kube' = Kube
  BY Zenon, <1>1 DEF Kube
<1>12. ASSUME NEW d \in AllCharts
       PROVE  offset'[d] <= Len(matches'[Kube'][d]) /\ Skips(d)'
  <2>1. CASE d = c
    <3>1. \A m \in 1..(offset[c] + 1) : matches[Kube][c][m] \notin Deployable(c, Kube)
      BY Zenon, <1>0, <1>5, <1>7 DEF TrialInv, Skips, Answers
    <3> QED
      BY Zenon, <1>2, <1>7, <1>8, <1>11, <2>1, <3>1 DEF Skips
  <2>2. CASE d # c
    BY Zenon, <1>0, <1>2, <1>8, <1>11, <2>2 DEF TrialInv, Skips
  <2> QED
    BY Zenon, <2>1, <2>2
<1>13. TrialInv'
  BY Zenon, <1>1, <1>3, <1>4, <1>12 DEF TrialInv
<1>14. PassedInv' /\ SelectsNewest'
  BY Zenon, <1>0, <1>1, <1>2 DEF PassedInv, SelectsNewest
<1> QED
  BY Zenon, <1>9, <1>10, <1>13, <1>14 DEF SelInv

(* One more release of a catalog is scanned, for any chart of the group. *)
LEMMA Scanned ==
  ASSUME SelInv, NEW c \in AllCharts, scan(c)
  PROVE  SelInv'
<1>0. FormInv /\ CatalogInv /\ TrialInv /\ PassedInv /\ SelectsNewest
  BY Zenon DEF SelInv
<1>1. /\ UNCHANGED <<upstream, current, kubernetes, unfit, tried, offset, answer, failed, stage, verdict, withdrawn>>
      /\ Kube' = Kube /\ Resolving(c) /\ Scanning(c)
  BY Zenon DEF fixed, scan, Kube
<1>2. /\ \A d : Oldest(d)' = Oldest(d)
      /\ \A d, k : Fitting(d, k)' = Fitting(d, k) /\ Deployable(d, k)' = Deployable(d, k)
      /\ \A k : Feasible(k)' <=> Feasible(k)
  BY Zenon, FixedKept DEF scan
<1>3. /\ Kube \in Range(kubernetes) /\ scanned[Kube][c] \in Nat /\ matches[Kube][c] \in Seq(Nat)
      /\ Fitting(c, Kube) \in SUBSET Nat /\ chartReleaseCandidates(c) = 1..Oldest(c)
  BY Zenon, <1>0, KubeFacts
<1> DEFINE n == scanned[Kube][c]
           s == matches[Kube][c]
           t == IF n + 1 \in Fitting(c, Kube) THEN Append(s, n + 1) ELSE s
<1>4. Lists(s, n, Fitting(c, Kube))
  BY Zenon, <1>0, <1>3 DEF CatalogInv
<1>5. n + 1 \in Fitting(c, Kube) <=> Compatible(c, n + 1)
  BY Zenon, <1>1, <1>3 DEF Scanning, NextScanned, Fitting, Compatible
<1>6. /\ scanned' = [scanned EXCEPT ![Kube][c] = n + 1]
      /\ matches' = [matches EXCEPT ![Kube][c] = t]
  BY Zenon, <1>5 DEF scan, NextScanned
<1>7. n + 1 \in Nat
  BY Zenon, <1>3, NextNumber
<1> HIDE DEF n, s, t
<1>8. /\ Lists(t, n + 1, Fitting(c, Kube)) /\ Len(s) <= Len(t)
      /\ \A m \in 1..Len(s) : t[m] = s[m]
  <2>1. CASE n + 1 \in Fitting(c, Kube)
    BY Zenon, <1>3, <1>4, <2>1, ListsMore DEF t
  <2>2. CASE n + 1 \notin Fitting(c, Kube)
    <3>1. Lists(s, n + 1, Fitting(c, Kube)) /\ t = s
      BY Zenon, <1>3, <1>4, <2>2, ListsSame DEF t
    <3>2. Len(s) <= Len(s)
      <4>1. Len(s) \in Nat
        BY Zenon, <1>3, LenProperties DEF s
      <4> QED
        BY SMTT(30), <4>1
    <3> QED
      BY Zenon, <3>1, <3>2
  <2> QED
    BY Zenon, <2>1, <2>2
<1>9. t \in Seq(Nat)
  BY Zenon, <1>8 DEF Lists
<1>10. /\ scanned' \in [Range(kubernetes) -> [AllCharts -> Nat]]
       /\ matches' \in [Range(kubernetes) -> [AllCharts -> Seq(Nat)]]
       /\ scanned'[Kube][c] = n + 1 /\ matches'[Kube][c] = t
       /\ \A k \in Range(kubernetes), d \in AllCharts :
             k # Kube \/ d # c => scanned'[k][d] = scanned[k][d] /\ matches'[k][d] = matches[k][d]
  BY Zenon, <1>0, <1>3, <1>6, <1>7, <1>9 DEF FormInv
<1>11. FormInv'
  BY Zenon, <1>0, <1>1, <1>10 DEF FormInv
<1>12. ASSUME NEW k \in Range(kubernetes), NEW d \in AllCharts
       PROVE  Lists(matches'[k][d], scanned'[k][d], Fitting(d, k))
  BY Zenon, <1>0, <1>8, <1>10 DEF CatalogInv
<1>13. CatalogInv'
  BY Zenon, <1>1, <1>2, <1>12 DEF CatalogInv
<1>14. ASSUME NEW d \in AllCharts
       PROVE  /\ offset[d] <= Len(matches'[Kube][d])
              /\ \A m \in 1..offset[d] : matches'[Kube][d][m] \notin Deployable(d, Kube)
              /\ answer[d] \in {0, Unfinished}
                 \/ (offset[d] < Len(matches'[Kube][d]) /\ answer[d] = matches'[Kube][d][offset[d] + 1])
  <2>1. /\ offset[d] <= Len(matches[Kube][d])
        /\ \A m \in 1..offset[d] : matches[Kube][d][m] \notin Deployable(d, Kube)
        /\ answer[d] \in {0, Unfinished}
           \/ (offset[d] < Len(matches[Kube][d]) /\ answer[d] = matches[Kube][d][offset[d] + 1])
    BY Zenon, <1>0 DEF TrialInv, Skips, Answers
  <2>2. CASE d # c
    BY Zenon, <1>3, <1>10, <2>1, <2>2
  <2>3. CASE d = c
    <3>1. answer[d] = Unfinished
      BY Zenon, <1>1, <2>3 DEF Resolving
    <3>2. offset[d] \in Nat /\ Len(s) \in Nat /\ Len(t) \in Nat
      BY Zenon, <1>0, <1>3, <1>9, LenProperties DEF FormInv, s
    <3>3. matches[Kube][d] = s /\ matches'[Kube][d] = t
      BY Zenon, <1>10, <2>3 DEF s
    <3>4. offset[d] <= Len(t) /\ \A m \in 1..offset[d] : m \in 1..Len(s)
      <4>1. offset[d] <= Len(s) /\ Len(s) <= Len(t)
        BY Zenon, <1>8, <2>1, <3>3
      <4> QED
        BY Zenon, <3>2, <4>1, Bounded
    <3> QED
      BY Zenon, <1>8, <2>1, <3>1, <3>3, <3>4
  <2> QED
    BY Zenon, <2>2, <2>3
<1>15. TrialInv'
  BY Zenon, <1>0, <1>1, <1>2, <1>14 DEF TrialInv, Skips, Answers
<1>16. PassedInv'
  BY Zenon, <1>0, <1>1, <1>2 DEF PassedInv
<1>17. SelectsNewest'
  <2>1. verdict = "none"
    BY Zenon, <1>0, <1>1 DEF PassedInv, Resolving
  <2> QED
    BY Zenon, <1>1, <2>1 DEF SelectsNewest
<1> QED
  BY Zenon, <1>11, <1>13, <1>15, <1>16, <1>17 DEF SelInv

(* A step of the trial that leaves the catalogs, the offsets and the candidate. *)
LEMMA TrialGoesOn ==
  ASSUME SelInv, UNCHANGED <<fixed, tried, offset, scanned, matches, withdrawn>>, stage # "over",
         answer' \in [AllCharts -> Nat \cup {Unfinished}], failed' \in {"none", "error", "incompatible"},
         stage' \in {"tracked", "bootstrap", "render", "over"},
         \A c \in AllCharts : /\ answer'[c] \in {0, Unfinished}
                                 \/ (offset[c] < Len(matches[Kube][c]) /\ answer'[c] = matches[Kube][c][offset[c] + 1])
                              /\ answer'[c] = 0 => failed' # "none",
         failed' = "incompatible" => \E c \in AllCharts : Deployable(c, Kube) = {},
         stage' = "bootstrap" => \A c \in Charts : answer'[c] # Unfinished,
         stage' = "render" => /\ failed' = "none" /\ \A c \in AllCharts : answer'[c] # Unfinished
                              /\ ~withdrawn \/ stage = "render",
         stage' # "over" => verdict' = "none", SelectsNewest'
  PROVE  SelInv'
<1>0. FormInv /\ CatalogInv /\ TrialInv /\ PassedInv
  BY Zenon DEF SelInv
<1>1. UNCHANGED <<upstream, current, kubernetes, unfit>> /\ Kube' = Kube
  BY Zenon DEF fixed, Kube
<1>2. /\ \A d, k : Fitting(d, k)' = Fitting(d, k) /\ Deployable(d, k)' = Deployable(d, k)
      /\ \A k : Feasible(k)' <=> Feasible(k)
  BY Zenon, FixedKept
<1>3. FormInv'
  BY Zenon, <1>0, <1>1 DEF FormInv
<1>4. CatalogInv'
  BY Zenon, <1>0, <1>1, <1>2 DEF CatalogInv
<1>5. TrialInv'
  BY Zenon, <1>0, <1>1, <1>2 DEF TrialInv, Skips, Answers
<1>6. PassedInv'
  BY Zenon, <1>0, <1>1, <1>2 DEF PassedInv
<1> QED
  BY Zenon, <1>3, <1>4, <1>5, <1>6 DEF SelInv

(* An answer is in its catalog, and nothing that was not skipped is newer. *)
LEMMA AnswerFits ==
  ASSUME FormInv, CatalogInv, NEW c \in AllCharts, Answers(c)
  PROVE  /\ answer[c] \in Fitting(c, Kube)
         /\ \A i \in Fitting(c, Kube) : (\A m \in 1..offset[c] : matches[Kube][c][m] # i) => answer[c] <= i
<1>1. /\ Kube \in Range(kubernetes) /\ offset[c] \in Nat /\ Fitting(c, Kube) \in SUBSET Nat
  BY Zenon, KubeFacts
<1>2. Lists(matches[Kube][c], scanned[Kube][c], Fitting(c, Kube))
  BY Zenon, <1>1 DEF CatalogInv
<1>3. offset[c] < Len(matches[Kube][c]) /\ answer[c] = matches[Kube][c][offset[c] + 1]
  BY Zenon DEF Answers
<1>4. /\ matches[Kube][c][offset[c] + 1] \in Fitting(c, Kube)
      /\ \A i \in Fitting(c, Kube) : (\A m \in 1..offset[c] : matches[Kube][c][m] # i)
                                      => matches[Kube][c][offset[c] + 1] <= i
  BY Zenon, <1>1, <1>2, <1>3, ListsNext
<1> QED
  BY Zenon, <1>3, <1>4

LEMMA SelStepInv == SelInv /\ [SelNext]_selVars => SelInv'
<1> SUFFICES ASSUME SelInv, [SelNext]_selVars
             PROVE  SelInv'
  OBVIOUS
<1>0. FormInv /\ CatalogInv /\ TrialInv /\ PassedInv /\ SelectsNewest
  BY Zenon DEF SelInv
<1>a. Unfinished # 0 /\ 0 \in Nat /\ "none" # "error" /\ "none" # "incompatible" /\ "error" # "incompatible"
  BY Zenon, SelectionAssumption, NextNumber
<1>b. answer \in [AllCharts -> Nat \cup {Unfinished}] /\ failed \in {"none", "error", "incompatible"}
  BY Zenon, <1>0 DEF FormInv
<1>c. \A c \in AllCharts :
        /\ answer[c] \in {0, Unfinished}
           \/ (offset[c] < Len(matches[Kube][c]) /\ answer[c] = matches[Kube][c][offset[c] + 1])
        /\ answer[c] = 0 => failed # "none"
  BY Zenon, <1>0 DEF TrialInv, Answers
<1>1. ASSUME NEW c \in AllCharts, scan(c)
      PROVE  SelInv'
  BY Zenon, <1>1, Scanned
<1>2. ASSUME NEW c \in AllCharts, NEW a \in Nat, Resolving(c), answer' = [answer EXCEPT ![c] = a],
             UNCHANGED <<fixed, tried, offset, scanned, matches, stage, verdict, withdrawn>>,
             failed' \in {"none", "error", "incompatible"},
             a = 0 => failed' # "none", failed # "none" => failed' = failed,
             a = 0 \/ (offset[c] < Len(matches[Kube][c]) /\ a = matches[Kube][c][offset[c] + 1]),
             failed' = "incompatible" => \E d \in AllCharts : Deployable(d, Kube) = {}
      PROVE  SelInv'
  <2>1. stage \in {"tracked", "bootstrap"} /\ answer[c] = Unfinished /\ verdict = "none"
    BY Zenon, <1>0, <1>2 DEF Resolving, PassedInv
  <2>2. /\ answer' \in [AllCharts -> Nat \cup {Unfinished}] /\ answer'[c] = a
        /\ \A d \in AllCharts : d # c => answer'[d] = answer[d]
    BY Zenon, <1>b, <1>2
  <2>3. \A d \in AllCharts :
          /\ answer'[d] \in {0, Unfinished}
             \/ (offset[d] < Len(matches[Kube][d]) /\ answer'[d] = matches[Kube][d][offset[d] + 1])
          /\ answer'[d] = 0 => failed' # "none"
    BY Zenon, <1>c, <1>2, <2>2
  <2>4. a # Unfinished
    BY Zenon, <1>2, SelectionAssumption
  <2>5. stage' = "bootstrap" => \A d \in Charts : answer'[d] # Unfinished
    BY Zenon, <1>0, <1>2, <2>2, <2>4 DEF TrialInv, AllCharts
  <2>6. SelectsNewest'
    BY Zenon, <1>2, <2>1 DEF SelectsNewest
  <2>7. stage # "over" /\ stage' # "render" /\ stage' \in {"tracked", "bootstrap", "render", "over"}
    BY Zenon, <1>2, <2>1
  <2> QED
    BY Zenon, <1>2, <2>1, <2>2, <2>3, <2>5, <2>6, <2>7, TrialGoesOn
<1>3. ASSUME NEW c \in AllCharts, fetchFails(c)
      PROVE  SelInv'
  <2>1. failed' \in {"none", "error", "incompatible"} /\ failed' # "none" /\ (failed # "none" => failed' = failed)
    BY Zenon, <1>a, <1>b, <1>3 DEF fetchFails, FirstError
  <2>2. failed' = "incompatible" => \E d \in AllCharts : Deployable(d, Kube) = {}
    BY Zenon, <1>0, <1>a, <1>3 DEF fetchFails, FirstError, TrialInv
  <2> QED
    BY Zenon, <1>a, <1>2, <1>3, <2>1, <2>2 DEF fetchFails
<1>4. ASSUME NEW c \in AllCharts, compatibleAt(c)
      PROVE  SelInv'
  <2>0. /\ Kube \in Range(kubernetes) /\ scanned[Kube][c] \in Nat /\ matches[Kube][c] \in Seq(Nat)
        /\ offset[c] \in Nat /\ Len(matches[Kube][c]) \in Nat /\ Oldest(c) \in Nat
        /\ Fitting(c, Kube) \in SUBSET Nat /\ Fitting(c, Kube) \in SUBSET (1..Oldest(c))
        /\ chartReleaseCandidates(c) = 1..Oldest(c)
    BY Zenon, <1>0, KubeFacts
  <2>1. Lists(matches[Kube][c], scanned[Kube][c], Fitting(c, Kube))
    BY Zenon, <1>0, <2>0 DEF CatalogInv
  <2>2. CASE offset[c] < Len(matches[Kube][c])
    <3>1. matches[Kube][c][offset[c] + 1] \in Nat
      BY Zenon, <2>0, <2>1, <2>2, ListsNext
    <3>2. failed' = "incompatible" => \E d \in AllCharts : Deployable(d, Kube) = {}
      BY Zenon, <1>0, <1>4, <2>2 DEF compatibleAt, TrialInv
    <3>3. matches[Kube][c][offset[c] + 1] # 0
      <4>1. matches[Kube][c][offset[c] + 1] \in 1..Oldest(c)
        BY Zenon, <2>0, <2>1, <2>2, ListsNext
      <4> QED
        BY Zenon, <2>0, <4>1, Bounded
    <3> QED
      BY Zenon, <1>2, <1>4, <1>b, <2>2, <3>1, <3>2, <3>3 DEF compatibleAt
  <2>3. CASE ~(offset[c] < Len(matches[Kube][c]))
    <3>1. Len(matches[Kube][c]) <= offset[c] /\ scanned[Kube][c] + 1 \notin 1..Oldest(c)
      <4>1. Len(matches[Kube][c]) <= offset[c]
        BY Zenon, <2>0, <2>3, Bounded
      <4> QED
        BY Zenon, <1>4, <2>0, <4>1 DEF compatibleAt, Scanning, NextScanned
    <3>2. ASSUME NEW i \in Deployable(c, Kube)
          PROVE  FALSE
      <4>1. i \in Fitting(c, Kube)
        BY Zenon, <1>0, <3>2, DeployableFits
      <4>a. \A j \in Fitting(c, Kube) : \E m \in 1..Len(matches[Kube][c]) : matches[Kube][c][m] = j
        <5>1. Oldest(c) \in Nat /\ Fitting(c, Kube) \in SUBSET (1..Oldest(c)) /\ scanned[Kube][c] + 1 \notin 1..Oldest(c)
          BY Zenon, <2>0, <3>1
        <5> QED
          BY SMTT(30), <2>1, <5>1, ListsAll
      <4>2. PICK m \in 1..Len(matches[Kube][c]) : matches[Kube][c][m] = i
        BY Zenon, <4>1, <4>a
      <4>3. m \in 1..offset[c]
        BY Zenon, <2>0, <3>1, NextNumber
      <4> QED
        BY Zenon, <1>0, <3>2, <4>2, <4>3 DEF TrialInv, Skips
    <3>3. Deployable(c, Kube) = {}
      BY Zenon, <3>2
    <3>4. /\ failed' \in {"none", "error", "incompatible"} /\ failed' # "none"
          /\ failed # "none" => failed' = failed
      BY Zenon, <1>a, <1>b, <1>4, <2>3 DEF compatibleAt, FirstError
    <3> QED
      BY Zenon, <1>a, <1>2, <1>4, <2>3, <3>3, <3>4 DEF compatibleAt
  <2> QED
    BY Zenon, <2>2, <2>3
<1>5. CASE joinGroup
  <2>0. /\ stage \in {"tracked", "bootstrap"} /\ \A c \in Group : answer[c] # Unfinished
        /\ UNCHANGED <<fixed, scanned, matches, withdrawn>> /\ verdict = "none" /\ stage # "over"
    BY Zenon, <1>0, <1>5 DEF joinGroup, PassedInv
  <2>1. CASE failed = "error"
    <3>1. stage' = "over" /\ verdict' = "error" /\ UNCHANGED <<tried, offset, answer, failed>>
      BY Zenon, <1>5, <1>a, <2>1 DEF joinGroup, Ends
    <3>2. SelectsNewest'
      BY Zenon, <3>1 DEF SelectsNewest
    <3> QED
      BY Zenon, <1>a, <1>b, <1>c, <2>0, <2>1, <3>1, <3>2, TrialGoesOn
  <2>2. CASE failed = "incompatible"
    <3>1. NextCandidate
      BY Zenon, <1>5, <1>a, <2>2 DEF joinGroup
    <3>2. ~Feasible(Kube)
      BY Zenon, <1>0, <2>2 DEF TrialInv, Feasible
    <3> QED
      BY Zenon, <2>0, <3>1, <3>2, GivenUp
  <2>3. CASE failed = "none" /\ stage = "tracked"
    <3>1. stage' = "bootstrap" /\ UNCHANGED <<tried, offset, answer, failed, verdict>>
      BY Zenon, <1>5, <1>a, <2>3 DEF joinGroup
    <3>2. \A c \in Charts : answer'[c] # Unfinished
      BY Zenon, <2>0, <2>3, <3>1 DEF Group
    <3>3. SelectsNewest'
      BY Zenon, <2>0, <3>1 DEF SelectsNewest
    <3> QED
      BY Zenon, <1>a, <1>b, <1>c, <2>0, <2>3, <3>1, <3>2, <3>3, TrialGoesOn
  <2>4. CASE failed = "none" /\ stage = "bootstrap"
    <3>1. \A c \in AllCharts : answer[c] # Unfinished
      <4>1. \A c \in Bootstraps : answer[c] # Unfinished
        BY Zenon, <2>0, <2>4 DEF Group
      <4>2. \A c \in Charts : answer[c] # Unfinished
        BY Zenon, <1>0, <2>4 DEF TrialInv
      <4> QED
        BY Zenon, <4>1, <4>2 DEF AllCharts
    <3>2. \A c \in AllCharts : Kube \in Release(c, answer[c]).supports
      <4> SUFFICES ASSUME NEW c \in AllCharts
                   PROVE  Kube \in Release(c, answer[c]).supports
        BY Zenon
      <4>1. Answers(c)
        BY Zenon, <1>0, <2>4, <3>1 DEF TrialInv
      <4>2. answer[c] \in Fitting(c, Kube)
        BY Zenon, <1>0, <4>1, AnswerFits
      <4> QED
        BY Zenon, <4>2 DEF Fitting
    <3>3. CASE ~withdrawn
      <4>1. stage' = "render" /\ UNCHANGED <<tried, offset, answer, failed, verdict>>
        BY Zenon, <1>5, <1>a, <2>4, <3>2, <3>3 DEF joinGroup
      <4>2. SelectsNewest'
        BY Zenon, <2>0, <4>1 DEF SelectsNewest
      <4> QED
        BY Zenon, <1>a, <1>b, <1>c, <2>0, <2>4, <3>1, <3>3, <4>1, <4>2, TrialGoesOn
    <3>4. CASE withdrawn
      <4>1. NextCandidate
        BY Zenon, <1>5, <1>a, <2>4, <3>4 DEF joinGroup
      <4> QED
        BY Zenon, <2>0, <3>4, <4>1, GivenUp
    <3> QED
      BY Zenon, <3>3, <3>4
  <2> QED
    BY Zenon, <1>b, <2>0, <2>1, <2>2, <2>3, <2>4
<1>6. CASE renderFails
  <2>1. stage = "render" /\ UNCHANGED <<fixed, scanned, matches, withdrawn>> /\ stage # "over"
    BY Zenon, <1>6 DEF renderFails
  <2>2. ASSUME NEW c \in RenderFails, backtrackChart(c)
        PROVE  SelInv'
    <3>1. c \in AllCharts /\ answer[c] \notin Deployable(c, Kube)
      BY Zenon, <2>2 DEF RenderFails, Deployable
    <3> QED
      BY Zenon, <2>1, <2>2, <3>1, Backtracked
  <2>3. ASSUME Kube \in unfit \/ withdrawn, NextCandidate
        PROVE  SelInv'
    <3>1. ~withdrawn => ~Feasible(Kube)
      BY Zenon, <2>3 DEF Feasible
    <3> QED
      BY Zenon, <2>1, <2>3, <3>1, GivenUp
  <2> QED
    BY Zenon, <1>6, <2>2, <2>3 DEF renderFails
<1>7. CASE contractFails
  <2>1. stage = "render" /\ UNCHANGED <<fixed, scanned, matches, withdrawn>>
    BY Zenon, <1>7 DEF contractFails
  <2>2. PICK c \in ContractFails : backtrackChart(c)
    BY Zenon, <1>7 DEF contractFails
  <2>3. c \in AllCharts /\ answer[c] \notin Deployable(c, Kube)
    BY Zenon, <2>2 DEF ContractFails, Deployable
  <2> QED
    BY Zenon, <2>1, <2>2, <2>3, Backtracked
<1>8. CASE selectPlatform
  <2>1. /\ stage = "render" /\ stage' = "over" /\ verdict' = "selected" /\ Kube \notin unfit
        /\ UNCHANGED <<fixed, tried, offset, scanned, matches, answer, failed, withdrawn>>
        /\ RenderFails = {} /\ ContractFails = {}
    BY Zenon, <1>8 DEF selectPlatform, Ends
  <2>2. ASSUME NEW c \in AllCharts
        PROVE  answer[c] \in Deployable(c, Kube) /\ \A i \in Deployable(c, Kube) : answer[c] <= i
    <3>1. Answers(c)
      BY Zenon, <1>0, <2>1 DEF TrialInv
    <3>2. answer[c] \in Fitting(c, Kube)
      BY Zenon, <1>0, <3>1, AnswerFits
    <3>3. answer[c] \in Deployable(c, Kube)
      BY Zenon, <1>0, <2>1, <3>2, DeployableFits DEF RenderFails, ContractFails
    <3>4. \A i \in Deployable(c, Kube) : answer[c] <= i
      <4> SUFFICES ASSUME NEW i \in Deployable(c, Kube)
                   PROVE  answer[c] <= i
        OBVIOUS
      <4>1. i \in Fitting(c, Kube)
        BY Zenon, <1>0, DeployableFits
      <4>2. \A m \in 1..offset[c] : matches[Kube][c][m] # i
        BY Zenon, <1>0 DEF TrialInv, Skips
      <4> QED
        BY Zenon, <1>0, <3>1, <4>1, <4>2, AnswerFits
    <3> QED
      BY Zenon, <3>3, <3>4
  <2>3. \A j \in 1..(tried - 1) : ~Feasible(kubernetes[j])
    BY Zenon, <1>0, <2>1 DEF PassedInv
  <2>4. Feasible(Kube)
    BY Zenon, <2>1, <2>2 DEF Feasible
  <2>5. SelectsNewest'
    <3>1. UNCHANGED <<kubernetes, tried>> /\ Kube' = Kube
      BY Zenon, <2>1 DEF fixed, Kube
    <3>2. /\ \A d, k : Deployable(d, k)' = Deployable(d, k)
          /\ \A k : Feasible(k)' <=> Feasible(k)
      BY Zenon, <2>1, FixedKept
    <3>3. "selected" # "incompatible"
      BY Zenon
    <3> QED
      BY Zenon, <2>1, <2>2, <2>3, <2>4, <3>1, <3>2, <3>3 DEF SelectsNewest
  <2>6. stage # "over" /\ stage' # "bootstrap" /\ stage' # "render" /\ failed' # "incompatible"
    BY Zenon, <1>0, <1>a, <2>1 DEF TrialInv
  <2> QED
    BY Zenon, <1>b, <1>c, <2>1, <2>5, <2>6, TrialGoesOn
<1>9. CASE withdraw
  <2>1. /\ UNCHANGED <<upstream, current, kubernetes, unfit, tried, offset, scanned, matches, answer, failed, stage, verdict>>
        /\ Kube' = Kube /\ withdrawn' /\ stage # "over" /\ UNCHANGED fixed
    BY Zenon, <1>9 DEF withdraw, fixed, Kube
  <2>2. /\ \A d, k : Fitting(d, k)' = Fitting(d, k) /\ Deployable(d, k)' = Deployable(d, k)
        /\ \A k : Feasible(k)' <=> Feasible(k)
    BY Zenon, <2>1, FixedKept
  <2>3. FormInv' /\ CatalogInv' /\ TrialInv'
    BY Zenon, <1>0, <2>1, <2>2 DEF FormInv, CatalogInv, TrialInv, Skips, Answers
  <2>4. PassedInv' /\ SelectsNewest'
    BY Zenon, <1>0, <2>1, <2>2 DEF PassedInv, SelectsNewest
  <2> QED
    BY Zenon, <2>3, <2>4 DEF SelInv
<1>10. CASE UNCHANGED selVars
  <2>1. /\ UNCHANGED <<upstream, current, kubernetes, unfit, tried, offset, scanned, matches, answer, failed, stage, verdict, withdrawn>>
        /\ Kube' = Kube /\ UNCHANGED fixed
    BY Zenon, <1>10 DEF selVars, fixed, Kube
  <2>2. /\ \A d, k : Fitting(d, k)' = Fitting(d, k) /\ Deployable(d, k)' = Deployable(d, k)
        /\ \A k : Feasible(k)' <=> Feasible(k)
    BY Zenon, <2>1, FixedKept
  <2>3. FormInv' /\ CatalogInv' /\ TrialInv'
    BY Zenon, <1>0, <2>1, <2>2 DEF FormInv, CatalogInv, TrialInv, Skips, Answers
  <2>4. PassedInv' /\ SelectsNewest'
    BY Zenon, <1>0, <2>1, <2>2 DEF PassedInv, SelectsNewest
  <2> QED
    BY Zenon, <2>3, <2>4 DEF SelInv
<1> QED
  BY ZenonT(30), <1>1, <1>3, <1>4, <1>5, <1>6, <1>7, <1>8, <1>9, <1>10 DEF SelNext, SelStep

LEMMA SelInitially == SelInit => SelInv
<1> SUFFICES ASSUME SelInit
             PROVE  SelInv
  OBVIOUS
<1>1. kubernetes \in Seq(Range(kubernetes)) /\ kubernetes # <<>> /\ tried = 1
  BY Zenon, SelectionAssumption DEF SelInit
<1>2. tried \in 1..Len(kubernetes) /\ 1..(tried - 1) = {}
  BY SMTT(30), <1>1
<1>3. \A c \in AllCharts : Len(upstream[c]) \in Nat /\ current[c] \in 1..Len(upstream[c])
  <2> SUFFICES ASSUME NEW c \in AllCharts
               PROVE  Len(upstream[c]) \in Nat /\ current[c] \in 1..Len(upstream[c])
    OBVIOUS
  <2>1. upstream[c] \in Catalogs[c] /\ current[c] \in 1..Len(upstream[c])
    BY Zenon DEF SelInit
  <2>2. upstream[c] \in Seq(Range(upstream[c]))
    BY Zenon, <2>1, SelectionAssumption DEF AllCharts
  <2> QED
    BY Zenon, <2>1, <2>2, LenProperties
<1>4. /\ offset = [c \in AllCharts |-> 0] /\ answer = [c \in AllCharts |-> Unfinished]
      /\ scanned = [k \in Range(kubernetes) |-> [c \in AllCharts |-> 0]]
      /\ matches = [k \in Range(kubernetes) |-> [c \in AllCharts |-> <<>>]]
      /\ failed = "none" /\ stage = "tracked" /\ verdict = "none"
  BY Zenon DEF SelInit
<1>5. 0 \in Nat /\ <<>> \in Seq(Nat) /\ Len(<<>>) = 0 /\ 1..0 = {} /\ Unfinished # 0 /\ 0 <= 0
  <2>1. 0 \in Nat /\ <<>> \in Seq(Nat) /\ Len(<<>>) = 0 /\ 1..0 = {} /\ 0 <= 0
    BY SMTT(30)
  <2> QED
    BY Zenon, <2>1, SelectionAssumption
<1>6. FormInv
  BY Zenon, <1>1, <1>2, <1>3, <1>4, <1>5 DEF FormInv
<1>7. /\ \A k \in Range(kubernetes), c \in AllCharts : matches[k][c] = <<>> /\ scanned[k][c] = 0
      /\ \A c \in AllCharts : offset[c] = 0 /\ answer[c] = Unfinished
  BY Zenon, <1>4
<1>8. CatalogInv
  <2> SUFFICES ASSUME NEW k \in Range(kubernetes), NEW c \in AllCharts
               PROVE  Lists(<<>>, 0, Fitting(c, k))
    BY Zenon, <1>7 DEF CatalogInv
  <2>1. \A i \in Fitting(c, k) : ~(i <= 0)
    <3>1. Oldest(c) \in Nat /\ Fitting(c, k) \in SUBSET (1..Oldest(c))
      BY Zenon, <1>6, KubeFacts
    <3> QED
      BY SMTT(30), <3>1
  <2> QED
    BY Zenon, <1>5, <2>1 DEF Lists
<1>9. TrialInv
  <2>1. \A c \in AllCharts : matches[Kube][c] = <<>>
    BY Zenon, <1>6, <1>7, KubeFacts
  <2> QED
    BY Zenon, <1>4, <1>5, <1>7, <2>1 DEF TrialInv, Skips
<1>10. PassedInv /\ SelectsNewest
  BY Zenon, <1>2, <1>4 DEF PassedInv, SelectsNewest
<1> QED
  BY Zenon, <1>6, <1>8, <1>9, <1>10 DEF SelInv

(***************************************************************************)
(* selectCompatiblePlatform selects the first Kubernetes candidate that    *)
(* can be deployed, every chart at the newest release that can, whatever   *)
(* the interleaving of the downloads, the artifact that is blamed first    *)
(* and the catalogs' caches; it calls the release incompatible only when   *)
(* no candidate can, or the pull was cancelled.                            *)
(***************************************************************************)
THEOREM NewestAlwaysSelected == SelSpec => []SelectsNewest
<1>1. SelInv => SelectsNewest
  BY Zenon DEF SelInv
<1> QED
  BY <1>1, SelInitially, SelStepInv, PTL DEF SelSpec
=============================================================================
