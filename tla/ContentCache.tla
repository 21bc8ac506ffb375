---------------------------- MODULE ContentCache ----------------------------
(***************************************************************************)
(* The caches under .atum that everything else is built from: Git checkouts*)
(* (gitcache), chart archives, packaged charts, patched vendor trees, the  *)
(* seed asset, the seed archive, and the Kubespray toolchain.  One entry   *)
(* of one cache, and processes (or the workers of one process) that all    *)
(* want it.                                                                *)
(*                                                                         *)
(*   git, chart      own lock; verify, fetch aside, check, rename          *)
(*   asset           project lock; an invalid entry is removed, the        *)
(*                   download is renamed into place and checked after that *)
(*   package, vendor no lock; made aside first, then put in place          *)
(*   seed            project lock; made aside, published without replacing *)
(*   tool            own lock; built in place, an identity file comes last *)
(*                                                                         *)
(* A download or build is "whole", "bad" (complete, another content) or    *)
(* "partial".  Requirements are the number the toolchain's identity holds. *)
(***************************************************************************)
EXTENDS Naturals, FiniteSets

CONSTANTS
    Users,       \* processes or workers
    MaxFaults,   \* crashes, power failures and changes by the owner
    Nobody

ASSUME CacheBounds == IsFiniteSet(Users) /\ MaxFaults \in Nat /\ Nobody \notin Users

VARIABLES
    cache,     \* which cache this is
    item,      \* the entry: "absent", "partial", "bad", "whole"
    marker,    \* toolchain: the identity it carries, 0 for none
    wanted,    \* toolchain: the identity of the current requirements
    seen,      \* toolchain: user -> the requirements it read before it took the lock
    cacheLock,
    phase,     \* user -> step
    aside,     \* user -> its temporary file or directory
    served,    \* user -> what it was given
    touched,   \* the entry was damaged by the owner or by a power failure
    cleared,   \* a removal of the toolchain was interrupted
    faults

cacheVars == <<cache, item, marker, wanted, seen, cacheLock, phase, aside, served, touched, cleared, faults>>

Caches == {"git", "chart", "asset", "package", "vendor", "seed", "tool"}
Locking == Caches \ {"package", "vendor"}
MadeFirst == {"package", "vendor", "seed"}
Content == {"absent", "partial", "bad", "whole"}

CacheInit ==
    /\ cache \in Caches /\ item = "absent" /\ marker = 0 /\ wanted = 1 /\ seen = [u \in Users |-> 1] /\ cacheLock = Nobody
    /\ phase = [u \in Users |-> "idle"] /\ aside = [u \in Users |-> "absent"]
    /\ served = [u \in Users |-> "absent"] /\ touched = FALSE /\ cleared = FALSE /\ faults = 0

Become(u, step) == phase' = [phase EXCEPT ![u] = step]
Aside(u, content) == aside' = [aside EXCEPT ![u] = content]

\* The deferred removal of the temporary and of the lock.
Leave(u, result) ==
    /\ phase' = [phase EXCEPT ![u] = "idle"]
    /\ served' = [served EXCEPT ![u] = result]
    /\ cacheLock' = (IF cacheLock = u THEN Nobody ELSE cacheLock)

Stay == UNCHANGED <<cache, wanted, seen, touched, faults>>

\* Requirements are read, then the lock is taken.
enterCache(u) ==
    /\ phase[u] = "idle" /\ Become(u, "locking")
    /\ served' = [served EXCEPT ![u] = "absent"]
    /\ seen' = [seen EXCEPT ![u] = wanted]
    /\ UNCHANGED <<cache, item, marker, wanted, cacheLock, aside, touched, cleared, faults>>

MutantLockCache(u) ==
    /\ phase[u] = "locking" /\ Become(u, IF cache \in MadeFirst THEN "fetch" ELSE "verify")
    /\ Stay /\ UNCHANGED <<item, marker, cacheLock, aside, served, cleared>>

lockCache(u) ==
    /\ phase[u] = "locking"
    /\ IF cache \in Locking THEN cacheLock = Nobody /\ cacheLock' = u ELSE UNCHANGED cacheLock
    /\ Become(u, IF cache \in MadeFirst THEN "fetch" ELSE "verify")
    /\ Stay /\ UNCHANGED <<item, marker, aside, served, cleared>>

(***************************************************************************)
(* What is there                                                           *)
(***************************************************************************)
MutantExact == item # "absent"

\* verifyCheckout, verifyChartCacheFile, hashTree, verifySeedAsset, readerSHA256:
\* every byte is compared with the expected identity.
Exact == item = "whole"

\* currentToolchain trusts the identity file and three executables.  A tree that
\* was damaged may or may not still have those three.
currentToolchain(u) ==
    \/ marker = seen[u] /\ item = "whole"
    \/ marker = seen[u] /\ item \in {"partial", "bad"} /\ (touched \/ cleared)

\* A hit is handed out; a miss is fetched or, when made already, published.
verifyHit(u) ==
    /\ phase[u] = "verify"
    /\ IF cache = "tool" THEN currentToolchain(u) ELSE Exact
    /\ Leave(u, item) /\ Aside(u, "absent")
    /\ Stay /\ UNCHANGED <<item, marker, cleared>>

verifyMiss(u) ==
    /\ phase[u] = "verify" /\ cache # "tool" /\ item = "absent"
    /\ Become(u, IF cache \in MadeFirst THEN "publish" ELSE "fetch")
    /\ Stay /\ UNCHANGED <<item, marker, cacheLock, aside, served, cleared>>

\* "immutable ... cache": a wrong entry is reported, never repaired.
refuse(u) ==
    /\ phase[u] = "verify" /\ cache \notin {"tool", "asset"} /\ item # "absent" /\ ~ Exact
    /\ Leave(u, "absent") /\ Aside(u, "absent")
    /\ Stay /\ UNCHANGED <<item, marker, cleared>>

MutantDiscardAsset(u) ==
    /\ phase[u] = "verify" /\ cache = "asset" /\ item # "absent" /\ ~ Exact
    /\ Leave(u, "absent") /\ Aside(u, "absent")
    /\ Stay /\ UNCHANGED <<item, marker, cleared>>

\* FetchSeedAsset removes an entry that does not match.
discardAsset(u) ==
    /\ phase[u] = "verify" /\ cache = "asset" /\ item # "absent" /\ ~ Exact
    /\ item' = "absent" /\ Become(u, "fetch")
    /\ Stay /\ UNCHANGED <<marker, cacheLock, aside, served, cleared>>

\* RemoveTree takes the members of an outdated toolchain away in directory order:
\* the identity file goes at any moment of it.
removeTool(u) ==
    /\ phase[u] = "verify" /\ cache = "tool"
    /\ ~ (marker = seen[u] /\ item = "whole")
    /\ IF item = "absent" THEN Become(u, "fetch") /\ UNCHANGED <<item, marker, cleared>>
       ELSE /\ item' = "partial" /\ marker' \in {marker, 0} /\ cleared' = TRUE
            /\ Become(u, "remove")
    /\ Stay /\ UNCHANGED <<cacheLock, aside, served>>

removedTool(u) ==
    /\ phase[u] = "remove" /\ item' = "absent" /\ marker' = 0
    /\ cleared' = FALSE /\ touched' = FALSE /\ Become(u, "fetch")
    /\ UNCHANGED <<cache, wanted, seen, faults, cacheLock, aside, served>>

(***************************************************************************)
(* Getting it                                                              *)
(***************************************************************************)
\* What one cache does to get its entry: one of the results, or an error.
Gets(u, name, results, next) ==
    /\ phase[u] = "fetch" /\ cache = name
    /\ \/ \E got \in results : Aside(u, got)
          /\ Become(u, next) /\ UNCHANGED <<served, cacheLock>>
       \/ Leave(u, "absent") /\ Aside(u, "absent")
    /\ Stay /\ UNCHANGED <<item, marker, cleared>>

\* Downloads and clones may bring something else; what is made here is what it is.
Hydrate(u) == Gets(u, "git", {"whole", "bad"}, "check")
fetchChart(u) == Gets(u, "chart", {"whole", "bad"}, "check")
FetchSeedAsset(u) == Gets(u, "asset", {"whole", "bad"}, "publish")
packageChart(u) == Gets(u, "package", {"whole"}, "verify")
reconstructVendor(u) == Gets(u, "vendor", {"whole"}, "verify")
prepareSeedArchive(u) == Gets(u, "seed", {"whole"}, "verify")

fetch(u) ==
    \/ Hydrate(u) \/ fetchChart(u) \/ FetchSeedAsset(u) \/ packageChart(u)
    \/ reconstructVendor(u) \/ prepareSeedArchive(u)

\* The commit, or the digest, of what was fetched is compared before it is named.
check(u) ==
    /\ phase[u] = "check"
    /\ IF aside[u] = "whole"
         THEN Become(u, "publish") /\ UNCHANGED <<aside, served, cacheLock>>
         ELSE Leave(u, "absent") /\ Aside(u, "absent")
    /\ Stay /\ UNCHANGED <<item, marker, cleared>>

\* A rename of a file replaces; renaming a tree onto a tree, linking, and
\* RENAME_NOREPLACE do not.
Replaces == cache = "chart"

\* In place: a verified entry is handed out, an asset and a chart are verified now.
publish(u) ==
    /\ phase[u] = "publish" /\ (item = "absent" \/ Replaces)
    /\ item' = aside[u] /\ Aside(u, "absent")
    /\ \/ /\ cache \in {"chart", "asset"} /\ Become(u, "confirm")
          /\ UNCHANGED <<served, cacheLock>>
       \/ cache \notin {"chart", "asset"} /\ Leave(u, aside[u])
    /\ Stay /\ UNCHANGED <<marker, cleared>>

\* Somebody else's entry came first: a seed is looked at from the start, a package
\* and a vendor are accepted when they match.
publishLate(u) ==
    /\ phase[u] = "publish" /\ item # "absent" /\ ~ Replaces
    /\ IF cache \in MadeFirst
         THEN /\ Become(u, IF cache = "seed" THEN "verify" ELSE "confirm")
              /\ UNCHANGED <<aside, served, cacheLock>>
         ELSE Leave(u, "absent") /\ Aside(u, "absent")
    /\ Stay /\ UNCHANGED <<item, marker, cleared>>

\* After the rename; a wrong asset is removed again, a wrong chart is reported.
confirm(u) ==
    /\ phase[u] = "confirm"
    /\ IF Exact THEN Leave(u, item) /\ UNCHANGED item
       ELSE Leave(u, "absent") /\ item' = IF cache = "asset" THEN "absent" ELSE item
    /\ Aside(u, "absent")
    /\ Stay /\ UNCHANGED <<marker, cleared>>

\* The virtual environment and Mitogen are installed in place.
buildTool(u) ==
    /\ phase[u] = "fetch" /\ cache = "tool"
    /\ \/ item = "absent" /\ item' = "partial" /\ Become(u, "fetch") /\ UNCHANGED <<served, cacheLock>>
       \/ item = "partial" /\ item' = "whole" /\ Become(u, "identify") /\ UNCHANGED <<served, cacheLock>>
       \/ item' = "absent" /\ Leave(u, "absent")
    /\ Stay /\ UNCHANGED <<marker, aside, cleared>>

\* identity.json comes last; a tree that then fails currentToolchain is removed.
identifyTool(u) ==
    /\ phase[u] = "identify"
    /\ \/ marker' = seen[u] /\ Leave(u, item) /\ UNCHANGED item
       \/ item # "whole" /\ item' = "absent" /\ marker' = 0 /\ Leave(u, "absent")
    /\ Stay /\ UNCHANGED <<aside, cleared>>

(***************************************************************************)
(* Faults                                                                  *)
(***************************************************************************)
Fault == faults < MaxFaults /\ faults' = faults + 1

\* A killed process leaves its temporary and whatever it has half done in place.
kill(u) ==
    /\ phase[u] # "idle" /\ Fault
    /\ phase' = [phase EXCEPT ![u] = "idle"] /\ served' = [served EXCEPT ![u] = "absent"]
    /\ cacheLock' = (IF cacheLock = u THEN Nobody ELSE cacheLock)
    /\ Aside(u, "absent")
    /\ UNCHANGED <<cache, item, marker, wanted, seen, touched, cleared>>

\* Trees are renamed, and toolchains marked, without having been synced.
losePower ==
    /\ Fault /\ phase' = [u \in Users |-> "idle"] /\ cacheLock' = Nobody
    /\ aside' = [u \in Users |-> "absent"] /\ served' = [u \in Users |-> "absent"]
    /\ item' \in {item, "absent"} \cup
                 (IF cache \in {"git", "vendor", "tool"} /\ item # "absent" THEN {"partial"} ELSE {})
    /\ touched' = (touched \/ item' # item)
    /\ UNCHANGED <<cache, marker, wanted, seen, cleared>>

\* The owner damages or removes the entry, or edits the requirements.
meddle ==
    /\ Fault
    /\ \/ item' \in {"absent", "partial", "bad"} /\ item # "absent"
          /\ touched' = TRUE /\ UNCHANGED wanted
       \/ cache = "tool" /\ wanted' = 3 - wanted /\ UNCHANGED <<item, touched>>
    /\ UNCHANGED <<cache, marker, seen, cacheLock, phase, aside, served, cleared>>

CacheStep(u) ==
    \/ enterCache(u) \/ lockCache(u) \/ verifyHit(u) \/ verifyMiss(u) \/ refuse(u) \/ discardAsset(u)
    \/ removeTool(u) \/ removedTool(u) \/ fetch(u) \/ check(u) \/ publish(u) \/ publishLate(u)
    \/ confirm(u) \/ buildTool(u) \/ identifyTool(u)

CacheNext == (\E u \in Users : CacheStep(u) \/ kill(u)) \/ losePower \/ meddle

\* A user that comes back goes on, and the network works now and then.
Arrives(u) == fetch(u) /\ aside'[u] = "whole"
Builds(u, content) == buildTool(u) /\ item' = content
CacheFairness == \A u \in Users :
    /\ WF_cacheVars(CacheStep(u)) /\ SF_cacheVars(lockCache(u)) /\ SF_cacheVars(Arrives(u))
    /\ \A content \in {"partial", "whole"} : SF_cacheVars(Builds(u, content))

CacheSpec == CacheInit /\ [][CacheNext]_cacheVars /\ CacheFairness

(***************************************************************************)
(* Properties                                                              *)
(***************************************************************************)
\* The state is well formed, and a locking cache has one user inside.
CacheTypeOK ==
    /\ item \in Content /\ marker \in 0 .. 2 /\ cacheLock \in Users \cup {Nobody}
    /\ \A u \in Users : /\ aside[u] \in Content \ {"partial"}
                        /\ cache \in Locking /\ phase[u] \notin {"idle", "locking"} => cacheLock = u

\* What a cache hands out is complete and exact, whatever was interrupted, damaged, or
\* done by others, and a toolchain carries the identity its user asked for, however the
\* requirements changed while it waited or built; only a toolchain that was damaged
\* after it was identified, or half removed, can pass for a good one.
ServedIsExact ==
    [][\A u \in Users : served'[u] # served[u] =>
          /\ served'[u] \in {"partial", "bad"} => cache = "tool" /\ (touched \/ cleared)
          /\ cache = "tool" /\ served[u] = "absent" => marker' = seen[u]]_cacheVars

SelfRepairing == {"asset", "tool"}
Served == \E u \in Users : served[u] # "absent"

\* Assets and toolchains repair themselves: whatever happened to the entry, those
\* who keep asking for it get it.
CacheRepairs ==
    cache \in SelfRepairing => []<>Served
=============================================================================
