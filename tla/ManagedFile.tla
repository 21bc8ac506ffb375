---------------------------- MODULE ManagedFile ----------------------------
(***************************************************************************)
(* Package fssecure: one path of the project, and processes that write,    *)
(* replace, create, publish, remove and read it at the same time, while    *)
(* the owner of the directory swaps the entry and power may fail.          *)
(*                                                                         *)
(* An inode is named by the process that made it; Old and Alien are files  *)
(* of the owner, Target is a file that is reachable only through a symlink.*)
(* `names` is every entry the path has had, in order: the kernel has the   *)
(* last of them, the disk has one no older than `synced`.                  *)
(***************************************************************************)
EXTENDS Naturals, Sequences, FiniteSets

CONSTANTS
    Procs,      \* processes, one operation each
    Absent, Link, Old, Alien, Target,
    MaxSwaps    \* changes of the entry by the owner

Inodes == Procs \cup {Old, Alien, Target}
OpKinds == {"write", "replace", "create", "publish", "remove", "read"}
Temporary == {"write", "replace", "create"}

ASSUME FileBounds ==
    /\ IsFiniteSet(Procs) /\ MaxSwaps \in Nat
    /\ Absent # Link /\ Target \notin {Old, Alien} /\ {Absent, Link} \cap {Old, Alien, Target} = {}
    /\ Procs \cap {Absent, Link, Old, Alien, Target} = {}

VARIABLES
    op,       \* process -> its operation
    at,       \* process -> its step
    holds,    \* process -> the inode it has opened
    bytes,    \* process -> what it read, or wrote so far: "none", "part", "whole"
    names,    \* the entries of the path, oldest first
    synced,   \* the oldest of them that a power failure can bring back
    data,     \* inode -> its content in the page cache
    stable,   \* inode -> whether that content is on the disk
    temps,    \* processes whose temporary file is in the directory
    placed,   \* process -> where its own entry is in `names`, 0 if nowhere
    swaps

fileVars == <<op, at, holds, bytes, names, synced, data, stable, temps, placed, swaps>>

entry == names[Len(names)]
Regular(e) == e \in Inodes
Ended == {"ok", "exists", "failed", "lost"}

FileInit ==
    /\ op \in [Procs -> OpKinds]
    /\ at = [p \in Procs |-> IF op[p] \in Temporary \cup {"remove"} THEN "inspect" ELSE "resolve"]
    /\ holds = [p \in Procs |-> Absent] /\ bytes = [p \in Procs |-> "none"]
    /\ names \in {<<Absent>>, <<Old>>} /\ synced = 1
    /\ data = [i \in Inodes |-> IF i \in Procs /\ op[i] # "publish" THEN "none" ELSE "whole"]
    /\ stable = [i \in Inodes |-> data[i] = "whole"]
    /\ temps = {p \in Procs : op[p] = "publish"} /\ placed = [p \in Procs |-> 0] /\ swaps = 0

To(p, step) == at' = [at EXCEPT ![p] = step]

\* The path gets an entry; process p (if any) put it there.
Enter(e) == names' = Append(names, e)

(***************************************************************************)
(* Writers through a temporary file: replaceRegular                        *)
(***************************************************************************)
\* validateDestinationAt: absent, an existing regular file, or either.
validateDestinationAt(kind) ==
    CASE kind = "create" -> entry = Absent
      [] kind = "replace" -> Regular(entry)
      [] OTHER -> entry = Absent \/ Regular(entry)

\* The deferred cleanup: the temporary goes unless it became the file.
Cleanup(p) == temps' = temps \ {p}

inspect(p) ==
    /\ at[p] = "inspect" /\ op[p] \in Temporary
    /\ IF validateDestinationAt(op[p])
         THEN To(p, "fill") /\ temps' = temps \cup {p}
         ELSE To(p, "failed") /\ UNCHANGED temps
    /\ UNCHANGED <<op, holds, bytes, names, synced, data, stable, placed, swaps>>

\* The content arrives in two writes, each of which may fail.
fill(p) ==
    /\ at[p] = "fill"
    /\ \/ /\ bytes' = [bytes EXCEPT ![p] = IF @ = "none" THEN "part" ELSE "whole"]
          /\ data' = [data EXCEPT ![p] = bytes'[p]]
          /\ To(p, IF bytes[p] = "none" THEN "fill" ELSE "sync")
          /\ UNCHANGED temps
       \/ To(p, "failed") /\ Cleanup(p) /\ UNCHANGED <<bytes, data>>
    /\ UNCHANGED <<op, holds, names, synced, stable, placed, swaps>>

sync(p) ==
    /\ at[p] = "sync"
    /\ \/ stable' = [stable EXCEPT ![p] = TRUE] /\ To(p, "reinspect") /\ UNCHANGED temps
       \/ To(p, "failed") /\ Cleanup(p) /\ UNCHANGED stable
    /\ UNCHANGED <<op, holds, bytes, names, synced, data, placed, swaps>>

reinspect(p) ==
    /\ at[p] = "reinspect"
    /\ IF validateDestinationAt(op[p])
         THEN To(p, "rename") /\ UNCHANGED temps
         ELSE To(p, "failed") /\ Cleanup(p)
    /\ UNCHANGED <<op, holds, bytes, names, synced, data, stable, placed, swaps>>

\* RENAME_NOREPLACE: the kernel refuses to replace any entry.
NoReplace(kind) == kind \in {"create", "publish"}

renameTemporary(p) ==
    /\ at[p] = "rename"
    /\ IF NoReplace(op[p]) /\ entry # Absent
         THEN /\ To(p, IF op[p] = "publish" THEN "exists" ELSE "failed")
              /\ temps' = IF op[p] = "publish" THEN temps ELSE temps \ {p}
              /\ UNCHANGED <<names, placed>>
         ELSE /\ Enter(p) /\ placed' = [placed EXCEPT ![p] = Len(names')]
              /\ temps' = temps \ {p}
              /\ To(p, IF op[p] = "publish" THEN "resolve" ELSE "syncParent")
    /\ UNCHANGED <<op, holds, bytes, synced, data, stable, swaps>>

MutantSyncParent(p) ==
    /\ at[p] = "syncParent" /\ To(p, "ok")
    /\ UNCHANGED <<op, holds, bytes, names, synced, data, stable, temps, placed, swaps>>

\* The rename is durable, or the caller hears of an error after it happened.
syncParent(p) ==
    /\ at[p] = "syncParent"
    /\ \/ To(p, "ok") /\ synced' = Len(names)
       \/ To(p, "failed") /\ UNCHANGED synced
    /\ UNCHANGED <<op, holds, bytes, names, data, stable, temps, placed, swaps>>

(***************************************************************************)
(* RemoveRegular                                                           *)
(***************************************************************************)
inspectRemoval(p) ==
    /\ at[p] = "inspect" /\ op[p] = "remove"
    /\ To(p, IF entry = Absent THEN "ok" ELSE IF Regular(entry) THEN "unlink" ELSE "failed")
    /\ UNCHANGED <<op, holds, bytes, names, synced, data, stable, temps, placed, swaps>>

unlink(p) ==
    /\ at[p] = "unlink"
    /\ IF entry = Absent THEN To(p, "failed") /\ UNCHANGED names
                         ELSE To(p, "syncParent") /\ Enter(Absent)
    /\ UNCHANGED <<op, holds, bytes, synced, data, stable, temps, placed, swaps>>

(***************************************************************************)
(* OpenRegular, by a reader and by RenameRegularNoReplace                  *)
(***************************************************************************)
\* Resolve refuses a symlink.  A publisher opens its own staged source first,
\* then renames it, and opens the destination.
resolve(p) ==
    /\ at[p] = "resolve"
    /\ To(p, IF op[p] = "publish" /\ placed[p] = 0 THEN "rename"
             ELSE IF Regular(entry) THEN "open" ELSE "failed")
    /\ UNCHANGED <<op, holds, bytes, names, synced, data, stable, temps, placed, swaps>>

\* pathrs keeps a symlink inside the root: it opens what the link leads to.
openInRoot(p) ==
    /\ at[p] = "open"
    /\ IF entry = Absent THEN To(p, "failed") /\ UNCHANGED holds
       ELSE /\ holds' = [holds EXCEPT ![p] = IF entry = Link THEN Target ELSE entry]
            /\ To(p, "identify")
    /\ UNCHANGED <<op, bytes, names, synced, data, stable, temps, placed, swaps>>

\* The opened inode is still what the path names.
SameFile(p) == entry = holds[p]

identify(p) ==
    /\ at[p] = "identify"
    /\ To(p, IF SameFile(p) /\ op[p] = "read" THEN "scan"
             ELSE IF SameFile(p) /\ op[p] = "publish" /\ holds[p] = p THEN "syncParent"
             ELSE "failed")
    /\ UNCHANGED <<op, holds, bytes, names, synced, data, stable, temps, placed, swaps>>

scan(p) ==
    /\ at[p] = "scan" /\ bytes' = [bytes EXCEPT ![p] = data[holds[p]]] /\ To(p, "ok")
    /\ UNCHANGED <<op, holds, names, synced, data, stable, temps, placed, swaps>>

(***************************************************************************)
(* The world                                                               *)
(***************************************************************************)
Swap ==
    /\ swaps < MaxSwaps /\ swaps' = swaps + 1
    /\ \E e \in {Absent, Link, Alien} : e # entry /\ Enter(e)
    /\ UNCHANGED <<op, at, holds, bytes, synced, data, stable, temps, placed>>

\* Every process is gone; the path is what one of the unsynced renames left, and
\* an inode whose content was not synced may hold any part of it.
PowerLoss ==
    /\ swaps < MaxSwaps /\ swaps' = MaxSwaps
    /\ at' = [p \in Procs |-> IF at[p] \in Ended THEN at[p] ELSE "lost"]
    /\ \E last \in synced .. Len(names) : names' = SubSeq(names, 1, last)
    /\ data' = [i \in Inodes |-> IF stable[i] THEN data[i] ELSE "part"]
    /\ UNCHANGED <<op, holds, bytes, synced, stable, temps, placed>>

FileStep(p) ==
    \/ inspect(p) \/ fill(p) \/ sync(p) \/ reinspect(p) \/ renameTemporary(p) \/ syncParent(p)
    \/ inspectRemoval(p) \/ unlink(p) \/ resolve(p) \/ openInRoot(p) \/ identify(p) \/ scan(p)

FileNext == (\E p \in Procs : FileStep(p)) \/ Swap \/ PowerLoss
FileSpec == FileInit /\ [][FileNext]_fileVars

(***************************************************************************)
(* Properties                                                              *)
(***************************************************************************)
\* The state is well formed; a writer that ended, other than by a power failure, leaves
\* no temporary file.
FileTypeOK ==
    /\ at \in [Procs -> {"inspect", "fill", "sync", "reinspect", "rename", "syncParent", "unlink",
                         "resolve", "open", "identify", "scan"} \cup Ended]
    /\ holds \in [Procs -> Inodes \cup {Absent}]
    /\ \A i \in DOMAIN names : names[i] \in Inodes \cup {Absent, Link}
    /\ synced \in DOMAIN names
    /\ \A p \in Procs : at[p] \in {"fill", "sync", "reinspect"} => p \in temps
    /\ \A p \in Procs : op[p] \in Temporary /\ at[p] \in Ended \ {"lost"} => p \notin temps

\* What is at the path survives.  No interleaving of writers and no power failure
\* leaves a torn file there, and a write, publication or removal that returned success
\* is still in the path's history after a power failure: nothing older comes back.  A
\* reader that succeeds, and a publisher, had a file the path itself named, never one
\* reached through a symlink put there meanwhile.
FilesSurvive ==
    /\ Regular(entry) => data[entry] = "whole"
    /\ \A p \in Procs : at[p] = "ok" /\ placed[p] # 0 =>
         placed[p] <= Len(names) /\ names[placed[p]] = p
    /\ \A p \in Procs : at[p] \in {"scan", "ok"} /\ holds[p] # Absent => holds[p] # Target

=============================================================================
