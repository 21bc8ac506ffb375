-------------------------- MODULE StoredStateProofs --------------------------
(***************************************************************************)
(* What Atum keeps in files: the managed paths themselves, and the         *)
(* credentials that are stored in them.                                    *)
(***************************************************************************)
EXTENDS ManagedFile, Credentials, TLAPS

----------------------------------------------------------------------------
(***************************************************************************)
(* Managed files, for any number of writers, removers, publishers and      *)
(* readers, entries the owner swaps in and power failures.  FilesSurvive   *)
(* speaks of the last entry of the path; power can bring back any entry    *)
(* since the last sync of the directory, so the invariant has every entry  *)
(* whole and on the disk, and knows how far each process is with the file  *)
(* it will put there.                                                      *)
(***************************************************************************)

FileSteps ==
    {"inspect", "fill", "sync", "reinspect", "rename", "syncParent", "unlink", "resolve", "open",
     "identify", "scan"} \cup Ended
PathEntries == Inodes \cup {Absent, Link}

FileShape ==
    /\ op \in [Procs -> OpKinds] /\ at \in [Procs -> FileSteps]
    /\ holds \in [Procs -> Inodes \cup {Absent}] /\ bytes \in [Procs -> {"none", "part", "whole"}]
    /\ names \in Seq(PathEntries) /\ synced \in 1 .. Len(names)
    /\ data \in [Inodes -> {"none", "part", "whole"}] /\ stable \in [Inodes -> BOOLEAN]
    /\ placed \in [Procs -> Nat]

(* Whatever was ever at the path is whole and on the disk, and no link's target. *)
EntriesWhole ==
    /\ data[Alien] = "whole" /\ stable[Alien]
    /\ \A i \in 1 .. Len(names) :
          names[i] # Target /\ (names[i] \in Inodes => data[names[i]] = "whole" /\ stable[names[i]])

(* A process's own file is at the path only from where it put it.           *)
EntriesPlaced == \A i \in 1 .. Len(names) : names[i] \in Procs => placed[names[i]] # 0

Staging == {"inspect", "fill", "sync", "reinspect", "rename"}

FileKnows(p) ==
    /\ op[p] = "publish" => data[p] = "whole" /\ stable[p]
    /\ at[p] \in {"sync", "reinspect", "rename"} => data[p] = "whole"
    /\ at[p] \in {"reinspect", "rename"} => stable[p]
    /\ at[p] \in {"fill", "sync", "reinspect"} => op[p] \in Temporary /\ p \in temps
    /\ at[p] = "rename" => op[p] \in Temporary \cup {"publish"}
    /\ at[p] \in Staging => placed[p] = 0
    /\ at[p] = "scan" => op[p] = "read"
    /\ at[p] = "unlink" => op[p] = "remove"
    /\ placed[p] # 0 => op[p] \in Temporary \cup {"publish"}
    /\ op[p] \in Temporary /\ at[p] \notin {"fill", "sync", "reinspect", "rename", "lost"} => p \notin temps
    /\ placed[p] # 0 /\ at[p] \in {"syncParent", "resolve", "open", "identify"}
         => placed[p] <= Len(names) /\ names[placed[p]] = p
    /\ placed[p] # 0 /\ at[p] = "ok" => placed[p] <= synced /\ names[placed[p]] = p
    /\ at[p] \in {"identify", "scan"} => holds[p] \in Inodes
    /\ at[p] \notin {"identify", "failed", "lost"} => holds[p] # Target

FileInv == FileShape /\ EntriesWhole /\ EntriesPlaced /\ \A p \in Procs : FileKnows(p)

(* The path and the processes before the first step.                        *)
LEMMA FileInitially == FileInit => FileInv
<1> SUFFICES ASSUME FileInit PROVE FileInv
  OBVIOUS
<1> USE FileBounds DEF FileInit
<1>1. FileShape
  <2>1. at \in [Procs -> FileSteps]
    BY DEF FileSteps
  <2>2. names \in Seq(PathEntries) /\ synced \in 1 .. Len(names)
    <3>1. names = <<Absent>> \/ names = <<Old>>
      OBVIOUS
    <3>2. Absent \in PathEntries /\ Old \in PathEntries
      BY DEF PathEntries, Inodes
    <3>3. \A e \in PathEntries : <<e>> \in Seq(PathEntries) /\ Len(<<e>>) = 1
      OBVIOUS
    <3>4. synced = 1
      OBVIOUS
    <3> HIDE DEF FileInit
    <3>5. PICK e \in PathEntries : names = <<e>>
      BY <3>1, <3>2
    <3>6. Len(names) = 1 /\ names \in Seq(PathEntries)
      BY <3>3, <3>5
    <3> QED
      BY <3>4, <3>6
  <2>3. data \in [Inodes -> {"none", "part", "whole"}] /\ stable \in [Inodes -> BOOLEAN]
    OBVIOUS
  <2> QED
    BY <2>1, <2>2, <2>3 DEF FileShape
<1>2. EntriesWhole /\ EntriesPlaced
  <2>1. Len(names) = 1 /\ names[1] \in {Absent, Old}
    OBVIOUS
  <2>2. /\ data[Old] = "whole" /\ stable[Old] /\ data[Alien] = "whole" /\ stable[Alien]
        /\ Absent \notin Inodes /\ Old \notin Procs
    BY Zenon DEF Inodes
  <2>3. Target \notin {Absent, Old} /\ Absent \notin Procs
    BY Zenon
  <2> QED
    BY <2>1, <2>2, <2>3 DEF EntriesWhole, EntriesPlaced
<1>3. ASSUME NEW p \in Procs PROVE FileKnows(p)
  BY Zenon DEF FileKnows, Inodes, Temporary, Staging
<1> QED
  BY <1>1, <1>2, <1>3 DEF FileInv

(* What appending an entry does to the history of the path.                 *)
LEMMA Entered ==
  ASSUME FileShape, NEW e \in PathEntries, names' = Append(names, e)
  PROVE  /\ names' \in Seq(PathEntries) /\ Len(names') = Len(names) + 1
         /\ names'[Len(names) + 1] = e /\ \A i \in 1 .. Len(names) : names'[i] = names[i]
         /\ synced \in 1 .. Len(names')
BY DEF FileShape

(* The path always has an entry.                                            *)
LEMMA EntryIn == FileShape => entry \in PathEntries /\ Len(names) \in 1 .. Len(names) /\ Len(names) \in Nat
BY DEF FileShape, entry

(* The invariant implies the properties of a managed file.                  *)
LEMMA FileImplies == FileInv => FileTypeOK /\ FilesSurvive
<1> SUFFICES ASSUME FileInv PROVE FileTypeOK /\ FilesSurvive
  OBVIOUS
<1>1. FileTypeOK
  <2>1. at \in [Procs -> FileSteps] /\ holds \in [Procs -> Inodes \cup {Absent}]
    BY DEF FileInv, FileShape
  <2>2. synced \in DOMAIN names /\ \A i \in DOMAIN names : names[i] \in PathEntries
    BY DEF FileInv, FileShape
  <2>3. ASSUME NEW p \in Procs
        PROVE  /\ at[p] \in {"fill", "sync", "reinspect"} => p \in temps
               /\ op[p] \in Temporary /\ at[p] \in Ended \ {"lost"} => p \notin temps
    BY DEF FileInv, FileKnows, Ended
  <2> QED
    BY <2>1, <2>2, <2>3 DEF FileTypeOK, FileSteps, PathEntries
<1>2. FilesSurvive
  <2>1. Regular(entry) => data[entry] = "whole"
    BY EntryIn DEF FileInv, EntriesWhole, Regular, entry
  <2>2. ASSUME NEW p \in Procs, at[p] = "ok", placed[p] # 0
        PROVE  placed[p] <= Len(names) /\ names[placed[p]] = p
    BY <2>2 DEF FileInv, FileShape, FileKnows
  <2>3. ASSUME NEW p \in Procs, at[p] \in {"scan", "ok"} PROVE holds[p] # Target
    BY <2>3 DEF FileInv, FileKnows
  <2> QED
    BY <2>1, <2>2, <2>3 DEF FilesSurvive
<1> QED
  BY <1>1, <1>2

(* A process whose own state does not change while the path grows.          *)
LEMMA Bystander ==
  ASSUME FileInv, NEW q \in Procs, at'[q] = at[q], holds'[q] = holds[q], q \in temps' <=> q \in temps,
         op' = op, data'[q] = data[q], stable'[q] = stable[q], placed'[q] = placed[q],
         Len(names') \in Nat, Len(names) <= Len(names'),
         \A i \in 1 .. Len(names) : names'[i] = names[i],
         synced' \in Nat, synced <= synced'
  PROVE  FileKnows(q)'
<1>1. Len(names) \in Nat /\ synced \in 1 .. Len(names) /\ placed[q] \in Nat
  BY DEF FileInv, FileShape
<1>2. placed[q] # 0 /\ placed[q] <= Len(names) =>
         names'[placed[q]] = names[placed[q]] /\ placed[q] <= Len(names')
  BY <1>1
<1>3. placed[q] <= synced => placed[q] <= synced' /\ placed[q] <= Len(names)
  BY SMTT(30), <1>1
<1> QED
  BY <1>2, <1>3 DEF FileInv, FileKnows

(* Steps of one process that leave the path and the contents alone.         *)
LEMMA QuietStep ==
  ASSUME FileInv, NEW p \in Procs, UNCHANGED <<op, names, synced, data, stable, placed>>,
         NEW step \in FileSteps, NEW file \in Inodes \cup {Absent},
         at' = [at EXCEPT ![p] = step], holds' = [holds EXCEPT ![p] = file],
         bytes' \in [Procs -> {"none", "part", "whole"}],
         \A q \in Procs : q # p => (q \in temps' <=> q \in temps),
         FileKnows(p)'
  PROVE  FileInv'
<1>1. EntriesWhole' /\ EntriesPlaced'
  BY DEF FileInv, EntriesWhole, EntriesPlaced
<1>2. FileShape'
  BY Zenon DEF FileInv, FileShape
<1>3. ASSUME NEW q \in Procs, q # p PROVE FileKnows(q)'
  <2>1. at'[q] = at[q] /\ holds'[q] = holds[q]
    BY <1>3 DEF FileInv, FileShape
  <2>2. Len(names) \in Nat /\ synced \in Nat
    BY DEF FileInv, FileShape
  <2> QED
    BY <1>3, <2>1, <2>2, Bystander
<1> QED
  BY <1>1, <1>2, <1>3 DEF FileInv

(* validateDestinationAt, before the temporary file is made.                *)
LEMMA InspectStep ==
  ASSUME FileInv, NEW p \in Procs, inspect(p)
  PROVE  FileInv'
<1>1. PICK step \in FileSteps : /\ at' = [at EXCEPT ![p] = step]
                               /\ \/ step = "fill" /\ temps' = temps \cup {p}
                                  \/ step = "failed" /\ UNCHANGED temps
  BY DEF inspect, To, FileSteps, Ended
<1>2. holds' = [holds EXCEPT ![p] = holds[p]] /\ holds[p] \in Inodes \cup {Absent} /\ at'[p] = step
  BY <1>1 DEF FileInv, FileShape, inspect
<1>3. FileKnows(p)'
  <2>1. /\ at[p] = "inspect" /\ op[p] \in Temporary /\ placed[p] = 0 /\ FileKnows(p)
        /\ UNCHANGED <<op, holds, names, synced, data, stable, placed>>
    BY DEF FileInv, FileKnows, Staging, inspect
  <2> QED
    BY <1>1, <1>2, <2>1 DEF FileKnows, Staging
<1> QED
  BY Zenon, <1>1, <1>2, <1>3, QuietStep DEF FileInv, FileShape, inspect

(* validateDestinationAt, before the rename.                                *)
LEMMA ReinspectStep ==
  ASSUME FileInv, NEW p \in Procs, reinspect(p)
  PROVE  FileInv'
<1>1. PICK step \in FileSteps :
         /\ at' = [at EXCEPT ![p] = step]
         /\ \/ step = "rename" /\ UNCHANGED temps
            \/ step = "failed" /\ temps' = temps \ {p}
  <2>1. "rename" \in FileSteps /\ "failed" \in FileSteps
    BY DEF FileSteps, Ended
  <2>2. \/ at' = [at EXCEPT ![p] = "rename"] /\ UNCHANGED temps
        \/ at' = [at EXCEPT ![p] = "failed"] /\ temps' = temps \ {p}
    BY DEF reinspect, To, Cleanup
  <2> QED
    BY <2>1, <2>2, Zenon
<1>2. holds' = [holds EXCEPT ![p] = holds[p]] /\ holds[p] \in Inodes \cup {Absent} /\ at'[p] = step
  BY <1>1 DEF FileInv, FileShape, reinspect
<1>3. FileKnows(p)'
  BY Zenon, <1>1, <1>2, FileBounds DEF FileInv, FileShape, FileKnows, Staging, Temporary, Inodes,
     reinspect
<1> QED
  BY Zenon, <1>1, <1>2, <1>3, QuietStep DEF FileInv, FileShape, reinspect

(* RemoveRegular looks at the path.                                         *)
LEMMA InspectRemovalStep ==
  ASSUME FileInv, NEW p \in Procs, inspectRemoval(p)
  PROVE  FileInv'
<1>1. PICK step \in FileSteps : at' = [at EXCEPT ![p] = step] /\ step \in {"ok", "unlink", "failed"}
  BY Zenon DEF inspectRemoval, To, FileSteps, Ended
<1>2. holds' = [holds EXCEPT ![p] = holds[p]] /\ holds[p] \in Inodes \cup {Absent} /\ at'[p] = step
  BY <1>1 DEF FileInv, FileShape, inspectRemoval
<1>3. FileKnows(p)'
  BY Zenon, <1>1, <1>2, FileBounds DEF FileInv, FileShape, FileKnows, Staging, Temporary, Inodes,
     inspectRemoval
<1> QED
  BY Zenon, <1>1, <1>2, <1>3, QuietStep DEF FileInv, FileShape, inspectRemoval

(* OpenRegular resolves the path.                                           *)
LEMMA ResolveStep ==
  ASSUME FileInv, NEW p \in Procs, resolve(p)
  PROVE  FileInv'
<1>1. PICK step \in FileSteps :
         /\ at' = [at EXCEPT ![p] = step]
         /\ \/ step = "rename" /\ op[p] = "publish" /\ placed[p] = 0
            \/ step \in {"open", "failed"}
  BY Zenon DEF resolve, To, FileSteps, Ended
<1>2. holds' = [holds EXCEPT ![p] = holds[p]] /\ holds[p] \in Inodes \cup {Absent} /\ at'[p] = step
  BY <1>1 DEF FileInv, FileShape, resolve
<1>3. FileKnows(p)'
  BY ZenonT(30), <1>1, <1>2, FileBounds DEF FileInv, FileShape, FileKnows, Staging, Temporary,
     Inodes, resolve
<1> QED
  BY Zenon, <1>1, <1>2, <1>3, QuietStep DEF FileInv, FileShape, resolve

(* The path itself never names the target of a link.                        *)
LEMMA EntryIsNoTarget == FileInv => entry # Target
BY EntryIn DEF FileInv, EntriesWhole, entry

(* OpenRegular compares the opened inode with the path.                     *)
LEMMA IdentifyStep ==
  ASSUME FileInv, NEW p \in Procs, identify(p)
  PROVE  FileInv'
<1>1. PICK step \in FileSteps :
         /\ at' = [at EXCEPT ![p] = step]
         /\ \/ step = "failed"
            \/ SameFile(p) /\ step = "scan" /\ op[p] = "read"
            \/ SameFile(p) /\ step = "syncParent" /\ op[p] = "publish"
  <2>1. "scan" \in FileSteps /\ "syncParent" \in FileSteps /\ "failed" \in FileSteps
    BY DEF FileSteps, Ended
  <2> QED
    BY Zenon, <2>1 DEF identify, To
<1>2. holds' = [holds EXCEPT ![p] = holds[p]] /\ holds[p] \in Inodes \cup {Absent} /\ at'[p] = step
  BY <1>1 DEF FileInv, FileShape, identify
<1>3. FileKnows(p)'
  BY <1>1, <1>2, FileBounds, EntryIsNoTarget DEF FileInv, FileShape, FileKnows, Staging, Temporary,
     Inodes, identify, SameFile
<1> QED
  BY Zenon, <1>1, <1>2, <1>3, QuietStep DEF FileInv, FileShape, identify

(* OpenRegular opens through the root.                                      *)
LEMMA OpenStep ==
  ASSUME FileInv, NEW p \in Procs, openInRoot(p)
  PROVE  FileInv'
<1>1. PICK step \in FileSteps, file \in Inodes \cup {Absent} :
         /\ at' = [at EXCEPT ![p] = step] /\ holds' = [holds EXCEPT ![p] = file]
         /\ \/ step = "failed"
            \/ step = "identify" /\ file \in Inodes
  <2>1. entry \in Inodes \cup {Absent, Link} /\ Target \in Inodes
    BY EntryIn DEF FileInv, PathEntries, Inodes
  <2>2. CASE entry = Absent
    <3>1. holds' = [holds EXCEPT ![p] = holds[p]] /\ holds[p] \in Inodes \cup {Absent}
      BY <2>2 DEF FileInv, FileShape, openInRoot
    <3>2. at' = [at EXCEPT ![p] = "failed"] /\ "failed" \in FileSteps
      BY <2>2 DEF openInRoot, To, FileSteps, Ended
    <3> QED
      BY <3>1, <3>2, Zenon
  <2>3. CASE entry # Absent
    BY <2>1, <2>3 DEF openInRoot, To, FileSteps
  <2> QED
    BY <2>2, <2>3
<1>2. at'[p] = step /\ holds'[p] = file
  BY Zenon, <1>1 DEF FileInv, FileShape
<1>3. FileKnows(p)'
  BY <1>1, <1>2, FileBounds DEF FileInv, FileShape, FileKnows, Staging, Temporary, openInRoot
<1> QED
  BY Zenon, <1>1, <1>2, <1>3, QuietStep DEF FileInv, FileShape, openInRoot

(* A reader reads.                                                          *)
LEMMA ScanStep ==
  ASSUME FileInv, NEW p \in Procs, scan(p)
  PROVE  FileInv'
<1>1. /\ at' = [at EXCEPT ![p] = "ok"] /\ "ok" \in FileSteps /\ op[p] = "read" /\ holds[p] \in Inodes
      /\ placed[p] = 0 /\ holds[p] # Target
  BY DEF FileInv, FileKnows, Temporary, scan, To, FileSteps, Ended
<1>2. holds' = [holds EXCEPT ![p] = holds[p]] /\ at'[p] = "ok" /\ holds[p] \in Inodes \cup {Absent}
  BY <1>1 DEF FileInv, FileShape, scan
<1>3. bytes' \in [Procs -> {"none", "part", "whole"}]
  BY ZenonT(30), <1>1 DEF FileInv, FileShape, scan
<1>4. FileKnows(p)'
  BY <1>1, <1>2 DEF FileInv, FileShape, FileKnows, Staging, Temporary, scan
<1> QED
  BY Zenon, <1>1, <1>2, <1>3, <1>4, QuietStep DEF scan

(* A process writes to its own file, which is not at the path.              *)
LEMMA OwnFileStep ==
  ASSUME FileInv, NEW p \in Procs, at[p] \in {"fill", "sync"},
         UNCHANGED <<op, holds, names, synced, placed>>,
         NEW step \in FileSteps, at' = [at EXCEPT ![p] = step],
         NEW content \in {"none", "part", "whole"}, data' = [data EXCEPT ![p] = content],
         NEW durable \in BOOLEAN, stable' = [stable EXCEPT ![p] = durable],
         bytes' \in [Procs -> {"none", "part", "whole"}],
         \A q \in Procs : q # p => (q \in temps' <=> q \in temps),
         FileKnows(p)'
  PROVE  FileInv'
<1>1. FileShape'
  BY Zenon DEF FileInv, FileShape
<1>2. placed[p] = 0 /\ \A i \in 1 .. Len(names) : names[i] # p
  BY DEF FileInv, FileKnows, EntriesPlaced, Staging
<1>3. \A i \in Inodes : i # p => data'[i] = data[i] /\ stable'[i] = stable[i]
  BY Zenon DEF FileInv, FileShape
<1>4. EntriesWhole' /\ EntriesPlaced'
  <2>1. Alien \in Inodes /\ Alien # p
    BY ZenonT(30), FileBounds DEF Inodes
  <2> QED
    BY <1>2, <1>3, <2>1 DEF FileInv, EntriesWhole, EntriesPlaced
<1>5. ASSUME NEW q \in Procs, q # p PROVE FileKnows(q)'
  <2>1. at'[q] = at[q] /\ holds'[q] = holds[q] /\ data'[q] = data[q] /\ stable'[q] = stable[q]
    BY <1>3, <1>5 DEF FileInv, FileShape, Inodes
  <2>2. Len(names) \in Nat /\ synced \in Nat
    BY DEF FileInv, FileShape
  <2> QED
    BY <1>5, <2>1, <2>2, Bystander
<1> QED
  BY <1>1, <1>4, <1>5 DEF FileInv

(* A writer writes.                                                         *)
LEMMA FillStep ==
  ASSUME FileInv, NEW p \in Procs, fill(p)
  PROVE  FileInv'
<1>1. /\ at[p] = "fill" /\ op[p] \in Temporary /\ p \in temps /\ placed[p] = 0 /\ p \in Inodes
      /\ UNCHANGED <<op, holds, names, synced, stable, placed>> /\ holds[p] # Target
  BY DEF FileInv, FileKnows, Staging, fill, Inodes
<1>2. stable' = [stable EXCEPT ![p] = stable[p]] /\ stable[p] \in BOOLEAN
  BY <1>1 DEF FileInv, FileShape
<1>3. CASE at' = [at EXCEPT ![p] = "failed"] /\ temps' = temps \ {p} /\ UNCHANGED <<bytes, data>>
  <2>1. data' = [data EXCEPT ![p] = data[p]] /\ data[p] \in {"none", "part", "whole"} /\ at'[p] = "failed"
    BY Zenon, <1>1, <1>3 DEF FileInv, FileShape
  <2>2. FileKnows(p)'
    BY <1>1, <1>3, <2>1 DEF FileInv, FileKnows, Staging, Temporary
  <2>3. "failed" \in FileSteps /\ bytes' \in [Procs -> {"none", "part", "whole"}]
    BY <1>3 DEF FileInv, FileShape, FileSteps, Ended
  <2> QED
    BY Zenon, <1>1, <1>2, <1>3, <2>1, <2>2, <2>3, OwnFileStep
<1>4. CASE /\ bytes' = [bytes EXCEPT ![p] = IF @ = "none" THEN "part" ELSE "whole"]
           /\ data' = [data EXCEPT ![p] = bytes'[p]]
           /\ at' = [at EXCEPT ![p] = IF bytes[p] = "none" THEN "fill" ELSE "sync"] /\ UNCHANGED temps
  <2>1. PICK step \in FileSteps : step = IF bytes[p] = "none" THEN "fill" ELSE "sync"
    BY DEF FileSteps
  <2>2. PICK content \in {"none", "part", "whole"} : content = IF bytes[p] = "none" THEN "part" ELSE "whole"
    OBVIOUS
  <2>3. bytes' \in [Procs -> {"none", "part", "whole"}] /\ bytes'[p] = content
    BY <1>4, <2>2 DEF FileInv, FileShape
  <2>4. at' = [at EXCEPT ![p] = step] /\ data' = [data EXCEPT ![p] = content]
    BY Zenon, <1>4, <2>1, <2>3
  <2>5. at'[p] = step /\ data'[p] = content /\ (step = "sync" => content = "whole") /\ step \in {"fill", "sync"}
    BY ZenonT(30), <1>1, <2>1, <2>2, <2>4 DEF FileInv, FileShape
  <2>6. FileKnows(p)'
    BY <1>1, <1>4, <2>5 DEF FileKnows, Staging, Temporary
  <2> QED
    BY Zenon, <1>1, <1>2, <1>4, <2>3, <2>4, <2>6, OwnFileStep
<1> QED
  BY ZenonT(30), <1>3, <1>4 DEF fill, To, Cleanup

(* A writer syncs its temporary file.                                       *)
LEMMA SyncFileStep ==
  ASSUME FileInv, NEW p \in Procs, sync(p)
  PROVE  FileInv'
<1>1. /\ at[p] = "sync" /\ op[p] \in Temporary /\ p \in temps /\ placed[p] = 0 /\ p \in Inodes
      /\ UNCHANGED <<op, holds, bytes, names, synced, data, placed>> /\ holds[p] # Target
      /\ data[p] = "whole" /\ bytes' \in [Procs -> {"none", "part", "whole"}]
  BY Zenon DEF FileInv, FileShape, FileKnows, Staging, sync, Inodes
<1>2. data' = [data EXCEPT ![p] = "whole"]
  BY <1>1 DEF FileInv, FileShape
<1>3. PICK step \in FileSteps, durable \in BOOLEAN :
         /\ at' = [at EXCEPT ![p] = step] /\ stable' = [stable EXCEPT ![p] = durable]
         /\ \/ step = "reinspect" /\ durable /\ UNCHANGED temps
            \/ step = "failed" /\ temps' = temps \ {p}
  <2>1. "reinspect" \in FileSteps /\ "failed" \in FileSteps
    BY DEF FileSteps, Ended
  <2>2. stable = [stable EXCEPT ![p] = stable[p]] /\ stable[p] \in BOOLEAN
    BY <1>1 DEF FileInv, FileShape
  <2>3. CASE stable' = [stable EXCEPT ![p] = TRUE] /\ at' = [at EXCEPT ![p] = "reinspect"] /\ UNCHANGED temps
    BY <2>1, <2>3, Zenon
  <2>4. CASE stable' = stable /\ at' = [at EXCEPT ![p] = "failed"] /\ temps' = temps \ {p}
    BY ZenonT(30), <2>1, <2>2, <2>4
  <2> QED
    BY <2>3, <2>4 DEF sync, To, Cleanup
<1>4. at'[p] = step /\ stable'[p] = durable
  BY ZenonT(30), <1>1, <1>3 DEF FileInv, FileShape
<1>5. FileKnows(p)'
  BY ZenonT(30), <1>1, <1>3, <1>4 DEF FileKnows, Staging, Temporary
<1> QED
  BY Zenon, <1>1, <1>2, <1>3, <1>5, OwnFileStep

(* The path gets an entry that is whole.                                    *)
LEMMA EnterStep ==
  ASSUME FileInv, UNCHANGED <<op, holds, bytes, synced, data, stable>>, NEW e \in PathEntries,
         names' = Append(names, e), e # Target, e \in Inodes => data[e] = "whole" /\ stable[e],
         at' \in [Procs -> FileSteps], placed' \in [Procs -> Nat],
         e \in Procs => placed'[e] # 0, \A q \in Procs : placed[q] # 0 => placed'[q] # 0,
         NEW p, p \in Procs => FileKnows(p)',
         \A q \in Procs \ {p} : at'[q] = at[q] /\ placed'[q] = placed[q] /\ (q \in temps' <=> q \in temps)
  PROVE  FileInv'
<1>1. /\ names' \in Seq(PathEntries) /\ Len(names') = Len(names) + 1 /\ names'[Len(names) + 1] = e
      /\ \A i \in 1 .. Len(names) : names'[i] = names[i]
      /\ synced \in 1 .. Len(names') /\ Len(names) \in Nat
  <2>1. FileShape /\ Len(names) \in Nat
    BY SMTT(30) DEF FileInv, FileShape
  <2> QED
    BY Zenon, <2>1, Entered
<1>2. FileShape'
  BY ZenonT(30), <1>1 DEF FileInv, FileShape
<1>3. \A i \in 1 .. Len(names') : i = Len(names) + 1 \/ i \in 1 .. Len(names)
  BY <1>1
<1>4. EntriesWhole'
  BY <1>1, <1>3 DEF FileInv, EntriesWhole
<1>6. EntriesPlaced'
  <2>1. ASSUME NEW i \in 1 .. Len(names'), names'[i] \in Procs PROVE placed'[names'[i]] # 0
    <3>1. CASE i = Len(names) + 1
      BY <1>1, <2>1, <3>1
    <3>2. CASE i \in 1 .. Len(names)
      BY ZenonT(30), <1>1, <2>1, <3>2 DEF FileInv, EntriesPlaced
    <3> QED
      BY <1>3, <3>1, <3>2
  <2> QED
    BY <2>1 DEF EntriesPlaced
<1>5. ASSUME NEW q \in Procs \ {p} PROVE FileKnows(q)'
  <2>1. Len(names') \in Nat /\ Len(names) <= Len(names') /\ synced \in Nat
    BY <1>1
  <2>2. /\ at'[q] = at[q] /\ placed'[q] = placed[q] /\ (q \in temps' <=> q \in temps)
    OBVIOUS
  <2>3. holds'[q] = holds[q] /\ data'[q] = data[q] /\ stable'[q] = stable[q] /\ op' = op
    OBVIOUS
  <2> QED
    BY <1>1, <2>1, <2>2, <2>3, Bystander
<1> QED
  BY <1>2, <1>4, <1>5, <1>6 DEF FileInv

(* A temporary or staged file becomes the file.                             *)
LEMMA RenameStep ==
  ASSUME FileInv, NEW p \in Procs, renameTemporary(p)
  PROVE  FileInv'
<1>1. /\ at[p] = "rename" /\ op[p] \in Temporary \cup {"publish"} /\ placed[p] = 0 /\ p \in Inodes
      /\ UNCHANGED <<op, holds, bytes, synced, data, stable>> /\ holds[p] # Target
      /\ data[p] = "whole" /\ stable[p]
  BY ZenonT(30) DEF FileInv, FileKnows, Staging, renameTemporary, Inodes
<1>2. CASE NoReplace(op[p]) /\ entry # Absent
  <2>1. PICK step \in FileSteps : step = IF op[p] = "publish" THEN "exists" ELSE "failed"
    BY DEF FileSteps, Ended
  <2>2. /\ at' = [at EXCEPT ![p] = step] /\ UNCHANGED <<names, placed>>
        /\ temps' = IF op[p] = "publish" THEN temps ELSE temps \ {p}
    BY <1>2, <2>1 DEF renameTemporary, To
  <2>3. holds' = [holds EXCEPT ![p] = holds[p]] /\ holds[p] \in Inodes \cup {Absent} /\ at'[p] = step
    BY ZenonT(30), <1>1, <2>2 DEF FileInv, FileShape
  <2>4. FileKnows(p)'
    BY SMTT(30), <1>1, <2>1, <2>2, <2>3 DEF FileInv, FileKnows, Staging, Temporary
  <2> QED
    BY ZenonT(30), <1>1, <2>2, <2>3, <2>4, QuietStep DEF FileInv, FileShape
<1>3. CASE ~ (NoReplace(op[p]) /\ entry # Absent)
  <2>1. PICK step \in FileSteps : step = IF op[p] = "publish" THEN "resolve" ELSE "syncParent"
    BY DEF FileSteps
  <2>2. /\ at' = [at EXCEPT ![p] = step] /\ names' = Append(names, p) /\ temps' = temps \ {p}
        /\ placed' = [placed EXCEPT ![p] = Len(names')]
    BY <1>3, <2>1 DEF renameTemporary, To, Enter
  <2>3. FileShape /\ p \in PathEntries /\ p # Target
    BY ZenonT(30), FileBounds DEF FileInv, PathEntries, Inodes
  <2>4. /\ Len(names') = Len(names) + 1 /\ names'[Len(names) + 1] = p /\ Len(names) \in Nat
        /\ synced \in 1 .. Len(names)
    BY <2>2, <2>3, Entered DEF FileShape
  <2>5. at' \in [Procs -> FileSteps] /\ placed' \in [Procs -> Nat]
    BY <2>2, <2>4 DEF FileInv, FileShape
  <2>6. at'[p] = step /\ placed'[p] = Len(names) + 1
    BY ZenonT(30), <2>2, <2>4 DEF FileInv, FileShape
  <2>7. FileKnows(p)'
    BY <1>1, <2>1, <2>2, <2>4, <2>6 DEF FileInv, FileKnows, Staging, Temporary
  <2>8. \A q \in Procs \ {p} : at'[q] = at[q] /\ placed'[q] = placed[q] /\ (q \in temps' <=> q \in temps)
    BY ZenonT(30), <2>2 DEF FileInv, FileShape
  <2>9. \A q \in Procs : placed[q] # 0 => placed'[q] # 0
    BY ZenonT(30), <1>1, <2>8
  <2>10. p \in Inodes => data[p] = "whole" /\ stable[p]
    BY <1>1
  <2>11. p \in Procs => placed'[p] # 0
    BY <2>4, <2>6
  <2>12. p \in Procs => FileKnows(p)'
    BY <2>7
  <2> QED
    BY <1>1, <2>2, <2>3, <2>5, <2>8, <2>9, <2>10, <2>11, <2>12, EnterStep
<1> QED
  BY ZenonT(30), <1>2, <1>3

(* RemoveRegular unlinks.                                                   *)
LEMMA UnlinkStep ==
  ASSUME FileInv, NEW p \in Procs, unlink(p)
  PROVE  FileInv'
<1>1. /\ at[p] = "unlink" /\ UNCHANGED <<op, holds, bytes, synced, data, stable, temps, placed>>
      /\ Absent \in PathEntries /\ Absent \notin Inodes /\ Absent # Target /\ Absent \notin Procs
      /\ FileShape
  BY Zenon, FileBounds DEF FileInv, unlink, PathEntries, Inodes
<1>2. CASE at' = [at EXCEPT ![p] = "failed"] /\ UNCHANGED names
  <2>1. "failed" \in FileSteps
    BY DEF FileSteps, Ended
  <2>2. holds' = [holds EXCEPT ![p] = holds[p]] /\ holds[p] \in Inodes \cup {Absent} /\ at'[p] = "failed"
    BY ZenonT(30), <1>1, <1>2 DEF FileShape
  <2>3. FileKnows(p)'
    BY ZenonT(30), <1>1, <1>2, <2>2 DEF FileInv, FileKnows, Staging, Temporary
  <2> QED
    BY ZenonT(30), <1>1, <1>2, <2>1, <2>2, <2>3, QuietStep DEF FileShape
<1>3. CASE at' = [at EXCEPT ![p] = "syncParent"] /\ names' = Append(names, Absent)
  <2>1. at' \in [Procs -> FileSteps] /\ at'[p] = "syncParent" /\ placed \in [Procs -> Nat]
    BY ZenonT(30), <1>1, <1>3 DEF FileShape, FileSteps
  <2>2. Len(names') = Len(names) + 1 /\ Len(names) \in Nat /\ \A i \in 1 .. Len(names) : names'[i] = names[i]
    BY SMTT(30), <1>1, <1>3, Entered DEF FileShape
  <2>3. FileKnows(p)'
    <3>1. op[p] = "remove" /\ placed[p] = 0
      BY <1>1 DEF FileInv, FileKnows, Temporary
    <3> QED
      BY ZenonT(30), <1>1, <2>1, <3>1 DEF FileInv, FileKnows, Staging, Temporary
  <2>4. \A q \in Procs \ {p} : at'[q] = at[q] /\ placed'[q] = placed[q] /\ (q \in temps' <=> q \in temps)
    BY <1>1, <1>3 DEF FileShape
  <2> QED
    BY Zenon, <1>1, <1>3, <2>1, <2>3, <2>4, EnterStep
<1> QED
  BY <1>2, <1>3 DEF unlink, To, Enter

(* The directory is synced and the operation returns.                       *)
LEMMA SyncParentStep ==
  ASSUME FileInv, NEW p \in Procs, syncParent(p)
  PROVE  FileInv'
<1>1. /\ at[p] = "syncParent" /\ UNCHANGED <<op, holds, bytes, names, data, stable, temps, placed>>
      /\ Len(names) \in Nat /\ synced \in 1 .. Len(names) /\ holds[p] # Target
      /\ placed[p] # 0 => placed[p] <= Len(names) /\ names[placed[p]] = p
  <2>1. at[p] = "syncParent" /\ UNCHANGED <<op, holds, bytes, names, data, stable, temps, placed>>
    BY DEF syncParent
  <2>2. FileKnows(p) /\ Len(names) \in Nat /\ synced \in 1 .. Len(names)
    BY DEF FileInv, FileShape
  <2> QED
    BY <2>1, <2>2 DEF FileKnows
<1>2. PICK step \in FileSteps : /\ at' = [at EXCEPT ![p] = step]
                               /\ \/ step = "ok" /\ synced' = Len(names)
                                  \/ step = "failed" /\ UNCHANGED synced
  <2>1. "ok" \in FileSteps /\ "failed" \in FileSteps
    BY DEF FileSteps, Ended
  <2> QED
    BY <2>1 DEF syncParent, To
<1>3. synced' \in 1 .. Len(names) /\ synced <= synced'
  BY SMTT(30), <1>1, <1>2
<1>4. FileShape'
  BY ZenonT(30), <1>1, <1>2, <1>3 DEF FileInv, FileShape
<1>5. EntriesWhole' /\ EntriesPlaced'
  BY <1>1 DEF FileInv, EntriesWhole, EntriesPlaced
<1>6. at'[p] = step /\ \A q \in Procs \ {p} : at'[q] = at[q]
  BY ZenonT(30), <1>2 DEF FileInv, FileShape
<1>7. FileKnows(p)'
  <2>1. FileKnows(p)
    BY ZenonT(30) DEF FileInv
  <2>2. \/ at'[p] = "ok" /\ (placed[p] # 0 => placed[p] <= synced' /\ names[placed[p]] = p)
        \/ at'[p] = "failed"
    BY ZenonT(30), <1>1, <1>2, <1>6
  <2> QED
    BY Zenon, <1>1, <2>1, <2>2 DEF FileKnows, Staging
<1>8. ASSUME NEW q \in Procs, q # p PROVE FileKnows(q)'
  <2>1. at'[q] = at[q] /\ synced \in Nat /\ synced' \in Nat
    BY SMTT(30), <1>1, <1>3, <1>6, <1>8
  <2> QED
    BY SMTT(30), <1>1, <1>3, <2>1, Bystander
<1> QED
  BY ZenonT(30), <1>4, <1>5, <1>7, <1>8 DEF FileInv

(* The owner of the directory swaps the entry.                              *)
LEMMA SwapStep ==
  ASSUME FileInv, Swap
  PROVE  FileInv'
<1>1. PICK e \in {Absent, Link, Alien} : names' = Append(names, e)
  BY DEF Swap, Enter
<1>2. e \in PathEntries /\ e # Target /\ e \notin Procs /\ (e \in Inodes => e = Alien)
  BY Zenon, FileBounds DEF PathEntries, Inodes
<1>3. data[Alien] = "whole" /\ stable[Alien]
  BY DEF FileInv, EntriesWhole
<1> QED
  BY ZenonT(30), <1>1, <1>2, <1>3, EnterStep, FileBounds DEF Swap, FileInv, FileShape

LEMMA StillSynced ==
  ASSUME NEW n \in Nat, NEW k \in 1 .. n, NEW l \in k .. n
  PROVE  k \in 1 .. l
BY SMTT(30)

(* Power fails.                                                             *)
LEMMA PowerLossStep ==
  ASSUME FileInv, PowerLoss
  PROVE  FileInv'
<1>1. PICK last \in synced .. Len(names) : names' = SubSeq(names, 1, last)
  BY DEF PowerLoss
<1>2. Len(names) \in Nat /\ synced \in 1 .. Len(names) /\ last \in 1 .. Len(names)
  BY SMTT(30), <1>1 DEF FileInv, FileShape
<1>3. /\ names' \in Seq(PathEntries) /\ Len(names') = last
      /\ \A i \in 1 .. last : names'[i] = names[i]
  BY SMTT(30), <1>1, <1>2 DEF FileInv, FileShape
<1>4. /\ UNCHANGED <<op, holds, bytes, synced, stable, temps, placed>>
      /\ at' = [p \in Procs |-> IF at[p] \in Ended THEN at[p] ELSE "lost"]
      /\ data' = [i \in Inodes |-> IF stable[i] THEN data[i] ELSE "part"]
  BY Zenon DEF PowerLoss
<1>5. at' \in [Procs -> FileSteps] /\ data' \in [Inodes -> {"none", "part", "whole"}]
  BY ZenonT(30), <1>4 DEF FileInv, FileShape, FileSteps, Ended
<1>6. FileShape'
  <2>1. synced' \in 1 .. Len(names')
    BY Zenon, <1>1, <1>2, <1>3, <1>4, StillSynced
  <2>2. op \in [Procs -> OpKinds] /\ holds \in [Procs -> Inodes \cup {Absent}] /\ placed \in [Procs -> Nat]
    BY Zenon DEF FileInv, FileShape
  <2>3. bytes \in [Procs -> {"none", "part", "whole"}] /\ stable \in [Inodes -> BOOLEAN]
    BY Zenon DEF FileInv, FileShape
  <2> QED
    BY Zenon, <1>3, <1>4, <1>5, <2>1, <2>2, <2>3 DEF FileShape
<1>7. \A i \in 1 .. Len(names') : i \in 1 .. Len(names) /\ names'[i] = names[i]
  BY SMTT(30), <1>2, <1>3
<1>8. \A f \in Inodes : stable[f] => data'[f] = data[f]
  BY ZenonT(30), <1>4
<1>9. EntriesWhole'
  BY SMTT(30), <1>4, <1>7, <1>8 DEF FileInv, EntriesWhole, Inodes
<1>10. EntriesPlaced'
  BY ZenonT(30), <1>4, <1>7 DEF FileInv, EntriesPlaced
<1>11. ASSUME NEW p \in Procs PROVE FileKnows(p)'
  <2>1. at'[p] \in Ended /\ (at'[p] # "lost" => at'[p] = at[p]) /\ placed[p] \in Nat /\ FileKnows(p)
    BY ZenonT(30), <1>4 DEF FileInv, FileShape, Ended
  <2>2. op[p] = "publish" => data'[p] = "whole"
    BY Zenon, <1>8, <2>1 DEF FileKnows, Inodes
  <2>3. placed[p] # 0 /\ placed[p] <= synced => names'[placed[p]] = names[placed[p]]
    BY <1>1, <1>2, <1>3, <2>1
  <2> QED
    BY ZenonT(30), <1>4, <2>1, <2>2, <2>3 DEF FileKnows, Ended, Staging
<1> QED
  BY <1>6, <1>9, <1>10, <1>11 DEF FileInv

(* Every step keeps the invariant.                                          *)
LEMMA FilePreserved == FileInv /\ [FileNext]_fileVars => FileInv'
<1> SUFFICES ASSUME FileInv, [FileNext]_fileVars PROVE FileInv'
  OBVIOUS
<1>1. ASSUME NEW p \in Procs, FileStep(p) PROVE FileInv'
  BY ZenonT(30), <1>1, InspectStep, FillStep, SyncFileStep, ReinspectStep, RenameStep, SyncParentStep,
     InspectRemovalStep, UnlinkStep, ResolveStep, OpenStep, IdentifyStep, ScanStep DEF FileStep
<1>2. CASE UNCHANGED fileVars
  BY ZenonT(30), <1>2 DEF fileVars, FileInv, FileShape, EntriesWhole, EntriesPlaced, FileKnows
<1> QED
  BY <1>1, <1>2, SwapStep, PowerLossStep DEF FileNext

(* The invariant holds throughout.                                          *)
LEMMA FileInvariance == FileSpec => []FileInv
BY FileInitially, FilePreserved, PTL DEF FileSpec

(* What is at the path is whole, what returned success survives a power     *)
(* failure, and nobody reads through a link, whatever else runs.            *)
THEOREM FilesAlwaysSurvive == FileSpec => []FilesSurvive
BY FileInvariance, FileImplies, PTL

----------------------------------------------------------------------------
(***************************************************************************)
(* The credentials, for any number of processes, generated values, age     *)
(* identities, owner's changes and interruptions.  PublishedIsWhole and    *)
(* AppliedAgrees speak of the published source and the cluster; to be      *)
(* inductive they need what a command has read and validated, where it     *)
(* stands and that nobody else is inside the project lock meanwhile, and   *)
(* that every value of a stored or read document was written once.         *)
(***************************************************************************)

CredRuns ==
    [step : Steps, kind : Kinds, phase : {"first", "handoff"}, over : Docs \cup {None},
     doc : Docs \cup {None}, key : 0 .. MaxKeys, staged : [MemberSet -> Entries], member : 1 .. 3]

CredShape ==
    /\ localDoc \in {None, Broken} \cup Docs /\ sopsDoc \in {None, Broken} \cup Docs
    /\ keys \in 0 .. MaxKeys /\ ageKey \in 0 .. keys /\ made \in 0 .. MaxMade
    /\ source \in [MemberSet -> Entries] /\ main \in [MemberSet -> Entries]

(* Every value of a document was stored once.                               *)
Stored(doc) == \A f \in Fields : doc[f] \in written \cup {0}

FilesStored ==
    /\ localDoc \in Docs => Stored(localDoc)
    /\ sopsDoc \in Docs => Stored(sopsDoc)

(* What a command has read ...                                              *)
ReadStored(r) ==
    /\ r.over \in Docs => Stored(r.over)
    /\ r.doc \in Docs => Stored(r.doc) /\ Valid(r.doc)

(* ... and what it knows where it is.                                       *)
CredKnows(p, r) ==
    /\ r.step \notin {"idle", "staged"} => project = p
    /\ r.step \in {"agekey", "write", "seed", "converge", "bootstrap"} => r.doc \in Docs
    /\ r.step \in {"seed", "converge"} => r.phase = "first"
    /\ r.step \in {"seed", "converge"} \/ r.phase = "handoff" => r.kind \notin {"validate", "render"}
    /\ r.phase = "handoff" =>
         /\ r.step \in {"local", "sops", "bootstrap", "project", "applied"}
         /\ main = r.staged /\ main["ca"].of = nodes
    /\ r.step = "converge" => main = r.staged /\ main["ca"].of = r.doc["cert"]
    /\ r.step \in {"bootstrap", "project", "applied"} => r.phase = "handoff"
    /\ r.step \in {"project", "applied"} => \A m \in MemberSet : main[m].to = r.key
    /\ r.step = "applied" => clusterKey = r.key

CredInv ==
    /\ CredShape /\ run \in [Commands -> CredRuns] /\ FilesStored /\ PublishedIsWhole
    /\ \A p \in Commands : ReadStored(run[p]) /\ CredKnows(p, run[p])

(* An idle command has the type of a command.                               *)
LEMMA IdleRun == Idle \in CredRuns
BY SMTT(30), CredentialBounds DEF Idle, CredRuns, Steps, Kinds, Unrendered, Entries, MemberSet

(* So has one that goes on with another key, source or document.            *)
LEMMA RunFields ==
  ASSUME NEW r \in CredRuns, NEW step \in Steps
  PROVE  /\ [r EXCEPT !.step = step] \in CredRuns
         /\ \A k \in 0 .. MaxKeys : [r EXCEPT !.step = step, !.key = k] \in CredRuns
         /\ \A src \in [MemberSet -> Entries] : [r EXCEPT !.step = step, !.staged = src] \in CredRuns
         /\ \A doc \in Docs : [r EXCEPT !.step = step, !.over = doc] \in CredRuns
         /\ \A doc \in Docs : [r EXCEPT !.step = step, !.doc = doc, !.over = None] \in CredRuns
         /\ [r EXCEPT !.step = step, !.phase = "handoff", !.doc = None] \in CredRuns
BY Zenon DEF CredRuns

(* A command that does nothing knows nothing ...                            *)
LEMMA IdleKnows == \A p : ReadStored(Idle) /\ CredKnows(p, Idle)
BY Zenon, CredentialBounds DEF ReadStored, CredKnows, Idle

(* ... before and after a step.                                             *)
LEMMA IdleKnowsNext == \A p : ReadStored(Idle)' /\ CredKnows(p, Idle)'
BY Zenon, CredentialBounds DEF ReadStored, CredKnows, Idle

(* A project without credentials satisfies the invariant.                   *)
LEMMA CredInitially == CredInit => CredInv
<1> SUFFICES ASSUME CredInit PROVE CredInv
  OBVIOUS
<1>1. CredShape
  BY CredentialBounds DEF CredInit, CredShape, Unrendered, Entries
<1>2. FilesStored
  BY Zenon, CredentialBounds DEF CredInit, FilesStored
<1>3. PublishedIsWhole
  BY DEF CredInit, PublishedIsWhole
<1> QED
  BY Zenon, <1>1, <1>2, <1>3, IdleRun, IdleKnows DEF CredInv, CredInit

(* What RenderFluxSource writes for one document and one recipient.         *)
LEMMA RenderedIs ==
  ASSUME NEW doc \in Docs, NEW key \in 0 .. MaxKeys
  PROVE  /\ Rendered(doc, key) \in [MemberSet -> Entries]
         /\ Rendered(doc, key) = [config |-> [of |-> 0, to |-> key],
              seed |-> [of |-> doc["seed"], to |-> key], ca |-> [of |-> doc["cert"], to |-> key]]
BY CredentialBounds DEF Rendered, Digest, DeriveStatefulProjection, RootCADigest, MemberSet,
   Entries, Docs, Fields

(* A step of a command that has the lock, or takes it: the others are outside.  *)
LEMMA CredMoves ==
  ASSUME CredInv, NEW p \in Commands, NEW r \in CredRuns, project \in {None, p},
         run' = [run EXCEPT ![p] = r], written \subseteq written',
         CredShape', FilesStored', PublishedIsWhole', ReadStored(r)', CredKnows(p, r)'
  PROVE  CredInv'
<1>1. run' \in [Commands -> CredRuns] /\ run'[p] = r /\ \A q \in Commands : q # p => run'[q] = run[q]
  BY Zenon DEF CredInv
<1>2. ASSUME NEW q \in Commands, q # p PROVE ReadStored(run[q])'
  BY ZenonT(30), <1>1, <1>2 DEF CredInv, ReadStored, Stored
<1>3. ASSUME NEW q \in Commands, q # p PROVE CredKnows(q, run[q])'
  <2>1. run[q].step \in {"idle", "staged"}
    BY Zenon, <1>3, CredentialBounds DEF CredInv, CredKnows
  <2>2. run[q].phase # "handoff"
    BY Zenon, <2>1 DEF CredInv, CredKnows
  <2> QED
    BY Zenon, <1>1, <1>3, <2>1, <2>2 DEF CredKnows
<1> QED
  BY <1>1, <1>2, <1>3 DEF CredInv

(* What such steps need of the shape of the files.                          *)
LEMMA CredFiles ==
  ASSUME CredInv
  PROVE  /\ source \in [MemberSet -> Entries] /\ ageKey \in 0 .. keys
         /\ keys \in keys .. MaxKeys /\ 0 \in 0 .. keys
BY CredentialBounds DEF CredInv, CredShape

(* Steps that leave the documents and the published source alone.           *)
LEMMA CredQuiet ==
  ASSUME CredInv, UNCHANGED <<localDoc, sopsDoc, main, written, made>>,
         source' \in [MemberSet -> Entries], keys' \in keys .. MaxKeys, ageKey' \in 0 .. keys'
  PROVE  CredShape' /\ FilesStored' /\ PublishedIsWhole'
<1>1. CredShape'
  BY CredentialBounds DEF CredInv, CredShape
<1>2. FilesStored'
  BY Zenon DEF CredInv, FilesStored, Stored
<1>3. PublishedIsWhole'
  <2>1. 1 .. keys \subseteq 1 .. keys'
    BY CredentialBounds DEF CredInv, CredShape
  <2> QED
    BY Zenon, <2>1 DEF CredInv, PublishedIsWhole
<1> QED
  BY Zenon, <1>1, <1>2, <1>3

(* A command ends.                                                          *)
LEMMA CredEnds ==
  ASSUME CredInv, NEW p \in Commands, project \in {None, p}, End(p), written \subseteq written',
         CredShape', FilesStored', PublishedIsWhole'
  PROVE  CredInv'
BY Zenon, CredMoves, IdleRun, IdleKnowsNext DEF End

(* Steps that change no file at all.                                        *)
LEMMA Unchanging ==
  ASSUME CredInv, UNCHANGED <<files, main, counts>>
  PROVE  written \subseteq written' /\ CredShape' /\ FilesStored' /\ PublishedIsWhole'
BY Zenon, CredQuiet, CredFiles DEF files, counts

(* A step inside the lock that has read a document and leaves the rest.     *)
LEMMA CredLoads ==
  ASSUME CredInv, NEW p \in Commands, project = p, NEW doc \in Docs, Valid(doc), Stored(doc)',
         run[p].step \in {"local", "sops", "generate"}, Loaded(p, doc), UNCHANGED main,
         nodes' = nodes, written \subseteq written', CredShape', FilesStored', PublishedIsWhole'
  PROVE  CredInv'
<1>1. CASE run[p].kind = "validate"
  BY <1>1, CredEnds DEF Loaded
<1>2. CASE run[p].kind # "validate"
  <2>1. PICK next \in Steps :
           next = IF run[p].kind = "render" THEN "agekey"
                  ELSE IF run[p].phase = "first" THEN "seed" ELSE "bootstrap"
    BY DEF Steps
  <2>2. [run[p] EXCEPT !.step = next, !.doc = doc, !.over = None] \in CredRuns
    BY ZenonT(30), RunFields DEF CredInv, CredShape, Steps
  <2>3. PICK r \in CredRuns : r = [run[p] EXCEPT !.step = next, !.doc = doc, !.over = None]
    BY <2>2
  <2>4. run' = [run EXCEPT ![p] = r] /\ project' = project
    BY Zenon, <1>2, <2>1, <2>3 DEF Loaded
  <2>5. ReadStored(r)'
    BY <2>3, CredentialBounds DEF CredInv, CredRuns, ReadStored, Stored, Valid
  <2>6. CredKnows(p, r)'
    BY <1>2, <2>1, <2>3, <2>4 DEF CredInv, CredRuns, CredKnows
  <2> QED
    BY Zenon, <2>4, <2>5, <2>6, CredMoves
<1> QED
  BY <1>1, <1>2

(* A step of a command that changes no file.                                *)
LEMMA CredGoes ==
  ASSUME CredInv, NEW p \in Commands, NEW r \in CredRuns, project \in {None, p},
         run' = [run EXCEPT ![p] = r], UNCHANGED <<files, main, counts>>,
         ReadStored(r)', CredKnows(p, r)'
  PROVE  CredInv'
BY Zenon, CredMoves, Unchanging

(* What generate makes is a valid document of stored values.                *)
LEMMA Generated ==
  ASSUME CredInv, made < MaxMade, written' = written \cup Values(generate), made' = made + 1
  PROVE  /\ generate \in Docs /\ Valid(generate) /\ made' \in 0 .. MaxMade
         /\ \A f \in Fields : generate[f] \in written'
BY CredentialBounds DEF CredInv, CredShape, generate, Docs, Valid, Values, Fields

(* EnsureFluxAgeIdentity returns a stored identity.                         *)
LEMMA FromZero == \A b : \A c \in 1 .. b : c \in 0 .. b
BY SMTT(30)

LEMMA KeyEnsured ==
  ASSUME CredInv, EnsureFluxAgeIdentity
  PROVE  keys' \in keys .. MaxKeys /\ ageKey' \in 1 .. keys' /\ ageKey' \in 0 .. MaxKeys
BY CredentialBounds DEF CredInv, CredShape, EnsureFluxAgeIdentity

(* A command starts under the project lock.                                 *)
LEMMA StepBegin ==
  ASSUME CredInv, NEW p \in Commands, NEW kind \in Runs[p], Begin(p, kind)
  PROVE  CredInv'
<1>1. kind \in Kinds /\ First(kind) \in Steps /\ First(kind) \in {"create", "lock", "local", "staging"}
  BY CredentialBounds DEF Kinds, First, Steps
<1>2. PICK r \in CredRuns : r = [Idle EXCEPT !.kind = kind, !.step = First(kind)]
  BY Zenon, <1>1, IdleRun DEF CredRuns
<1>3. ReadStored(r)' /\ CredKnows(p, r)'
  BY <1>1, <1>2, CredentialBounds DEF ReadStored, CredKnows, Idle, Begin
<1> QED
  BY Zenon, <1>2, <1>3, CredGoes DEF Begin, outside

(* Prepare copies the source and lets the lock go.                          *)
LEMMA StepStage ==
  ASSUME CredInv, NEW p \in Commands, stageSource(p)
  PROVE  CredInv'
<1>1. [run[p] EXCEPT !.step = "staged", !.staged = source] \in CredRuns
  BY Zenon, RunFields DEF CredInv, CredShape, Steps
<1>2. PICK r \in CredRuns : r = [run[p] EXCEPT !.step = "staged", !.staged = source]
  BY <1>1
<1>3. ReadStored(r)' /\ CredKnows(p, r)' /\ project = p
  BY <1>2 DEF CredInv, CredRuns, ReadStored, Stored, CredKnows, stageSource, counts
<1> QED
  BY Zenon, <1>2, <1>3, CredGoes DEF stageSource, outside

(* An apply takes the lock again.                                           *)
LEMMA StepRelock ==
  ASSUME CredInv, NEW p \in Commands, relock(p)
  PROVE  CredInv'
<1>1. PICK r \in CredRuns : r = [run[p] EXCEPT !.step = "lock"]
  BY Zenon, RunFields DEF CredInv, CredShape, Steps
<1>2. ReadStored(r)' /\ CredKnows(p, r)'
  BY ZenonT(30), <1>1 DEF CredInv, CredRuns, ReadStored, Stored, CredKnows, relock, counts
<1> QED
  BY Zenon, <1>1, <1>2, CredGoes DEF relock, Goto, outside

(* LoadOrCreateLocal takes its lock.                                        *)
LEMMA StepLock ==
  ASSUME CredInv, NEW p \in Commands, LoadOrCreateLocal(p)
  PROVE  CredInv'
<1>1. PICK r \in CredRuns : r = [run[p] EXCEPT !.step = "local"]
  BY Zenon, RunFields DEF CredInv, CredShape, Steps
<1>2. ReadStored(r)' /\ CredKnows(p, r)'
  BY <1>1 DEF CredInv, CredRuns, ReadStored, Stored, CredKnows, LoadOrCreateLocal, counts
<1> QED
  BY ZenonT(30), <1>1, <1>2, CredGoes DEF CredInv, CredKnows, LoadOrCreateLocal, Goto, outside

(* Init creates a document or leaves the one there is.                      *)
LEMMA StepInit ==
  ASSUME CredInv, NEW p \in Commands, Init(p)
  PROVE  CredInv'
<1>1. project \in {None, p} /\ End(p)
  BY SMTT(30) DEF CredInv, CredKnows, Init
<1>2. UNCHANGED <<ageKey, source, main, nodes, clusterKey, keys, owner>>
  BY Zenon DEF Init, outside
<1>3. CASE UNCHANGED <<localDoc, sopsDoc, made, written>>
  BY <1>1, <1>2, <1>3, Unchanging, CredEnds DEF files, counts
<1>4. CASE /\ made < MaxMade /\ made' = made + 1 /\ written' = written \cup Values(generate)
           /\ \/ localDoc' = generate /\ UNCHANGED sopsDoc
              \/ sopsDoc' = generate /\ UNCHANGED localDoc
  <2>1. /\ generate \in Docs /\ Valid(generate) /\ made' \in 0 .. MaxMade
        /\ \A f \in Fields : generate[f] \in written'
    BY Zenon, <1>4, Generated
  <2>2. CredShape'
    BY <1>2, <1>4, <2>1 DEF CredInv, CredShape
  <2>3. FilesStored'
    BY Zenon, <1>4, <2>1 DEF CredInv, FilesStored, Stored
  <2>4. PublishedIsWhole'
    BY <1>2, <1>4 DEF CredInv, PublishedIsWhole
  <2> QED
    BY <1>1, <1>4, <2>2, <2>3, <2>4, CredEnds
<1> QED
  BY Zenon, <1>3, <1>4 DEF Init

(* Load reads the override.                                                 *)
LEMMA StepReadLocal ==
  ASSUME CredInv, NEW p \in Commands, readLocal(p)
  PROVE  CredInv'
<1>1. run[p].step = "local" /\ project = p /\ UNCHANGED <<files, outside, counts>>
  BY DEF CredInv, CredKnows, readLocal
<1>2. /\ UNCHANGED <<main, nodes>> /\ written \subseteq written'
      /\ CredShape' /\ FilesStored' /\ PublishedIsWhole'
  BY Zenon, <1>1, Unchanging DEF outside
<1>3. CASE End(p)
  BY Zenon, <1>1, <1>2, <1>3, CredEnds
<1>4. CASE localDoc = None /\ Goto(p, "sops") /\ UNCHANGED project
  <2>1. PICK r \in CredRuns : r = [run[p] EXCEPT !.step = "sops"]
    BY Zenon, RunFields DEF CredInv, CredShape, Steps
  <2>2. ReadStored(r)' /\ CredKnows(p, r)'
    BY <1>1, <1>4, <2>1 DEF CredInv, CredRuns, ReadStored, Stored, CredKnows, counts, outside
  <2> QED
    BY Zenon, <1>1, <1>2, <1>4, <2>1, <2>2, CredMoves DEF Goto
<1>5. CASE localDoc \in Docs /\ Valid(localDoc) /\ Loaded(p, localDoc)
  <2>1. PICK doc \in Docs : doc = localDoc
    BY <1>5
  <2>2. Stored(doc)'
    BY <1>1, <2>1 DEF CredInv, FilesStored, Stored, counts
  <2> QED
    BY Zenon, <1>1, <1>2, <1>5, <2>1, <2>2, CredLoads
<1>6. CASE /\ localDoc \in Docs /\ UNCHANGED project
           /\ run' = [run EXCEPT ![p].step = "sops", ![p].over = localDoc]
  <2>1. [run[p] EXCEPT !.step = "sops", !.over = localDoc] \in CredRuns
    BY Zenon, <1>6, RunFields DEF CredInv, CredShape, Steps
  <2>2. PICK r \in CredRuns : r = [run[p] EXCEPT !.step = "sops", !.over = localDoc]
    BY <2>1
  <2>3. CredKnows(p, r)'
    BY <1>1, <1>6, <2>2 DEF CredInv, CredRuns, CredKnows, outside
  <2>4. ReadStored(r)'
    BY <1>1, <1>6, <2>2 DEF CredInv, CredRuns, ReadStored, FilesStored, Stored, counts
  <2> QED
    BY Zenon, <1>1, <1>2, <1>6, <2>2, <2>3, <2>4, CredMoves
<1> QED
  BY <1>3, <1>4, <1>5, <1>6, CredentialBounds DEF CredInv, CredShape, readLocal

(* An overlay of stored documents is one.                                   *)
LEMMA Overlaid ==
  ASSUME NEW doc \in Docs, NEW over \in Docs, Stored(doc), Stored(over)
  PROVE  applyOverride(doc, over) \in Docs /\ Stored(applyOverride(doc, over))
BY DEF applyOverride, Docs, Stored

(* Load reads the committed document.                                       *)
LEMMA StepReadSOPS ==
  ASSUME CredInv, NEW p \in Commands, readSOPS(p)
  PROVE  CredInv'
<1>1. run[p].step = "sops" /\ project = p /\ UNCHANGED <<files, outside, counts>>
  BY Zenon DEF CredInv, CredKnows, readSOPS
<1>2. /\ UNCHANGED <<main, nodes>> /\ written \subseteq written'
      /\ CredShape' /\ FilesStored' /\ PublishedIsWhole'
  BY Zenon, <1>1, Unchanging DEF outside
<1>3. CASE End(p)
  BY <1>1, <1>2, <1>3, CredEnds
<1>4. CASE Ensures(p) /\ Goto(p, "generate") /\ UNCHANGED project
  <2>1. PICK r \in CredRuns : r = [run[p] EXCEPT !.step = "generate"]
    BY Zenon, RunFields DEF CredInv, CredShape, Steps
  <2>2. ReadStored(r)' /\ CredKnows(p, r)'
    BY ZenonT(30), <1>1, <1>4, <2>1 DEF CredInv, CredRuns, ReadStored, Stored, CredKnows, Ensures,
       counts, outside
  <2> QED
    BY Zenon, <1>1, <1>2, <1>4, <2>1, <2>2, CredMoves DEF Goto
<1>5. ASSUME NEW override, override = IF run[p].over = None THEN Empty ELSE run[p].over,
             sopsDoc \in Docs, Valid(applyOverride(sopsDoc, override)),
             Loaded(p, applyOverride(sopsDoc, override))
      PROVE  CredInv'
  <2>1. override \in Docs /\ Stored(override)
    BY <1>5, CredentialBounds DEF CredInv, CredRuns, ReadStored, Stored, Empty, Docs
  <2>2. PICK doc \in Docs : doc = applyOverride(sopsDoc, override) /\ Stored(doc)
    BY <1>5, <2>1, Overlaid DEF CredInv, FilesStored
  <2>3. Stored(doc)'
    BY Zenon, <1>1, <2>2 DEF Stored, counts
  <2> QED
    BY Zenon, <1>1, <1>2, <1>5, <2>2, <2>3, CredLoads
<1> QED
  BY <1>3, <1>4, <1>5 DEF readSOPS

(* LoadOrCreateLocal creates the override, or loads the one that appeared.  *)
LEMMA StepCreate ==
  ASSUME CredInv, NEW p \in Commands, createLocal(p)
  PROVE  CredInv'
<1>1. /\ run[p].step = "generate" /\ project = p /\ made < MaxMade
      /\ UNCHANGED <<sopsDoc, ageKey, source, main, nodes, clusterKey, keys, owner>>
  BY ZenonT(30) DEF CredInv, CredKnows, createLocal, outside
<1>2. CASE /\ localDoc' = generate /\ made' = made + 1 /\ written' = written \cup Values(generate)
           /\ Loaded(p, generate)
  <2>1. /\ generate \in Docs /\ Valid(generate) /\ made' \in 0 .. MaxMade
        /\ \A f \in Fields : generate[f] \in written'
    BY <1>1, <1>2, Generated
  <2>2. PICK doc \in Docs : doc = generate
    BY <2>1
  <2>3. Stored(doc)'
    BY <2>1, <2>2 DEF Stored
  <2>4. CredShape'
    BY ZenonT(30), <1>1, <1>2, <2>1 DEF CredInv, CredShape
  <2>5. FilesStored'
    BY Zenon, <1>1, <1>2, <2>1 DEF CredInv, FilesStored, Stored
  <2>6. PublishedIsWhole'
    BY <1>1, <1>2 DEF CredInv, PublishedIsWhole
  <2> QED
    BY ZenonT(30), <1>1, <1>2, <2>1, <2>2, <2>3, <2>4, <2>5, <2>6, CredLoads
<1>3. CASE Goto(p, "local") /\ UNCHANGED <<localDoc, made, written, project>>
  <2>1. PICK r \in CredRuns : r = [run[p] EXCEPT !.step = "local"]
    BY Zenon, RunFields DEF CredInv, CredShape, Steps
  <2>2. ReadStored(r)' /\ CredKnows(p, r)'
    BY <1>1, <1>3, <2>1 DEF CredInv, CredRuns, ReadStored, Stored, CredKnows
  <2> QED
    BY Zenon, <1>1, <1>3, <2>1, <2>2, CredGoes DEF Goto, files, counts
<1> QED
  BY ZenonT(30), <1>2, <1>3 DEF createLocal

(* Rendering ensures the age identity.                                      *)
LEMMA StepIdentity ==
  ASSUME CredInv, NEW p \in Commands, renderIdentity(p)
  PROVE  CredInv'
<1>1. /\ run[p].step = "agekey" /\ project = p /\ EnsureFluxAgeIdentity
      /\ UNCHANGED <<localDoc, sopsDoc, source, main, nodes, clusterKey, project, made, written>>
  BY Zenon DEF CredInv, CredKnows, renderIdentity, outside
<1>2. keys' \in keys .. MaxKeys /\ ageKey' \in 0 .. keys' /\ ageKey' \in 0 .. MaxKeys
  BY ZenonT(30), <1>1, KeyEnsured, FromZero
<1>3. CredShape' /\ FilesStored' /\ PublishedIsWhole'
  BY <1>1, <1>2, CredQuiet, CredFiles
<1>4. PICK k \in 0 .. MaxKeys : k = ageKey'
  BY <1>2
<1>5. [run[p] EXCEPT !.step = "write", !.key = k] \in CredRuns
  BY Zenon, RunFields DEF CredInv, CredShape, Steps
<1>6. PICK r \in CredRuns : r = [run[p] EXCEPT !.step = "write", !.key = k]
  BY <1>5
<1>7. ReadStored(r)' /\ CredKnows(p, r)'
  BY <1>1, <1>6 DEF CredInv, CredRuns, ReadStored, Stored, CredKnows
<1> QED
  BY Zenon, <1>1, <1>3, <1>4, <1>6, <1>7, CredMoves DEF renderIdentity

(* RenderFluxSource writes one member.                                      *)
LEMMA StepRender ==
  ASSUME CredInv, NEW p \in Commands, RenderFluxSource(p)
  PROVE  CredInv'
<1>1. /\ run[p].step = "write" /\ project = p /\ run[p].doc \in Docs
      /\ UNCHANGED <<localDoc, sopsDoc, ageKey, main, nodes, clusterKey, made, keys, written>>
  BY DEF CredInv, CredKnows, RenderFluxSource, outside, counts
<1>2. source' \in [MemberSet -> Entries]
  <2>1. Rendered(run[p].doc, run[p].key) \in [MemberSet -> Entries]
    BY Zenon, <1>1, RenderedIs DEF CredInv, CredRuns
  <2>2. Members[run[p].member] \in MemberSet
    BY DEF CredInv, CredRuns, Members, MemberSet
  <2> QED
    BY ZenonT(30), <2>1, <2>2 DEF CredInv, CredShape, RenderFluxSource
<1>3. CredShape' /\ FilesStored' /\ PublishedIsWhole'
  BY Zenon, <1>1, <1>2, CredQuiet, CredFiles
<1>4. CASE End(p)
  BY <1>1, <1>3, <1>4, CredEnds
<1>5. CASE run[p].member < 3 /\ run' = [run EXCEPT ![p].member = @ + 1] /\ UNCHANGED project
  <2>1. PICK r \in CredRuns : r = [run[p] EXCEPT !.member = @ + 1]
    BY SMTT(30), <1>5 DEF CredInv, CredRuns
  <2>2. ReadStored(r)' /\ CredKnows(p, r)'
    BY <1>1, <1>5, <2>1 DEF CredInv, CredRuns, ReadStored, Stored, CredKnows
  <2> QED
    BY Zenon, <1>1, <1>3, <1>5, <2>1, <2>2, CredMoves
<1> QED
  BY ZenonT(30), <1>4, <1>5 DEF RenderFluxSource

LEMMA KeyRange ==
  ASSUME NEW m \in Nat, NEW a \in 0 .. m, NEW b \in a .. m, NEW c \in 1 .. b
  PROVE  b \in 0 .. m /\ c \in 0 .. b
BY SMTT(30)

(* Seed publishes the staged source when it validates.                      *)
LEMMA StepSeed ==
  ASSUME CredInv, NEW p \in Commands, Seed(p)
  PROVE  CredInv'
<1>1. /\ run[p].step = "seed" /\ project = p /\ EnsureFluxAgeIdentity /\ run[p].doc \in Docs
      /\ run[p].phase = "first" /\ run[p].kind \notin {"validate", "render"}
      /\ UNCHANGED <<localDoc, sopsDoc, source, nodes, clusterKey, made, written>>
  BY Zenon DEF CredInv, CredKnows, Seed
<1>2. keys' \in keys .. MaxKeys /\ ageKey' \in 1 .. keys' /\ ageKey' \in 0 .. MaxKeys
  BY ZenonT(30), <1>1, KeyEnsured
<1>3. CASE End(p) /\ UNCHANGED main
  <2>1. ageKey' \in 0 .. keys'
    BY Zenon, <1>2, FromZero
  <2>2. CredShape' /\ FilesStored' /\ PublishedIsWhole'
    BY <1>1, <1>2, <1>3, <2>1, CredQuiet, CredFiles
  <2> QED
    BY Zenon, <1>1, <1>3, <2>2, CredEnds
<1>4. CASE /\ ValidateFluxSource(run[p].staged, run[p].doc, ageKey') /\ main' = run[p].staged
           /\ Goto(p, "converge") /\ UNCHANGED project
  <2>1. PICK k \in 1 .. keys' : k = ageKey' /\ k \in 0 .. MaxKeys
    BY Zenon, <1>2
  <2>2. PICK doc \in Docs : doc = run[p].doc
    BY <1>1
  <2>3. /\ main' = Rendered(doc, k) /\ main' \in [MemberSet -> Entries]
        /\ main' = [config |-> [of |-> 0, to |-> k], seed |-> [of |-> doc["seed"], to |-> k],
                    ca |-> [of |-> doc["cert"], to |-> k]]
    BY ZenonT(30), <1>4, <2>1, <2>2, RenderedIs DEF ValidateFluxSource
  <2>4. doc["seed"] \in written' /\ doc["cert"] \in written'
    BY <1>1, <2>2 DEF CredInv, ReadStored, Stored, Valid, Fields
  <2>5. PublishedIsWhole'
    BY ZenonT(30), <2>1, <2>3, <2>4 DEF PublishedIsWhole
  <2>6. CredShape'
    <3>1. keys \in 0 .. MaxKeys /\ MaxKeys \in Nat
      BY Zenon, CredentialBounds DEF CredInv, CredShape
    <3>2. keys' \in 0 .. MaxKeys /\ ageKey' \in 0 .. keys'
      BY Zenon, <1>2, <3>1, KeyRange
    <3>3. /\ localDoc' \in {None, Broken} \cup Docs /\ sopsDoc' \in {None, Broken} \cup Docs
          /\ made' \in 0 .. MaxMade /\ source' \in [MemberSet -> Entries]
      BY Zenon, <1>1 DEF CredInv, CredShape
    <3> QED
      BY Zenon, <2>3, <3>2, <3>3 DEF CredShape
  <2>7. FilesStored'
    BY ZenonT(30), <1>1 DEF CredInv, FilesStored, Stored
  <2>8. PICK r \in CredRuns : r = [run[p] EXCEPT !.step = "converge"]
    BY Zenon, RunFields DEF CredInv, CredShape, Steps
  <2>9. ReadStored(r)'
    BY ZenonT(30), <1>1, <2>8 DEF CredInv, CredRuns, ReadStored, Stored
  <2>10. CredKnows(p, r)'
    <3>1. /\ r.step = "converge" /\ r.phase = "first" /\ r.kind = run[p].kind
          /\ r.doc = doc /\ r.staged = main'
      BY ZenonT(30), <1>1, <1>4, <2>2, <2>8 DEF CredInv, CredRuns
    <3>2. main'["ca"].of = doc["cert"]
      <4>1. main' = [config |-> [of |-> 0, to |-> k], seed |-> [of |-> doc["seed"], to |-> k],
                     ca |-> [of |-> doc["cert"], to |-> k]]
        BY Zenon, <2>3
      <4> QED
        BY SMTT(30), <4>1
    <3> QED
      BY Zenon, <1>1, <1>4, <3>1, <3>2 DEF CredKnows
  <2> QED
    BY Zenon, <1>1, <1>4, <2>5, <2>6, <2>7, <2>8, <2>9, <2>10, CredMoves DEF Goto
<1> QED
  BY ZenonT(30), <1>3, <1>4 DEF Seed

(* Kubespray installs the CA.                                               *)
LEMMA StepConverge ==
  ASSUME CredInv, NEW p \in Commands, converge(p)
  PROVE  CredInv'
<1>1. /\ run[p].step = "converge" /\ project = p /\ nodes' = run[p].doc["cert"]
      /\ run[p].kind \notin {"validate", "render"} /\ main = run[p].staged
      /\ main["ca"].of = run[p].doc["cert"] /\ UNCHANGED <<files, main, clusterKey, project, counts>>
  BY DEF CredInv, CredKnows, converge
<1>2. [run[p] EXCEPT !.step = "local", !.phase = "handoff", !.doc = None] \in CredRuns
  BY Zenon, RunFields DEF CredInv, CredShape, Steps
<1>3. PICK r \in CredRuns : r = [run[p] EXCEPT !.step = "local", !.phase = "handoff", !.doc = None]
  BY <1>2
<1>4. ReadStored(r)'
  BY <1>1, <1>3, CredentialBounds DEF CredInv, CredRuns, ReadStored, Stored, counts
<1>5. CredKnows(p, r)'
  BY <1>1, <1>3 DEF CredInv, CredRuns, CredKnows
<1> QED
  BY Zenon, <1>1, <1>3, <1>4, <1>5, CredGoes DEF converge

(* bootstrapFlux validates the source against what it read again.           *)
LEMMA StepBootstrap ==
  ASSUME CredInv, NEW p \in Commands, bootstrapFlux(p)
  PROVE  CredInv'
<1>1. /\ run[p].step = "bootstrap" /\ project = p /\ EnsureFluxAgeIdentity /\ run[p].doc \in Docs
      /\ run[p].phase = "handoff" /\ run[p].kind \notin {"validate", "render"}
      /\ main = run[p].staged /\ main["ca"].of = nodes
      /\ UNCHANGED <<localDoc, sopsDoc, source, main, nodes, clusterKey, made, written>>
  BY Zenon DEF CredInv, CredKnows, bootstrapFlux, outside
<1>2. keys' \in keys .. MaxKeys /\ ageKey' \in 0 .. keys' /\ ageKey' \in 0 .. MaxKeys
  BY Zenon, <1>1, KeyEnsured, FromZero
<1>3. CredShape' /\ FilesStored' /\ PublishedIsWhole'
  BY Zenon, <1>1, <1>2, CredQuiet, CredFiles
<1>4. CASE End(p)
  BY Zenon, <1>1, <1>3, <1>4, CredEnds
<1>5. CASE /\ ValidateFluxSource(run[p].staged, run[p].doc, ageKey') /\ UNCHANGED project
           /\ run' = [run EXCEPT ![p].step = "project", ![p].key = ageKey']
  <2>1. PICK k \in 0 .. MaxKeys : k = ageKey'
    BY <1>2
  <2>2. PICK doc \in Docs : doc = run[p].doc
    BY Zenon, <1>1
  <2>3. \A m \in MemberSet : main[m].to = k
    BY <1>1, <1>5, <2>1, <2>2, RenderedIs DEF ValidateFluxSource, Rendered
  <2>4. [run[p] EXCEPT !.step = "project", !.key = k] \in CredRuns
    BY Zenon, RunFields DEF CredInv, CredShape, Steps
  <2>5. PICK r \in CredRuns : r = [run[p] EXCEPT !.step = "project", !.key = k]
    BY <2>4
  <2>6. ReadStored(r)'
    BY ZenonT(30), <1>1, <2>5 DEF CredInv, CredRuns, ReadStored, Stored
  <2>7. CredKnows(p, r)'
    BY <1>1, <1>5, <2>3, <2>5 DEF CredInv, CredRuns, CredKnows
  <2> QED
    BY ZenonT(30), <1>1, <1>3, <1>5, <2>1, <2>5, <2>6, <2>7, CredMoves
<1> QED
  BY <1>4, <1>5 DEF bootstrapFlux

(* ProjectKey puts the key into the cluster.                                *)
LEMMA StepProject ==
  ASSUME CredInv, NEW p \in Commands, ProjectKey(p)
  PROVE  CredInv'
<1>1. project = p
  BY Zenon DEF CredInv, CredKnows, ProjectKey
<1>2. PICK r \in CredRuns : r = [run[p] EXCEPT !.step = "applied"]
  BY Zenon, RunFields DEF CredInv, CredShape, Steps
<1>3. ReadStored(r)' /\ CredKnows(p, r)'
  BY ZenonT(30), <1>1, <1>2 DEF CredInv, CredRuns, ReadStored, Stored, CredKnows, ProjectKey, counts
<1> QED
  BY Zenon, <1>1, <1>2, <1>3, CredGoes DEF ProjectKey, Goto

(* A command that finishes, or is interrupted, even one that waits for the lock.  *)
LEMMA StepLeave ==
  ASSUME CredInv, NEW p \in Commands, End(p),
         UNCHANGED <<files, outside, made, keys, written>>
  PROVE  CredInv'
<1>1. UNCHANGED <<localDoc, sopsDoc, ageKey, source, main, nodes, clusterKey, made, keys, written>>
  BY ZenonT(30) DEF files, outside
<1>2. CredShape' /\ FilesStored' /\ PublishedIsWhole'
  BY <1>1, CredQuiet, CredFiles
<1>3. run' \in [Commands -> CredRuns] /\ run'[p] = Idle /\ \A q \in Commands : q # p => run'[q] = run[q]
  BY ZenonT(30), IdleRun DEF CredInv, End
<1>4. ASSUME NEW q \in Commands, q # p PROVE ReadStored(run[q])'
  BY ZenonT(30), <1>1, <1>3, <1>4 DEF CredInv, ReadStored, Stored
<1>5. ASSUME NEW q \in Commands, q # p PROVE CredKnows(q, run[q])'
  <2>1. run[q].step \notin {"idle", "staged"} => project' = q
    BY Zenon, <1>5 DEF CredInv, CredKnows, End
  <2>2. run'[q] = run[q] /\ UNCHANGED <<main, nodes, clusterKey>>
    BY <1>1, <1>3, <1>5
  <2>3. CredKnows(q, run[q])
    BY DEF CredInv
  <2> QED
    BY <2>1, <2>2, <2>3, ZenonT(30) DEF CredKnows
<1> QED
  BY Zenon, <1>2, <1>3, <1>4, <1>5, IdleKnowsNext DEF CredInv

(* The owner changes a file; commands know only what they have read.        *)
LEMMA OwnerActs ==
  ASSUME CredInv, UNCHANGED <<main, nodes, clusterKey, project, run>>, written \subseteq written',
         CredShape', FilesStored', PublishedIsWhole'
  PROVE  CredInv'
<1>1. ASSUME NEW q \in Commands PROVE ReadStored(run[q])'
  BY ZenonT(30) DEF CredInv, ReadStored, Stored
<1>2. ASSUME NEW q \in Commands PROVE CredKnows(q, run[q])'
  BY Zenon DEF CredInv, CredKnows
<1> QED
  BY ZenonT(30), <1>1, <1>2 DEF CredInv

(* Nothing the owner does to the files is a hazard to a running command.    *)
LEMMA OwnerSafe ==
  ASSUME CredInv, Owner
  PROVE  CredInv'
<1> USE CredentialBounds DEF outside
<1>1. CASE EditLocal
  <2>1. UNCHANGED <<sopsDoc, ageKey, source, main, nodes, clusterKey, project, run, keys>>
    BY <1>1 DEF EditLocal
  <2>2. CASE localDoc' \in {None, Broken} /\ UNCHANGED <<made, written>>
    <3>1. CredShape'
      BY ZenonT(30), <2>1, <2>2 DEF CredInv, CredShape
    <3>2. FilesStored' /\ PublishedIsWhole'
      BY ZenonT(30), <2>1, <2>2 DEF CredInv, FilesStored, Stored, PublishedIsWhole
    <3> QED
      BY ZenonT(30), <2>1, <2>2, <3>1, <3>2, OwnerActs
  <2>3. ASSUME made < MaxMade, made' = made + 1, written' = written \cup {made + 1},
               NEW fields \in SUBSET Fields, NEW before,
               before = IF localDoc \in {None, Broken} THEN Empty ELSE localDoc,
               localDoc' = [f \in Fields |-> IF f \in fields THEN made + 1 ELSE before[f]]
        PROVE  CredInv'
    <3>1. before \in Docs /\ Stored(before) /\ made + 1 \in 0 .. MaxMade
      BY SMTT(30), <2>3 DEF CredInv, CredShape, FilesStored, Stored, Empty, Docs
    <3>2. localDoc' \in Docs /\ Stored(localDoc)'
      BY ZenonT(30), <2>3, <3>1 DEF Docs, Stored
    <3>3. CredShape'
      BY ZenonT(30), <2>1, <2>3, <3>1, <3>2 DEF CredInv, CredShape
    <3>4. FilesStored'
      BY ZenonT(30), <2>1, <2>3, <3>2 DEF CredInv, FilesStored, Stored
    <3>5. PublishedIsWhole'
      BY Zenon, <2>1, <2>3 DEF CredInv, PublishedIsWhole
    <3> QED
      BY ZenonT(30), <2>1, <2>3, <3>3, <3>4, <3>5, OwnerActs
  <2>4. CASE ~ (localDoc' \in {None, Broken} /\ UNCHANGED <<made, written>>)
    <3>1. PICK before : before = IF localDoc \in {None, Broken} THEN Empty ELSE localDoc
      BY Zenon
    <3>2. made < MaxMade /\ made' = made + 1 /\ written' = written \cup {made + 1}
      BY <1>1, <2>4 DEF EditLocal
    <3>3. PICK fields \in {{"seed"}, {"cert"}, {"cert", "key"}, Fields} :
             localDoc' = [f \in Fields |-> IF f \in fields THEN made + 1 ELSE before[f]]
      BY <1>1, <2>4, <3>1, Zenon DEF EditLocal
    <3>4. fields \in SUBSET Fields
      BY Zenon DEF Fields
    <3> QED
      BY <2>3, <3>1, <3>2, <3>3, <3>4
  <2> QED
    BY ZenonT(30), <2>2, <2>4
<1>2. CASE RemoveSOPS
  <2>1. UNCHANGED <<localDoc, ageKey, source, main, nodes, clusterKey, project, run, made, keys, written>>
    BY ZenonT(30), <1>2 DEF RemoveSOPS
  <2>2. CredShape' /\ FilesStored' /\ PublishedIsWhole'
    <3>1. sopsDoc' \in {None, Broken}
      BY <1>2, Zenon DEF RemoveSOPS
    <3>2. CredShape'
      BY <2>1, <3>1, Zenon DEF CredInv, CredShape
    <3>3. sopsDoc' \notin Docs
      BY <3>1, CredentialBounds
    <3>4. FilesStored'
      BY <2>1, <3>3, Zenon DEF CredInv, FilesStored, Stored
    <3>5. PublishedIsWhole'
      BY <2>1, Zenon DEF CredInv, PublishedIsWhole
    <3> QED
      BY <3>2, <3>4, <3>5
  <2> QED
    BY <2>1, <2>2, OwnerActs
<1>3. CASE WipeState
  BY ZenonT(30), <1>3, CredQuiet, CredFiles, OwnerActs DEF WipeState
<1>4. CASE RestoreMember
  <2>1. source' \in [MemberSet -> Entries]
    BY Zenon, <1>4 DEF RestoreMember, CredInv, CredShape
  <2>2. UNCHANGED <<localDoc, sopsDoc, ageKey, main, nodes, clusterKey, project, run, made, keys, written>>
    BY Zenon, <1>4 DEF RestoreMember
  <2> QED
    BY ZenonT(30), <2>1, <2>2, CredQuiet, CredFiles, OwnerActs
<1> QED
  BY <1>1, <1>2, <1>3, <1>4 DEF Owner

(* Every step keeps the invariant.                                          *)
LEMMA CredPreserved == CredInv /\ [CredNext]_credVars => CredInv'
<1> SUFFICES ASSUME CredInv, [CredNext]_credVars PROVE CredInv'
  OBVIOUS
<1>1. ASSUME NEW p \in Commands, Step(p) PROVE CredInv'
  <2>1. CASE finishApply(p)
    BY <2>1, StepLeave DEF finishApply, counts
  <2> QED
    BY ZenonT(30), <1>1, <2>1, StepStage, StepRelock, StepInit, StepLock, StepReadLocal,
       StepReadSOPS, StepCreate, StepIdentity, StepRender, StepSeed, StepConverge, StepBootstrap,
       StepProject DEF Step
<1>2. ASSUME NEW p \in Commands, Interrupt(p) PROVE CredInv'
  BY ZenonT(30), <1>2, StepLeave DEF Interrupt
<1>3. CASE UNCHANGED credVars
  BY <1>3, OwnerActs, Unchanging DEF credVars, outside, counts, files
<1> QED
  BY <1>1, <1>2, <1>3, StepBegin, OwnerSafe DEF CredNext

(* The invariant holds throughout.                                          *)
LEMMA CredInvariance == CredSpec => []CredInv
BY CredInitially, CredPreserved, PTL DEF CredSpec

(* The invariant implies the properties of the credentials.                 *)
LEMMA CredImplies == CredInv => CredTypeOK /\ AppliedAgrees
BY ZenonT(30) DEF CredInv, CredShape, CredRuns, CredKnows, CredTypeOK, AppliedAgrees, Steps, Kinds,
   MemberSet

NoRotation ==
    owner' = owner =>
          /\ localDoc # None => localDoc' = localDoc
          /\ sopsDoc # None => sopsDoc' = sopsDoc
          /\ ageKey # 0 => ageKey' = ageKey

(* A step that is not the owner's replaces no document and no identity.     *)
LEMMA KeepsWhatExists ==
  ASSUME owner \in Nat, [CredNext]_credVars
  PROVE  owner' \in Nat /\ NoRotation
<1> USE DEF NoRotation, files, outside, counts
<1>1. CASE Owner
  BY SMTT(30), <1>1 DEF Owner, EditLocal, RemoveSOPS, WipeState, RestoreMember, Event
<1>2. ASSUME NEW p \in Commands, Step(p) PROVE owner' \in Nat /\ NoRotation
  BY Zenon, <1>2 DEF Step, stageSource, relock, Init, LoadOrCreateLocal, readLocal, readSOPS,
     createLocal, renderIdentity, RenderFluxSource, Seed, converge, bootstrapFlux, ProjectKey,
     finishApply, write, EnsureFluxAgeIdentity
<1>3. ASSUME NEW p \in Commands, Interrupt(p) PROVE owner' \in Nat /\ NoRotation
  BY <1>3 DEF Interrupt, Event
<1>4. ASSUME NEW p \in Commands, NEW kind, Begin(p, kind) PROVE owner' \in Nat /\ NoRotation
  BY Zenon, <1>4 DEF Begin
<1>5. CASE UNCHANGED credVars
  BY <1>5 DEF credVars
<1> QED
  BY ZenonT(30), <1>1, <1>2, <1>3, <1>4, <1>5 DEF CredNext

(* "Atum will not rotate live platform credentials": no command does.       *)
THEOREM CredentialsKept == CredSpec => NeverRotates
<1>1. CredInit => owner \in Nat
  BY DEF CredInit
<1>2. owner \in Nat /\ [CredNext]_credVars => (owner \in Nat)'
  BY KeepsWhatExists
<1>3. owner \in Nat /\ [CredNext]_credVars => [NoRotation]_credVars
  BY KeepsWhatExists
<1> QED
  BY <1>1, <1>2, <1>3, PTL DEF CredSpec, NeverRotates, NoRotation

(* The published source is whole, of one recipient and of stored values;    *)
(* a successful apply left a key that decrypts it and nodes that trust its  *)
(* CA, although credentials and key are read twice and the lock is let go   *)
(* between staging and validation.                                          *)
THEOREM CredentialsAgree == CredSpec => [](CredTypeOK /\ PublishedIsWhole /\ AppliedAgrees)
<1>1. CredInv => CredTypeOK /\ PublishedIsWhole /\ AppliedAgrees
  BY CredImplies DEF CredInv
<1> QED
  BY <1>1, CredInvariance, PTL
==============================================================================
