--------------------------- MODULE UpdateTransaction ---------------------------
(***************************************************************************)
(* The journaled file transaction of `atum pull updates`                    *)
(* (cli/update/transaction.go) and the callers that run it under the        *)
(* project lock (Pull in cli/update/service.go, loadProject in              *)
(* cli/command/root.go).                                                    *)
(*                                                                          *)
(* One process at a time holds the project lock, so one program counter is  *)
(* enough: pc = "idle" means that the lock is free.  A human editor does    *)
(* not take the lock.  The process can be killed between any two steps, the *)
(* machine can lose power, and any file-system call can fail.               *)
(***************************************************************************)
EXTENDS Naturals

CONSTANTS Path,        \* tracked paths, numbered in the order of paths()
          Version,     \* the (mode, digest) pairs a regular file can have
          Absent,      \* managedVersion{}: the path does not exist
          Missing,     \* no backup (or no pending restoration) for a path
          Guarded,     \* paths inside a directory given to GuardDirectory
          Declarative, \* atum.json and atum.lock.json
          EditPhases,  \* the values of pc at which the editor may write
          MaxEdits, MaxCrashes, MaxFaults   \* bounds on the environment

Content == Version \cup {Absent}

ASSUME PathAssumption == Path \subseteq Nat /\ Guarded \subseteq Path /\ Declarative \subseteq Path
ASSUME ContentAssumption == Absent \notin Version /\ Missing \notin Content
ASSUME BoundAssumption == MaxEdits \in Nat /\ MaxCrashes \in Nat /\ MaxFaults \in Nat

VARIABLES
  file,       \* the canonical content of every path
  dir,        \* a transaction directory exists
  journal,    \* the state in its journal.json, or "none"
  record,     \* the file records of journal.json (kept after its removal)
  backup,     \* backup/NNNNNN of the transaction directory
  unsynced,   \* content a path had before a restoration not yet synced
  pc, cmd,    \* the command that holds the lock, and where it is
  loaded,     \* the declarative files it decoded and computes with
  plan,       \* its fileTransaction: expected and candidate of every path
  todo,       \* the paths its current loop has still to visit
  touched,    \* the directories map of recoverPreparedTransaction
  edited,     \* history: paths edited since the transaction's snapshot
  unseen,     \* history: paths edited since the command last read them
  abandoned,  \* history: a rollback inside Commit failed
  edits, crashes, faults   \* how often the environment has acted

disk == <<file, dir, journal, record, backup, unsynced>>
memory == <<pc, cmd, loaded, plan, todo, touched>>
history == <<edited, unseen, abandoned>>
counters == <<edits, crashes, faults>>
vars == <<disk, memory, history, counters>>

Phases == {"idle", "recover", "check", "restore", "remove", "load", "track",
           "resolve", "verify", "stage", "prepare", "replace"}
Commands == {"none", "load", "check", "pull"}
Entry == [orig : Content, cand : Content]
NoPlan == [f \in Path |-> [orig |-> Absent, cand |-> Absent]]
NoBackup == [f \in Path |-> Missing]
Nothing == [f \in Declarative |-> Absent]

(* transaction.Changed and the file set of a journal. *)
Changed(p) == {f \in Path : p[f].orig # p[f].cand}

(* fileTransaction.files and .directories: Delete of an absent path adds    *)
(* nothing, so such a path is watched only inside a guarded directory.      *)
Watched(p) == Guarded \cup {f \in Path : p[f].orig # Absent \/ p[f].cand # Absent}

(* transaction.Verify *)
Unmodified(p) == \A f \in Watched(p) : file[f] = p[f].orig

First(f, S) == f \in S /\ \A g \in S : f <= g
Last(f, S) == f \in S /\ \A g \in S : g <= f

(* A command with a plan that changes something is inside Commit. *)
Committing == Changed(plan) # {}

TypeOK ==
  /\ file \in [Path -> Content]
  /\ dir \in BOOLEAN
  /\ journal \in {"none", "prepared", "committed"}
  /\ record \in [Path -> Entry] /\ plan \in [Path -> Entry]
  /\ backup \in [Path -> Content \cup {Missing}]
  /\ unsynced \in [Path -> Content \cup {Missing}]
  /\ pc \in Phases /\ cmd \in Commands /\ loaded \in [Declarative -> Content]
  /\ todo \subseteq Path /\ touched \subseteq Path
  /\ edited \subseteq Path /\ unseen \subseteq Path /\ abandoned \in BOOLEAN
  /\ edits \in Nat /\ crashes \in Nat /\ faults \in Nat

Init ==
  /\ file \in [Path -> Content]
  /\ dir = FALSE /\ journal = "none" /\ record = NoPlan
  /\ backup = NoBackup /\ unsynced = NoBackup
  /\ pc = "idle" /\ cmd = "none" /\ loaded = Nothing /\ plan = NoPlan /\ todo = {} /\ touched = {}
  /\ edited = {} /\ unseen = {} /\ abandoned = FALSE
  /\ edits = 0 /\ crashes = 0 /\ faults = 0

-----------------------------------------------------------------------------
(* Building blocks of the actions. *)

(* The command returns: its memory is gone and the lock is released. *)
Forget ==
  /\ pc' = "idle" /\ cmd' = "none" /\ loaded' = Nothing
  /\ plan' = NoPlan /\ todo' = {} /\ touched' = {}

(* The command goes on at p with the loop over S ahead of it. *)
Goto(p, S) == pc' = p /\ todo' = S /\ touched' = {} /\ UNCHANGED <<cmd, loaded, plan>>

(* One file-system call of this step fails. *)
Fault == faults < MaxFaults /\ faults' = faults + 1 /\ UNCHANGED <<edits, crashes>>

(* recoverPreparedTransaction returns an error.  recoverTransactions passes *)
(* it on and leaves the directory; Commit joins it to the cause, returns,   *)
(* and its deferred RemoveAll deletes the directory all the same.           *)
Refuse ==
  IF Committing
  THEN Goto("remove", {}) /\ abandoned' = TRUE
  ELSE Forget /\ UNCHANGED abandoned

-----------------------------------------------------------------------------
(* The environment: an editor, crashes and power loss. *)

(* A human saves, creates or deletes a managed path. *)
Edit(f, v) ==
  /\ pc \in EditPhases /\ edits < MaxEdits /\ v # file[f]
  /\ file' = [file EXCEPT ![f] = v]
  /\ unsynced' = [unsynced EXCEPT ![f] = Missing]
  /\ edited' = edited \cup {f} /\ unseen' = unseen \cup {f}
  /\ edits' = edits + 1
  /\ UNCHANGED <<dir, journal, record, backup, memory, abandoned, crashes, faults>>

(* The process is killed: the kernel drops its flock. *)
Kill ==
  /\ pc # "idle" /\ crashes < MaxCrashes
  /\ Forget
  /\ crashes' = crashes + 1
  /\ UNCHANGED <<disk, history, edits, faults>>

(* Power is lost: of the restorations not yet synced, those in S never      *)
(* reached the disk (a rename is there or is not).                          *)
PowerLoss(S) ==
  /\ crashes < MaxCrashes
  /\ \A f \in S : unsynced[f] # Missing
  /\ file' = [f \in Path |-> IF f \in S THEN unsynced[f] ELSE file[f]]
  /\ backup' = [f \in Path |-> IF f \in S /\ dir /\ record[f].orig # Absent
                               THEN record[f].orig ELSE backup[f]]
  /\ unsynced' = NoBackup
  /\ Forget
  /\ crashes' = crashes + 1
  /\ UNCHANGED <<dir, journal, record, history, edits, faults>>

-----------------------------------------------------------------------------
(* Recovery: recoverTransactions, entered by every command that locks. *)

Begin(c) ==
  /\ pc = "idle"
  /\ pc' = "recover" /\ cmd' = c
  /\ UNCHANGED <<loaded, plan, todo, touched, disk, history, counters>>

(* No transaction directory. *)
RecoverNothing ==
  /\ pc = "recover" /\ ~dir
  /\ Goto("load", {})
  /\ UNCHANGED <<disk, history, counters>>

(* Mutant: a directory without a journal is left for another time. *)
MutantRecoverUnjournaled ==
  /\ pc = "recover" /\ dir /\ journal = "none"
  /\ Goto("load", {})
  /\ UNCHANGED <<disk, history, counters>>

(* A directory without a journal: nothing canonical was changed. *)
RecoverUnjournaled ==
  /\ pc = "recover" /\ dir /\ journal = "none"
  /\ Goto("remove", {})
  /\ UNCHANGED <<disk, history, counters>>

RecoverPrepared ==
  /\ pc = "recover" /\ dir /\ journal = "prepared"
  /\ Goto("check", Changed(record))
  /\ UNCHANGED <<disk, history, counters>>

(* verifyCommittedTransaction *)
CommittedIntact == \A f \in Changed(record) : file[f] = record[f].cand

RecoverCommitted ==
  /\ pc = "recover" /\ dir /\ journal = "committed"
  /\ IF CommittedIntact THEN Goto("remove", {}) ELSE Forget
  /\ UNCHANGED <<disk, history, counters>>

(* Mutant: a path whose backup is gone is never taken as restored. *)
MutantRestored(f) ==
  /\ file[f] = record[f].orig
  /\ record[f].orig # Absent => backup[f] = record[f].orig

(* recoverPreparedTransaction, one path of its reverse loop: the path holds *)
(* its original, or it holds its candidate and can be restored.             *)
Restored(f) ==
  /\ file[f] = record[f].orig
  /\ record[f].orig # Absent => backup[f] \in {Missing, record[f].orig}

Restorable(f) ==
  /\ file[f] = record[f].cand
  /\ record[f].orig # Absent => backup[f] = record[f].orig

(* Mutant: the backup is renamed over whatever the path holds. *)
MutantCheckOverwrites(f) ==
  /\ pc = "check" /\ Last(f, todo)
  /\ unseen' = unseen \ {f}
  /\ IF Restored(f)
     THEN /\ todo' = todo \ {f} /\ touched' = touched \cup {f} /\ UNCHANGED pc
     ELSE /\ pc' = "restore" /\ UNCHANGED <<todo, touched>>
  /\ UNCHANGED <<cmd, loaded, plan, abandoned, disk, edited, counters>>

(* Mutant: a path found restored is left out of the directories to sync. *)
MutantCheckSkipsSync(f) ==
  /\ pc = "check" /\ Last(f, todo)
  /\ unseen' = unseen \ {f}
  /\ \/ /\ Restored(f)
        /\ todo' = todo \ {f}
        /\ UNCHANGED <<pc, cmd, loaded, plan, touched, abandoned>>
     \/ /\ ~Restored(f) /\ Restorable(f)
        /\ pc' = "restore"
        /\ UNCHANGED <<cmd, loaded, plan, todo, touched, abandoned>>
     \/ ~Restored(f) /\ ~Restorable(f) /\ Refuse
  /\ UNCHANGED <<disk, edited, counters>>

CheckFile(f) ==
  /\ pc = "check" /\ Last(f, todo)
  /\ unseen' = unseen \ {f}
  /\ \/ /\ Restored(f)
        /\ todo' = todo \ {f} /\ touched' = touched \cup {f}
        /\ UNCHANGED <<pc, cmd, loaded, plan, abandoned>>
     \/ /\ ~Restored(f) /\ Restorable(f)
        /\ pc' = "restore"
        /\ UNCHANGED <<cmd, loaded, plan, todo, touched, abandoned>>
     \/ ~Restored(f) /\ ~Restorable(f) /\ Refuse
  /\ UNCHANGED <<disk, edited, counters>>

(* os.Rename(backup, canonical), or os.Remove(canonical) of a new file      *)
(* (which fails when an editor has just deleted it).                        *)
RestoreFile(f) ==
  /\ pc = "restore" /\ Last(f, todo)
  /\ record[f].orig = Absent => file[f] # Absent
  /\ file' = [file EXCEPT ![f] = record[f].orig]
  /\ backup' = [backup EXCEPT ![f] = Missing]
  /\ unsynced' = [unsynced EXCEPT ![f] = file[f]]
  /\ pc' = "check" /\ todo' = todo \ {f} /\ touched' = touched \cup {f}
  /\ UNCHANGED <<dir, journal, record, cmd, loaded, plan, history, counters>>

RestoreRaced(f) ==
  /\ pc = "restore" /\ Last(f, todo)
  /\ record[f].orig = Absent /\ file[f] = Absent
  /\ Refuse
  /\ UNCHANGED <<disk, edited, unseen, counters>>

RestoreFault ==
  /\ pc = "restore" /\ Fault
  /\ Refuse
  /\ UNCHANGED <<disk, edited, unseen>>

(* The parents of every record are synced, then the directory may go. *)
SyncRestored ==
  /\ pc = "check" /\ todo = {}
  /\ unsynced' = [f \in Path |-> IF f \in touched THEN Missing ELSE unsynced[f]]
  /\ Goto("remove", {})
  /\ UNCHANGED <<file, dir, journal, record, backup, history, counters>>

SyncFault ==
  /\ pc = "check" /\ todo = {} /\ Fault
  /\ Refuse
  /\ UNCHANGED <<disk, edited, unseen>>

(* os.RemoveAll of the directory, entry by entry in no particular order. *)
RemoveBackup(f) ==
  /\ pc = "remove" /\ backup[f] # Missing
  /\ backup' = [backup EXCEPT ![f] = Missing]
  /\ UNCHANGED <<file, dir, journal, record, unsynced, memory, history, counters>>

RemoveJournal ==
  /\ pc = "remove" /\ journal # "none"
  /\ journal' = "none"
  /\ UNCHANGED <<file, dir, record, backup, unsynced, memory, history, counters>>

RemoveDirectory ==
  /\ pc = "remove" /\ journal = "none" /\ backup = NoBackup
  /\ dir' = FALSE
  /\ IF Committing THEN Forget ELSE Goto("load", {})
  /\ UNCHANGED <<file, journal, record, backup, unsynced, history, counters>>

(* An unlink fails, or the sync of the transaction root after the last one. *)
RemoveFault ==
  /\ pc = "remove" /\ Fault
  /\ dir' \in {dir, journal # "none" \/ backup # NoBackup}
  /\ Forget
  /\ UNCHANGED <<file, journal, record, backup, unsynced, history>>

-----------------------------------------------------------------------------
(* Pull: snapshot, resolve, Commit. *)

(* config.Load for a command, config.LoadUpdateInput for a pull.  A loading *)
(* command keeps the lock while it works on what it read.                   *)
Load ==
  /\ pc = "load"
  /\ record' = NoPlan /\ unsynced' = NoBackup
  /\ edited' = {} /\ unseen' = {} /\ abandoned' = FALSE
  /\ IF cmd = "load"
     THEN Forget
     ELSE /\ loaded' = [f \in Declarative |-> file[f]]
          /\ pc' = "track" /\ UNCHANGED <<cmd, plan, todo, touched>>
  /\ UNCHANGED <<file, dir, journal, backup, counters>>

(* trackUpdateInputs snapshots every input, after calls to the network; the *)
(* declarative files must still be the ones that were decoded.              *)
Track ==
  /\ pc = "track"
  /\ IF \A f \in Declarative : file[f] = loaded[f]
     THEN /\ plan' = [f \in Path |-> [orig |-> file[f], cand |-> file[f]]]
          /\ pc' = "resolve" /\ UNCHANGED <<cmd, loaded, todo, touched>>
     ELSE Forget
  /\ edited' = {} /\ unseen' = {}
  /\ UNCHANGED <<disk, abandoned, counters>>

(* The long network phase: it fails, or it chooses the candidate files. *)
ResolveFails ==
  /\ pc \in {"track", "resolve"}
  /\ Forget
  /\ UNCHANGED <<disk, history, counters>>

Resolve(c) ==
  /\ pc = "resolve"
  /\ plan' = [f \in Path |-> [orig |-> plan[f].orig, cand |-> c[f]]]
  /\ pc' = "verify"
  /\ UNCHANGED <<cmd, loaded, todo, touched, disk, history, counters>>

(* Pull with --check, or with nothing to change, only verifies. *)
VerifyOnly ==
  /\ pc = "verify" /\ (cmd = "check" \/ ~Committing)
  /\ Forget
  /\ UNCHANGED <<disk, history, counters>>

(* Commit up to createTransactionDirectory.  Its own recoverTransactions    *)
(* finds no directory: this command removed them all and holds the lock.    *)
CommitVerify ==
  /\ pc = "verify" /\ cmd = "pull" /\ Committing
  /\ unseen' = unseen \ Watched(plan)
  /\ IF Unmodified(plan)
     THEN dir' = TRUE /\ Goto("stage", Changed(plan))
     ELSE UNCHANGED dir /\ Forget
  /\ UNCHANGED <<file, journal, record, backup, unsynced, edited, abandoned, counters>>

CreateFault ==
  /\ pc = "verify" /\ cmd = "pull" /\ Committing /\ Unmodified(plan) /\ Fault
  /\ Forget
  /\ UNCHANGED <<disk, history>>

(* Stage one candidate, and back up its original if there is one. *)
StageFile(f) ==
  /\ pc = "stage" /\ First(f, todo)
  /\ IF plan[f].orig = Absent
     THEN todo' = todo \ {f} /\ UNCHANGED <<pc, cmd, loaded, plan, touched, backup>>
     ELSE /\ backup' = [backup EXCEPT ![f] = IF file[f] = Absent THEN Missing ELSE file[f]]
          /\ IF file[f] = plan[f].orig
             THEN todo' = todo \ {f} /\ UNCHANGED <<pc, cmd, loaded, plan, touched>>
             ELSE Goto("remove", {})
  /\ UNCHANGED <<file, dir, journal, record, unsynced, history, counters>>

StageFault ==
  /\ pc \in {"stage", "prepare"} /\ Fault
  /\ Goto("remove", {})
  /\ UNCHANGED <<disk, history>>

(* Mutant: no second Verify. *)
MutantVerifyAgain ==
  /\ pc = "stage" /\ todo = {}
  /\ Goto("prepare", {})
  /\ UNCHANGED <<disk, history, counters>>

(* The second Verify, after every backup and before the journal. *)
VerifyAgain ==
  /\ pc = "stage" /\ todo = {}
  /\ unseen' = unseen \ Watched(plan)
  /\ Goto(IF Unmodified(plan) THEN "prepare" ELSE "remove", {})
  /\ UNCHANGED <<disk, edited, abandoned, counters>>

(* writeTransactionJournal: the rename publishes it, then it is synced. *)
WritePrepared ==
  /\ pc = "prepare"
  /\ journal' = "prepared" /\ record' = plan
  /\ Goto("replace", Changed(plan))
  /\ UNCHANGED <<file, dir, backup, unsynced, history, counters>>

PreparedUnsynced ==
  /\ pc = "prepare" /\ Fault
  /\ journal' = "prepared" /\ record' = plan
  /\ Goto("remove", {})
  /\ UNCHANGED <<file, dir, backup, unsynced, history>>

(* Rename the candidate over the canonical path, or remove the path. *)
Replaceable(f) == plan[f].cand = Absent => file[f] # Absent

ReplaceFile(f) ==
  /\ pc = "replace" /\ First(f, todo) /\ Replaceable(f)
  /\ file' = [file EXCEPT ![f] = plan[f].cand]
  /\ todo' = todo \ {f}
  /\ UNCHANGED <<dir, journal, record, backup, unsynced, pc, cmd, loaded, plan,
                 touched, history, counters>>

(* rollbackTransaction: a path to delete is gone already ... *)
ReplaceRaced(f) ==
  /\ pc = "replace" /\ First(f, todo) /\ ~Replaceable(f)
  /\ Goto("check", Changed(plan))
  /\ UNCHANGED <<disk, history, counters>>

(* Mutant: a failed replacement returns without rolling back. *)
MutantReplaceFault ==
  /\ pc = "replace" /\ Fault
  /\ Goto("remove", {})
  /\ UNCHANGED <<disk, history>>

(* ... or the rename fails, or it succeeds and the sync after it fails, or  *)
(* the committed journal cannot be published.                               *)
ReplaceFault ==
  /\ pc = "replace" /\ Fault
  /\ \/ UNCHANGED file
     \/ \E f \in Path : /\ First(f, todo) /\ Replaceable(f)
                        /\ file' = [file EXCEPT ![f] = plan[f].cand]
  /\ Goto("check", Changed(plan))
  /\ UNCHANGED <<dir, journal, record, backup, unsynced, history>>

(* The commit point. *)
WriteCommitted ==
  /\ pc = "replace" /\ todo = {}
  /\ journal' = "committed"
  /\ Goto("remove", {})
  /\ UNCHANGED <<file, dir, record, backup, unsynced, history, counters>>

(* Published but not synced: Commit fails and keeps the directory. *)
CommittedUnsynced ==
  /\ pc = "replace" /\ todo = {} /\ Fault
  /\ journal' = "committed"
  /\ Forget
  /\ UNCHANGED <<file, dir, record, backup, unsynced, history>>

-----------------------------------------------------------------------------
(* Steps of the command itself when no file-system call fails. *)
Advance ==
  \/ RecoverNothing \/ RecoverUnjournaled \/ RecoverPrepared \/ RecoverCommitted
  \/ SyncRestored \/ RemoveJournal \/ RemoveDirectory \/ Load \/ Track
  \/ VerifyOnly \/ CommitVerify \/ VerifyAgain \/ WritePrepared \/ WriteCommitted
  \/ \E f \in Path : \/ CheckFile(f) \/ RestoreFile(f) \/ RestoreRaced(f)
                     \/ RemoveBackup(f) \/ StageFile(f)
                     \/ ReplaceFile(f) \/ ReplaceRaced(f)
  \/ \E c \in [Path -> Content] : Resolve(c)

(* A failing call, or a failing resolution. *)
Fails ==
  \/ RestoreFault \/ SyncFault \/ RemoveFault \/ CreateFault \/ StageFault
  \/ PreparedUnsynced \/ ReplaceFault \/ CommittedUnsynced \/ ResolveFails

Environment ==
  \/ \E c \in Commands \ {"none"} : Begin(c)
  \/ \E f \in Path, v \in Content : Edit(f, v)
  \/ Kill
  \/ \E S \in SUBSET Path : PowerLoss(S)

Next == Advance \/ Fails \/ Environment

Spec == Init /\ [][Next]_vars

(* A command that holds the lock keeps running, and an operator who sees a  *)
(* failed command runs one again ("retry the update").                      *)
FairSpec == Spec /\ WF_vars(Advance) /\ WF_vars(Begin("pull"))

-----------------------------------------------------------------------------
(* Properties *)

(* The files of one update that nobody else touched are all old or all new. *)
Whole ==
  LET ours == Changed(record) \ edited
  IN  \/ \A f \in ours : file[f] = record[f].orig
      \/ \A f \in ours : file[f] = record[f].cand

(* All or nothing: once no transaction directory is left, every path of the *)
(* last update that no human edited holds its original, or every one holds  *)
(* its candidate, whatever crashes, power losses and failing calls happened *)
(* on the way; the one exception is a Commit whose own rollback failed.     *)
SettledIsWhole == ~dir /\ ~abandoned => Whole

(* What CONTRACT.md promises without that exception: `atum pull updates`    *)
(* "atomically replaces only updater-owned regions".  Commit's deferred     *)
(* RemoveAll breaks it after a rollback that refused or failed.             *)
AlwaysWhole == ~dir => Whole

(* Recovery is never stuck on its own work: while a prepared journal is on  *)
(* disk, every path of it that no human edited still is restored or can be  *)
(* restored from its backup (also halfway through RemoveAll).               *)
PreparedIsRecoverable ==
  journal = "prepared" /\ ~abandoned =>
    \A f \in Changed(record) \ edited : Restored(f) \/ Restorable(f)

(* The commit point: once the journal says committed, every candidate is in *)
(* place, so verifyCommittedTransaction only ever fails on a human's edit.  *)
CommittedIsComplete ==
  journal = "committed" => \A f \in Changed(record) \ edited : file[f] = record[f].cand

(* No command reads declarative state in the middle of an update: when the  *)
(* state is loaded no directory is left and the files are whole.            *)
LoadsWholeState == pc = "load" => ~dir /\ (abandoned \/ Whole)

(* A pull replaces atum.json and atum.lock.json only by what it computed    *)
(* from the bytes it replaces, although it decodes them, talks to the       *)
(* network and only then snapshots the originals that Verify compares.      *)
ReplacesWhatItRead ==
  pc = "replace" => \A f \in Declarative \cap Changed(plan) : plan[f].orig = loaded[f]

(* The program never overwrites or deletes content that it has looked at    *)
(* and that is neither the original nor the candidate of the transaction:   *)
(* Verify and the refusals of recoverPreparedTransaction see to it.         *)
Foreign(f) == file[f] \notin {record[f].orig, record[f].cand}
KeepsSeenEdits ==
  [][\A f \in Path : file'[f] # file[f] /\ Foreign(f) /\ edits' = edits
                       => f \in unseen \/ crashes' # crashes]_vars

=============================================================================
