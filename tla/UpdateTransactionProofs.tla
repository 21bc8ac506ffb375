---------------------- MODULE UpdateTransactionProofs -----------------------
(***************************************************************************)
(* Proofs about the update transaction, for any set of paths and any       *)
(* number of edits, crashes and failing calls: its types, the inductive    *)
(* invariant, one lemma per part of it, what follows from it, and that     *)
(* the transaction implements AtomicUpdate.                                *)
(***************************************************************************)
EXTENDS UpdateRefinement, TLAPS

MemoryOK ==
  /\ pc \in Phases /\ cmd \in Commands /\ loaded \in [Declarative -> Content]
  /\ plan \in [Path -> Entry] /\ todo \subseteq Path /\ touched \subseteq Path

(* The values of variables at rest have the types of the variables. *)
LEMMA RestTypes ==
  /\ NoPlan \in [Path -> Entry]
  /\ NoBackup \in [Path -> Content \cup {Missing}]
  /\ Nothing \in [Declarative -> Content]
  BY DEF NoPlan, NoBackup, Nothing, Entry, Content

(* A command that returns leaves its memory well typed. *)
LEMMA ForgetTypes == ASSUME Forget PROVE MemoryOK'
  BY RestTypes DEF Forget, MemoryOK, Phases, Commands

(* So does a command that goes on at another phase. *)
LEMMA GotoTypes ==
  ASSUME TypeOK, NEW p \in Phases, NEW S \in SUBSET Path, Goto(p, S)
  PROVE  MemoryOK'
  BY DEF TypeOK, Goto, MemoryOK

(* A rollback or a recovery that returns an error is well typed. *)
LEMMA RefuseTypes ==
  ASSUME TypeOK, Refuse
  PROVE  MemoryOK' /\ abandoned' \in BOOLEAN
<1>1. CASE Committing
  BY <1>1, GotoTypes DEF Refuse, Phases
<1>2. CASE ~Committing
  BY SMTT(30), <1>2, ForgetTypes DEF Refuse, TypeOK
<1> QED
  BY <1>1, <1>2

(* Every step of the program and of its environment keeps TypeOK. *)
LEMMA TypeStep == TypeOK /\ [Next]_vars => TypeOK'
<1> SUFFICES ASSUME TypeOK, [Next]_vars PROVE TypeOK'
  OBVIOUS
<1> USE DEF TypeOK, MemoryOK, Phases, disk, memory, history, counters
<1>1. CASE RecoverNothing
  BY <1>1, GotoTypes DEF RecoverNothing
<1>2. CASE RecoverUnjournaled
  BY <1>2, GotoTypes DEF RecoverUnjournaled
<1>3. CASE RecoverPrepared
  BY <1>3, GotoTypes DEF RecoverPrepared, Changed
<1>4. CASE RecoverCommitted
  <2>1. CASE CommittedIntact
    BY <1>4, <2>1, GotoTypes DEF RecoverCommitted
  <2>2. CASE ~CommittedIntact
    BY <1>4, <2>2, ForgetTypes DEF RecoverCommitted
  <2> QED
    BY <2>1, <2>2
<1>5. ASSUME NEW f \in Path, CheckFile(f) PROVE TypeOK'
  <2>1. CASE Refuse
    BY <1>5, <2>1, RefuseTypes DEF CheckFile
  <2>2. CASE ~Refuse
    BY <1>5, <2>2 DEF CheckFile
  <2> QED
    BY <2>1, <2>2
<1>6. ASSUME NEW f \in Path, RestoreFile(f) PROVE TypeOK'
  BY <1>6 DEF RestoreFile, Entry
<1>7. ASSUME NEW f \in Path, RestoreRaced(f) PROVE TypeOK'
  BY <1>7, RefuseTypes DEF RestoreRaced
<1>8. CASE RestoreFault \/ SyncFault
  BY <1>8, BoundAssumption, RefuseTypes DEF RestoreFault, SyncFault, Fault
<1>9. CASE SyncRestored
  BY <1>9, GotoTypes DEF SyncRestored
<1>10. ASSUME NEW f \in Path, RemoveBackup(f) PROVE TypeOK'
  BY <1>10 DEF RemoveBackup
<1>11. CASE RemoveJournal
  BY <1>11 DEF RemoveJournal
<1>12. CASE RemoveDirectory
  <2>1. CASE Committing
    BY Zenon, <1>12, <2>1, ForgetTypes DEF RemoveDirectory
  <2>2. CASE ~Committing
    BY Zenon, <1>12, <2>2, GotoTypes DEF RemoveDirectory
  <2> QED
    BY <2>1, <2>2
<1>13. CASE RemoveFault
  <2>1. dir' \in BOOLEAN
    BY <1>13, Zenon DEF RemoveFault
  <2> QED
    BY <1>13, <2>1, ForgetTypes DEF RemoveFault, Fault
<1>14. CASE Load
  <2>1. CASE cmd = "load"
    BY Zenon, <1>14, <2>1, ForgetTypes, RestTypes DEF Load
  <2>2. CASE cmd # "load"
    BY Zenon, <1>14, <2>2, RestTypes, PathAssumption DEF Load
  <2> QED
    BY <2>1, <2>2
<1>15. CASE Track
  <2>1. CASE \A f \in Declarative : file[f] = loaded[f]
    BY <1>15, <2>1 DEF Track, Entry
  <2>2. CASE ~(\A f \in Declarative : file[f] = loaded[f])
    BY <1>15, <2>2, ForgetTypes DEF Track
  <2> QED
    BY <2>1, <2>2
<1>16. ASSUME NEW c \in [Path -> Content], Resolve(c) PROVE TypeOK'
  BY <1>16 DEF Resolve, Entry
<1>17. CASE ResolveFails \/ VerifyOnly
  BY <1>17, ForgetTypes DEF ResolveFails, VerifyOnly
<1>18. CASE CommitVerify
  <2>1. CASE Unmodified(plan)
    BY <1>18, <2>1, GotoTypes DEF CommitVerify, Changed
  <2>2. CASE ~Unmodified(plan)
    BY <1>18, <2>2, ForgetTypes DEF CommitVerify
  <2> QED
    BY SMTT(30), <2>1, <2>2
<1>19. CASE VerifyAgain
  BY SMTT(30), <1>19, GotoTypes DEF VerifyAgain
<1>20. ASSUME NEW f \in Path, StageFile(f) PROVE TypeOK'
  BY <1>20, GotoTypes DEF StageFile
<1>21. CASE CreateFault
  BY <1>21, ForgetTypes DEF CreateFault, Fault
<1>22. CASE StageFault
  BY SMTT(30), <1>22, GotoTypes DEF StageFault, Fault
<1>23. CASE WritePrepared \/ PreparedUnsynced
  BY <1>23, GotoTypes DEF WritePrepared, PreparedUnsynced, Fault, Changed
<1>24. ASSUME NEW f \in Path, ReplaceFile(f) PROVE TypeOK'
  BY SMTT(30), <1>24 DEF ReplaceFile, Entry
<1>25. ASSUME NEW f \in Path, ReplaceRaced(f) PROVE TypeOK'
  BY SMTT(30), <1>25, GotoTypes DEF ReplaceRaced, Changed
<1>26. CASE ReplaceFault
  <2>1. file' \in [Path -> Content]
    BY SMTT(30), <1>26 DEF ReplaceFault, Entry
  <2> QED
    BY SMTT(30), <1>26, <2>1, GotoTypes DEF ReplaceFault, Fault, Changed
<1>27. CASE WriteCommitted
  BY <1>27, GotoTypes DEF WriteCommitted
<1>28. CASE CommittedUnsynced
  BY <1>28, ForgetTypes DEF CommittedUnsynced, Fault
<1>29. ASSUME NEW c \in Commands \ {"none"}, Begin(c) PROVE TypeOK'
  BY SMTT(30), <1>29 DEF Begin
<1>30. ASSUME NEW f \in Path, NEW v \in Content, Edit(f, v) PROVE TypeOK'
  BY SMTT(30), <1>30 DEF Edit
<1>31. CASE Kill
  BY SMTT(30), <1>31, ForgetTypes DEF Kill
<1>32. ASSUME NEW S \in SUBSET Path, PowerLoss(S) PROVE TypeOK'
  BY SMTT(30), <1>32, ForgetTypes, RestTypes DEF PowerLoss, Entry
<1>33. CASE UNCHANGED vars
  BY <1>33 DEF vars
<1> QED
  BY Zenon, <1>1, <1>2, <1>3, <1>4, <1>5, <1>6, <1>7, <1>8, <1>9, <1>10,
     <1>11, <1>12, <1>13, <1>14, <1>15, <1>16, <1>17, <1>18,
     <1>19, <1>20, <1>21, <1>22, <1>23, <1>24, <1>25, <1>26,
     <1>27, <1>28, <1>29, <1>30, <1>31, <1>32, <1>33
  DEF Next, Advance, Fails, Environment

(* The initial states are well typed. *)
LEMMA TypeInit == Init => TypeOK
<1> SUFFICES ASSUME Init PROVE TypeOK
  OBVIOUS
<1> QED
  BY Zenon, RestTypes DEF Init, TypeOK, Phases, Commands

(* Every variable of the transaction and of its disk keeps its type. *)
THEOREM TypeCorrect == Spec => []TypeOK
  BY TypeInit, TypeStep, PTL DEF Spec

Resolving == pc \in {"resolve", "verify", "stage", "prepare"}
Pulling == pc = "track" \/ Resolving \/ pc = "replace"
RollingBack == pc \in {"check", "restore"}
Ours == Changed(record) \ edited

(* What exists on disk at each step. *)
DiskInv ==
  /\ ~dir => journal = "none" /\ backup = NoBackup
  /\ pc \in {"load", "track", "resolve", "verify"} => ~dir
  /\ pc \in {"stage", "prepare"} => dir /\ journal = "none"
  /\ pc = "replace" => dir /\ journal = "prepared" /\ record = plan
  /\ RollingBack => dir /\ journal = "prepared"
  /\ pc = "track" \/ Resolving => record = NoPlan

(* What Commit knows of the files and the backups before and while it       *)
(* replaces them.                                                           *)
CommitInv ==
  /\ Resolving => \A f \in Path \ edited : file[f] = plan[f].orig
  /\ Resolving \/ pc = "replace" => \A f \in Declarative : plan[f].orig = loaded[f]
  /\ pc = "prepare" => \A f \in Changed(plan) \ unseen : file[f] = plan[f].orig
  /\ pc \in {"stage", "prepare", "replace"} =>
       \A f \in Changed(plan) : plan[f].orig # Absent /\ (f \notin todo \/ pc # "stage")
                                  => backup[f] = plan[f].orig
  /\ pc \in {"stage", "replace"} => todo \subseteq Changed(plan)
  /\ pc = "replace" =>
       \A f \in Changed(plan) : /\ f \in todo \ unseen => file[f] = plan[f].orig
                                /\ f \notin todo /\ f \notin edited => file[f] = plan[f].cand

(* How far the reverse loop of recoverPreparedTransaction has come. *)
RollbackInv ==
  /\ unseen \subseteq edited
  /\ RollingBack =>
       /\ todo \subseteq Changed(record)
       /\ \A f \in Changed(record) \ todo :
            f \in touched /\ (f \notin edited => file[f] = record[f].orig)
  /\ pc = "restore" => \A f \in Path : Last(f, todo) /\ f \notin unseen => Restorable(f)
  /\ pc = "remove" /\ journal = "prepared" /\ ~abandoned =>
       \A f \in Ours : file[f] = record[f].orig

(* Which restorations a power loss can still undo. *)
SyncInv ==
  /\ \A f \in Path : unsynced[f] # Missing =>
       f \in Changed(record) /\ (f \notin edited => unsynced[f] = record[f].cand)
  /\ \/ Pulling
     \/ journal = "committed"
     \/ ~abandoned /\ (pc = "remove" \/ journal = "none")
     => \A f \in Path : unsynced[f] = Missing

(* Nothing torn is left once the journal is gone. *)
WholeInv == journal = "none" /\ ~abandoned => Whole

Safe ==
  /\ DiskInv /\ CommitInv /\ RollbackInv /\ SyncInv
  /\ WholeInv /\ PreparedIsRecoverable /\ CommittedIsComplete

Inv == TypeOK /\ Safe

-----------------------------------------------------------------------------
(* The rest of Inv, one lemma per part and one step per stage. *)

(* The steps of Next by the stage of the command that takes them. *)
Looking ==
  \/ \E c \in Commands \ {"none"} : Begin(c)
  \/ RecoverNothing \/ RecoverUnjournaled \/ RecoverPrepared \/ RecoverCommitted
Undoing ==
  \/ \E f \in Path : CheckFile(f) \/ RestoreRaced(f)
  \/ RestoreFault \/ SyncFault
Discarding == RemoveJournal \/ RemoveDirectory \/ RemoveFault
Preparing ==
  \/ Load \/ Track \/ ResolveFails \/ VerifyOnly \/ CommitVerify \/ CreateFault
  \/ \E c \in [Path -> Content] : Resolve(c)
Staging == StageFault \/ VerifyAgain \/ WritePrepared \/ PreparedUnsynced
Stopping ==
  \/ \E f \in Path : ReplaceRaced(f)
  \/ WriteCommitted \/ CommittedUnsynced \/ Kill

(* They are all of Next. *)
LEMMA NextCases ==
  ASSUME Next
  PROVE  \/ Looking \/ Undoing \/ Discarding \/ Preparing \/ Staging \/ Stopping
         \/ SyncRestored \/ ReplaceFault
         \/ \E f \in Path : RestoreFile(f) \/ RemoveBackup(f) \/ StageFile(f) \/ ReplaceFile(f)
         \/ \E f \in Path, v \in Content : Edit(f, v)
         \/ \E S \in SUBSET Path : PowerLoss(S)
  BY DEF Next, Advance, Fails, Environment, Looking, Undoing, Discarding, Preparing, Staging,
         Stopping

(* A changed path is in the transaction, so Verify looks at it. *)
LEMMA ChangedIsWatched == ASSUME NEW p PROVE Changed(p) \subseteq Watched(p)
  BY ZenonT(30) DEF Changed, Watched

(* Journal, directory and records exist exactly while they are needed. *)
LEMMA DiskStep == Inv /\ [Next]_vars => DiskInv'
<1> SUFFICES ASSUME Inv, [Next]_vars PROVE DiskInv'
  BY ZenonT(30)
<1> USE DEF Forget, Goto, Fault, Refuse, disk, memory, history, counters, Inv, Safe,
   DiskInv, Resolving, RollingBack
<1>1. CASE Looking
  BY SMTT(30), <1>1 DEF Looking, Begin, RecoverNothing, RecoverUnjournaled, RecoverPrepared,
     RecoverCommitted
<1>2. CASE Undoing
  BY ZenonT(30), <1>2 DEF Undoing, CheckFile, RestoreRaced, RestoreFault, SyncFault
<1>3. CASE Discarding
  BY ZenonT(30), <1>3 DEF Discarding, RemoveJournal, RemoveDirectory, RemoveFault, TypeOK
<1>4. CASE Preparing
  <2>1. CASE Load
    BY Zenon, <2>1 DEF Load
  <2>2. CASE ResolveFails \/ VerifyOnly \/ CreateFault
    BY Zenon, <2>2 DEF ResolveFails, VerifyOnly, CreateFault
  <2>3. CASE CommitVerify
    BY Zenon, <2>3 DEF CommitVerify
  <2>4. ASSUME NEW c \in [Path -> Content], Resolve(c) PROVE DiskInv'
    BY Zenon, <2>4 DEF Resolve
  <2>5. CASE Track
    <3>1. /\ pc = "track" /\ UNCHANGED <<dir, journal, backup, record>>
          /\ pc' \in {"resolve", "idle"}
      BY ZenonT(30), <2>5 DEF Track
    <3> QED
      BY ZenonT(30), <3>1
  <2> QED
    BY Zenon, <1>4, <2>1, <2>2, <2>3, <2>4, <2>5 DEF Preparing
<1>5. CASE Staging
  BY ZenonT(30), <1>5 DEF Staging, StageFault, VerifyAgain, WritePrepared, PreparedUnsynced
<1>6. CASE Stopping
  BY ZenonT(30), <1>6 DEF Stopping, ReplaceRaced, WriteCommitted, CommittedUnsynced, Kill
<1>7. CASE SyncRestored
  BY ZenonT(30), <1>7 DEF SyncRestored
<1>8. CASE ReplaceFault
  BY ZenonT(30), <1>8 DEF ReplaceFault, First
<1>9. ASSUME NEW f \in Path, RestoreFile(f) PROVE DiskInv'
  BY ZenonT(30), <1>9 DEF RestoreFile, Last
<1>10. ASSUME NEW f \in Path, RemoveBackup(f) PROVE DiskInv'
  BY ZenonT(30), <1>10 DEF RemoveBackup, NoBackup, TypeOK
<1>11. ASSUME NEW f \in Path, StageFile(f) PROVE DiskInv'
  BY Zenon, <1>11 DEF StageFile, First
<1>12. ASSUME NEW f \in Path, ReplaceFile(f) PROVE DiskInv'
  BY ZenonT(30), <1>12 DEF ReplaceFile, First
<1>13. ASSUME NEW f \in Path, NEW v \in Content, Edit(f, v) PROVE DiskInv'
  BY ZenonT(30), <1>13 DEF Edit
<1>14. ASSUME NEW S \in SUBSET Path, PowerLoss(S) PROVE DiskInv'
  BY ZenonT(30), <1>14 DEF PowerLoss, NoBackup, TypeOK
<1>15. CASE UNCHANGED vars
  BY ZenonT(30), <1>15 DEF vars
<1> QED
  BY Zenon, NextCases, <1>1, <1>2, <1>3, <1>4, <1>5, <1>6, <1>7, <1>8, <1>9, <1>10, <1>11,
     <1>12, <1>13, <1>14, <1>15

(* Backups are verified before the journal, and the journal is on disk      *)
(* before the first rename.                                                 *)
LEMMA CommitStep == Inv /\ [Next]_vars => CommitInv'
<1> SUFFICES ASSUME Inv, [Next]_vars PROVE CommitInv'
  OBVIOUS
<1> USE DEF Forget, Goto, Fault, Refuse, disk, memory, history, counters, Inv, Safe,
   CommitInv, Resolving, Changed
<1>1. CASE Looking
  BY ZenonT(30), <1>1 DEF Looking, Begin, RecoverNothing, RecoverUnjournaled, RecoverPrepared,
     RecoverCommitted
<1>2. CASE Undoing
  BY ZenonT(30), <1>2 DEF Undoing, CheckFile, RestoreRaced, RestoreFault, SyncFault
<1>3. CASE Discarding
  BY ZenonT(30), <1>3 DEF Discarding, RemoveJournal, RemoveDirectory, RemoveFault
<1>4. CASE Preparing
  <2>1. CASE Track
    <3>1. CASE \A f \in Declarative : file[f] = loaded[f]
      <4>1. /\ plan' = [f \in Path |-> [orig |-> file[f], cand |-> file[f]]]
            /\ pc' = "resolve" /\ UNCHANGED <<file, loaded>>
        BY Zenon, <2>1, <3>1 DEF Track
      <4>2. \A f \in Path : plan'[f].orig = file[f] /\ plan'[f].cand = file[f]
        BY Zenon, <4>1
      <4> QED
        BY Zenon, <3>1, <4>1, <4>2, PathAssumption
    <3>2. CASE ~ \A f \in Declarative : file[f] = loaded[f]
      BY Zenon, <2>1, <3>2 DEF Track
    <3> QED
      BY Zenon, <3>1, <3>2
  <2>2. ASSUME NEW c \in [Path -> Content], Resolve(c) PROVE CommitInv'
    BY ZenonT(30), <2>2, PathAssumption DEF Resolve, TypeOK
  <2>3. CASE CommitVerify
    BY ZenonT(60), <2>3 DEF CommitVerify
  <2>4. CASE Load \/ ResolveFails \/ VerifyOnly \/ CreateFault
    BY Zenon, <2>4 DEF Load, ResolveFails, VerifyOnly, CreateFault
  <2> QED
    BY ZenonT(30), <1>4, <2>1, <2>2, <2>3, <2>4 DEF Preparing
<1>5. CASE Staging
  BY ZenonT(30), <1>5, ChangedIsWatched DEF Staging, StageFault, VerifyAgain, WritePrepared,
     PreparedUnsynced, Unmodified
<1>6. CASE Stopping
  BY Zenon, <1>6 DEF Stopping, ReplaceRaced, WriteCommitted, CommittedUnsynced, Kill
<1>7. CASE SyncRestored
  BY Zenon, <1>7 DEF SyncRestored
<1>8. CASE ReplaceFault
  BY ZenonT(30), <1>8 DEF ReplaceFault, First
<1>9. ASSUME NEW f \in Path, RestoreFile(f) PROVE CommitInv'
  BY Zenon, <1>9 DEF RestoreFile, Last
<1>10. ASSUME NEW f \in Path, RemoveBackup(f) PROVE CommitInv'
  BY ZenonT(30), <1>10 DEF RemoveBackup
<1>11. ASSUME NEW f \in Path, StageFile(f) PROVE CommitInv'
  BY ZenonT(60), <1>11 DEF StageFile, First, TypeOK
<1>12. ASSUME NEW f \in Path, ReplaceFile(f) PROVE CommitInv'
  BY Zenon, <1>12 DEF ReplaceFile, First, TypeOK
<1>13. ASSUME NEW f \in Path, NEW v \in Content, Edit(f, v) PROVE CommitInv'
  BY ZenonT(30), <1>13, PathAssumption DEF Edit, TypeOK
<1>14. ASSUME NEW S \in SUBSET Path, PowerLoss(S) PROVE CommitInv'
  BY Zenon, <1>14 DEF PowerLoss
<1>15. CASE UNCHANGED vars
  BY ZenonT(30), <1>15 DEF vars
<1> QED
  BY ZenonT(30), NextCases, <1>1, <1>2, <1>3, <1>4, <1>5, <1>6, <1>7, <1>8, <1>9, <1>10, <1>11,
     <1>12, <1>13, <1>14, <1>15

(* The reverse loop leaves only restored paths behind it. *)
LEMMA RollbackStep == Inv /\ [Next]_vars => RollbackInv'
<1> SUFFICES ASSUME Inv, [Next]_vars PROVE RollbackInv'
  OBVIOUS
<1> USE DEF Forget, Goto, Fault, Refuse, disk, memory, history, counters, Inv, Safe,
   RollbackInv, RollingBack, Ours, Changed
<1>1. CASE Looking
  BY ZenonT(30), <1>1 DEF Looking, Begin, RecoverNothing, RecoverUnjournaled, RecoverPrepared,
     RecoverCommitted, DiskInv
<1>2. CASE Undoing
  <2>1. ASSUME NEW f \in Path, CheckFile(f), ~Refuse PROVE RollbackInv'
    <3>1. CASE Restored(f) /\ todo' = todo \ {f} /\ touched' = touched \cup {f} /\ UNCHANGED pc
      BY ZenonT(30), <2>1, <3>1 DEF CheckFile, Restored
    <3>2. CASE Restorable(f) /\ pc' = "restore" /\ UNCHANGED <<todo, touched>>
      <4>1. \A g \in Path : Last(g, todo) => g = f
        BY SMTT(30), <2>1, PathAssumption DEF CheckFile, Last
      <4>2. Restorable(f)'
        BY ZenonT(30), <2>1, <3>2 DEF CheckFile, Restorable
      <4> QED
        BY ZenonT(30), <2>1, <3>2, <4>1, <4>2 DEF CheckFile
    <3> QED
      BY ZenonT(30), <2>1, <3>1, <3>2 DEF CheckFile
  <2>2. CASE Refuse /\ UNCHANGED <<disk, edited>> /\ unseen' \subseteq unseen
    BY ZenonT(30), <2>2
  <2> QED
    BY ZenonT(30), <1>2, <2>1, <2>2 DEF Undoing, CheckFile, RestoreRaced, RestoreFault, SyncFault
<1>3. CASE Discarding
  BY ZenonT(30), <1>3 DEF Discarding, RemoveJournal, RemoveDirectory, RemoveFault
<1>4. CASE Preparing
  BY ZenonT(30), <1>4 DEF Preparing, Load, Track, ResolveFails, VerifyOnly, CommitVerify,
     CreateFault, Resolve
<1>5. CASE Staging
  BY ZenonT(30), <1>5 DEF Staging, StageFault, VerifyAgain, WritePrepared, PreparedUnsynced,
     DiskInv, CommitInv, Resolving
<1>6. CASE Stopping
  BY ZenonT(30), <1>6 DEF Stopping, ReplaceRaced, WriteCommitted, CommittedUnsynced, Kill, DiskInv
<1>7. CASE SyncRestored
  BY ZenonT(30), <1>7 DEF SyncRestored
<1>8. CASE ReplaceFault
  BY ZenonT(30), <1>8 DEF ReplaceFault, First, DiskInv
<1>9. ASSUME NEW f \in Path, RestoreFile(f) PROVE RollbackInv'
  <2>1. todo' = todo \ {f} /\ f \in touched' /\ touched \subseteq touched'
    BY ZenonT(30), <1>9 DEF RestoreFile
  <2>2. file'[f] = record[f].orig /\ \A g \in Path \ {f} : file'[g] = file[g]
    BY ZenonT(30), <1>9 DEF RestoreFile, TypeOK
  <2> QED
    BY ZenonT(30), <1>9, <2>1, <2>2 DEF RestoreFile
<1>10. ASSUME NEW f \in Path, RemoveBackup(f) PROVE RollbackInv'
  BY ZenonT(30), <1>10 DEF RemoveBackup, DiskInv, TypeOK
<1>11. ASSUME NEW f \in Path, StageFile(f) PROVE RollbackInv'
  BY ZenonT(30), <1>11 DEF StageFile, First, DiskInv
<1>12. ASSUME NEW f \in Path, ReplaceFile(f) PROVE RollbackInv'
  BY ZenonT(30), <1>12 DEF ReplaceFile, First
<1>13. ASSUME NEW f \in Path, NEW v \in Content, Edit(f, v) PROVE RollbackInv'
  <2>1. f \in edited' \cap unseen' /\ \A g \in Path \ {f} : file'[g] = file[g]
    BY ZenonT(30), <1>13 DEF Edit, TypeOK
  <2>2. \A g \in Path \ {f} : Restorable(g) => Restorable(g)'
    BY ZenonT(30), <1>13, <2>1 DEF Edit, Restorable
  <2> QED
    BY ZenonT(30), <1>13, <2>1, <2>2 DEF Edit, Last
<1>14. ASSUME NEW S \in SUBSET Path, PowerLoss(S) PROVE RollbackInv'
  BY ZenonT(30), <1>14 DEF PowerLoss
<1>15. CASE UNCHANGED vars
  BY ZenonT(30), <1>15 DEF vars, Restorable, Last
<1> QED
  BY ZenonT(30), NextCases, <1>1, <1>2, <1>3, <1>4, <1>5, <1>6, <1>7, <1>8, <1>9, <1>10, <1>11,
     <1>12, <1>13, <1>14, <1>15

(* The directories of all restored paths are synced before the journal goes. *)
LEMMA SyncStep == Inv /\ [Next]_vars => SyncInv'
<1> SUFFICES ASSUME Inv, [Next]_vars PROVE SyncInv'
  OBVIOUS
<1> USE DEF Forget, Goto, Fault, Refuse, disk, memory, history, counters, Inv, Safe,
   SyncInv, Pulling, Resolving, Changed
<1>1. CASE Looking
  BY ZenonT(30), <1>1 DEF Looking, Begin, RecoverNothing, RecoverUnjournaled, RecoverPrepared,
     RecoverCommitted
<1>2. CASE Undoing
  BY ZenonT(30), <1>2 DEF Undoing, CheckFile, RestoreRaced, RestoreFault, SyncFault, DiskInv,
     RollingBack
<1>3. CASE Discarding
  BY ZenonT(30), <1>3 DEF Discarding, RemoveJournal, RemoveDirectory, RemoveFault
<1>4. CASE Preparing
  BY ZenonT(30), <1>4 DEF Preparing, Load, Track, ResolveFails, VerifyOnly, CommitVerify,
     CreateFault, Resolve, NoBackup
<1>5. CASE Staging
  BY ZenonT(30), <1>5 DEF Staging, StageFault, VerifyAgain, WritePrepared, PreparedUnsynced
<1>6. CASE Stopping
  BY ZenonT(30), <1>6 DEF Stopping, ReplaceRaced, WriteCommitted, CommittedUnsynced, Kill
<1>7. CASE SyncRestored
  BY ZenonT(30), <1>7 DEF SyncRestored, TypeOK, DiskInv, RollbackInv, RollingBack
<1>8. CASE ReplaceFault
  BY ZenonT(30), <1>8 DEF ReplaceFault, First
<1>9. ASSUME NEW f \in Path, RestoreFile(f) PROVE SyncInv'
  BY ZenonT(60), <1>9 DEF RestoreFile, Last, TypeOK, DiskInv, RollbackInv, RollingBack, Restorable
<1>10. ASSUME NEW f \in Path, RemoveBackup(f) PROVE SyncInv'
  BY Zenon, <1>10 DEF RemoveBackup
<1>11. ASSUME NEW f \in Path, StageFile(f) PROVE SyncInv'
  BY ZenonT(30), <1>11 DEF StageFile, First
<1>12. ASSUME NEW f \in Path, ReplaceFile(f) PROVE SyncInv'
  BY ZenonT(30), <1>12 DEF ReplaceFile, First
<1>13. ASSUME NEW f \in Path, NEW v \in Content, Edit(f, v) PROVE SyncInv'
  BY ZenonT(30), <1>13 DEF Edit, TypeOK
<1>14. ASSUME NEW S \in SUBSET Path, PowerLoss(S) PROVE SyncInv'
  BY Zenon, <1>14 DEF PowerLoss, NoBackup
<1>15. CASE UNCHANGED vars
  BY ZenonT(30), <1>15 DEF vars
<1> QED
  BY ZenonT(30), NextCases, <1>1, <1>2, <1>3, <1>4, <1>5, <1>6, <1>7, <1>8, <1>9, <1>10, <1>11,
     <1>12, <1>13, <1>14, <1>15

(* The journal goes only when its paths are all restored or all replaced.   *)
LEMMA WholeStep == Inv /\ [Next]_vars => WholeInv'
<1> SUFFICES ASSUME Inv, [Next]_vars PROVE WholeInv'
  OBVIOUS
<1> USE DEF Forget, Goto, Fault, Refuse, disk, memory, history, counters, Inv, Safe,
   WholeInv, Whole, Changed
<1>1. CASE Looking
  BY ZenonT(30), <1>1 DEF Looking, Begin, RecoverNothing, RecoverUnjournaled, RecoverPrepared,
     RecoverCommitted
<1>2. CASE Undoing
  BY ZenonT(30), <1>2 DEF Undoing, CheckFile, RestoreRaced, RestoreFault, SyncFault
<1>3. CASE Discarding
  BY ZenonT(30), <1>3 DEF Discarding, RemoveJournal, RemoveDirectory, RemoveFault, TypeOK,
     RollbackInv, CommittedIsComplete, Ours
<1>4. CASE Preparing
  <2>1. CASE Load
    BY Zenon, <2>1 DEF Load, NoPlan
  <2>2. CASE ResolveFails \/ VerifyOnly \/ CreateFault
    BY Zenon, <2>2 DEF ResolveFails, VerifyOnly, CreateFault
  <2>4. CASE Track
    <3>1. record = NoPlan /\ UNCHANGED record
      BY ZenonT(30), <2>4 DEF Track, DiskInv
    <3> QED
      BY ZenonT(30), <3>1 DEF NoPlan
  <2>5. CASE CommitVerify
    <3>1. UNCHANGED <<file, journal, record, edited, abandoned>>
      BY Zenon, <2>5 DEF CommitVerify
    <3> QED
      BY Zenon, <3>1
  <2>3. ASSUME NEW c \in [Path -> Content], Resolve(c) PROVE WholeInv'
    BY Zenon, <2>3 DEF Resolve
  <2> QED
    BY Zenon, <1>4, <2>1, <2>2, <2>3, <2>4, <2>5 DEF Preparing
<1>5. CASE Staging
  BY Zenon, <1>5 DEF Staging, StageFault, VerifyAgain, WritePrepared, PreparedUnsynced
<1>6. CASE Stopping
  BY ZenonT(30), <1>6 DEF Stopping, ReplaceRaced, WriteCommitted, CommittedUnsynced, Kill
<1>7. CASE SyncRestored
  BY ZenonT(30), <1>7 DEF SyncRestored
<1>8. CASE ReplaceFault
  BY ZenonT(30), <1>8 DEF ReplaceFault, First, DiskInv
<1>9. ASSUME NEW f \in Path, RestoreFile(f) PROVE WholeInv'
  BY ZenonT(30), <1>9 DEF RestoreFile, Last, DiskInv, RollingBack
<1>10. ASSUME NEW f \in Path, RemoveBackup(f) PROVE WholeInv'
  BY ZenonT(30), <1>10 DEF RemoveBackup
<1>11. ASSUME NEW f \in Path, StageFile(f) PROVE WholeInv'
  BY ZenonT(30), <1>11 DEF StageFile, First
<1>12. ASSUME NEW f \in Path, ReplaceFile(f) PROVE WholeInv'
  BY ZenonT(30), <1>12 DEF ReplaceFile, First, DiskInv
<1>13. ASSUME NEW f \in Path, NEW v \in Content, Edit(f, v) PROVE WholeInv'
  BY ZenonT(30), <1>13 DEF Edit, TypeOK
<1>14. ASSUME NEW S \in SUBSET Path, PowerLoss(S) PROVE WholeInv'
  BY ZenonT(30), <1>14 DEF PowerLoss, SyncInv, TypeOK
<1>15. CASE UNCHANGED vars
  BY ZenonT(30), <1>15 DEF vars
<1> QED
  BY ZenonT(30), NextCases, <1>1, <1>2, <1>3, <1>4, <1>5, <1>6, <1>7, <1>8, <1>9, <1>10, <1>11,
     <1>12, <1>13, <1>14, <1>15

(* A candidate is put in place over an original whose backup is there.      *)
LEMMA Placing ==
  ASSUME Inv, pc = "replace", NEW f \in Path, First(f, todo), file' = [file EXCEPT ![f] = plan[f].cand],
         UNCHANGED <<journal, record, backup, edited, abandoned>>
  PROVE  PreparedIsRecoverable'
<1>1. record = plan /\ f \in Changed(plan)
  BY Zenon DEF Inv, Safe, DiskInv, CommitInv, First
<1>2. plan[f].orig # Absent => backup[f] = plan[f].orig
  BY <1>1, Zenon DEF Inv, Safe, CommitInv
<1>3. file'[f] = plan[f].cand /\ \A g \in Path : g # f => file'[g] = file[g]
  BY ZenonT(30) DEF Inv, TypeOK
<1>4. Restorable(f)'
  BY <1>1, <1>2, <1>3, Zenon DEF Restorable
<1>5. ASSUME journal = "prepared", ~abandoned, NEW g \in Changed(record) \ edited, g # f
      PROVE  (Restored(g) \/ Restorable(g))'
  <2>1. (Restored(g) \/ Restorable(g)) /\ g \in Path
    BY <1>5, Zenon DEF Inv, Safe, PreparedIsRecoverable, Changed
  <2> QED
    BY <1>3, <1>5, <2>1, Zenon DEF Restored, Restorable
<1>6. Changed(record)' = Changed(record)
  BY Zenon DEF Changed
<1> QED
  BY <1>4, <1>5, <1>6, Zenon DEF PreparedIsRecoverable

(* A path leaves its original only with a verified backup behind it.        *)
LEMMA RecoverableStep == Inv /\ [Next]_vars => PreparedIsRecoverable'
<1> SUFFICES ASSUME Inv, [Next]_vars PROVE PreparedIsRecoverable'
  OBVIOUS
<1> USE DEF Forget, Goto, Fault, Refuse, disk, memory, history, counters, Inv, Safe,
   PreparedIsRecoverable, Changed, Restored, Restorable
<1>1. CASE Looking
  BY ZenonT(30), <1>1 DEF Looking, Begin, RecoverNothing, RecoverUnjournaled, RecoverPrepared,
     RecoverCommitted
<1>2. CASE Undoing
  BY ZenonT(30), <1>2 DEF Undoing, CheckFile, RestoreRaced, RestoreFault, SyncFault
<1>3. CASE Discarding
  BY ZenonT(30), <1>3 DEF Discarding, RemoveJournal, RemoveDirectory, RemoveFault
<1>4. CASE Preparing
  BY ZenonT(30), <1>4 DEF Preparing, Load, Track, ResolveFails, VerifyOnly, CommitVerify,
     CreateFault, Resolve, DiskInv
<1>5. CASE Staging
  BY ZenonT(30), <1>5 DEF Staging, StageFault, VerifyAgain, WritePrepared, PreparedUnsynced,
     DiskInv, CommitInv, Resolving
<1>6. CASE Stopping
  BY ZenonT(30), <1>6 DEF Stopping, ReplaceRaced, WriteCommitted, CommittedUnsynced, Kill
<1>7. CASE SyncRestored
  BY ZenonT(30), <1>7 DEF SyncRestored
<1>8. CASE ReplaceFault
  <2>1. CASE UNCHANGED file
    BY ZenonT(30), <1>8, <2>1 DEF ReplaceFault
  <2>2. ASSUME NEW f \in Path, First(f, todo), file' = [file EXCEPT ![f] = plan[f].cand]
        PROVE  PreparedIsRecoverable'
    BY <1>8, <2>2, Placing, ZenonT(30) DEF ReplaceFault
  <2> QED
    BY ZenonT(30), <1>8, <2>1, <2>2 DEF ReplaceFault
<1>9. ASSUME NEW f \in Path, RestoreFile(f) PROVE PreparedIsRecoverable'
  BY Zenon, <1>9, ContentAssumption DEF RestoreFile, Last, TypeOK
<1>10. ASSUME NEW f \in Path, RemoveBackup(f) PROVE PreparedIsRecoverable'
  BY ZenonT(30), <1>10 DEF RemoveBackup, RollbackInv, Ours, TypeOK
<1>11. ASSUME NEW f \in Path, StageFile(f) PROVE PreparedIsRecoverable'
  BY ZenonT(30), <1>11 DEF StageFile, First, DiskInv
<1>12. ASSUME NEW f \in Path, ReplaceFile(f) PROVE PreparedIsRecoverable'
  BY <1>12, Placing, ZenonT(30) DEF ReplaceFile
<1>13. ASSUME NEW f \in Path, NEW v \in Content, Edit(f, v) PROVE PreparedIsRecoverable'
  BY Zenon, <1>13 DEF Edit, TypeOK
<1>14. ASSUME NEW S \in SUBSET Path, PowerLoss(S) PROVE PreparedIsRecoverable'
  BY ZenonT(30), <1>14 DEF PowerLoss, DiskInv, SyncInv, TypeOK
<1>15. CASE UNCHANGED vars
  BY ZenonT(30), <1>15 DEF vars
<1> QED
  BY ZenonT(30), NextCases, <1>1, <1>2, <1>3, <1>4, <1>5, <1>6, <1>7, <1>8, <1>9, <1>10, <1>11,
     <1>12, <1>13, <1>14, <1>15

(* Every candidate is in place at the commit point, and nothing undoes it.  *)
LEMMA CompleteStep == Inv /\ [Next]_vars => CommittedIsComplete'
<1> SUFFICES ASSUME Inv, [Next]_vars PROVE CommittedIsComplete'
  OBVIOUS
<1> USE DEF Forget, Goto, Fault, Refuse, disk, memory, history, counters, Inv, Safe,
   CommittedIsComplete, Changed
<1>1. CASE Looking
  BY ZenonT(30), <1>1 DEF Looking, Begin, RecoverNothing, RecoverUnjournaled, RecoverPrepared,
     RecoverCommitted
<1>2. CASE Undoing
  BY ZenonT(30), <1>2 DEF Undoing, CheckFile, RestoreRaced, RestoreFault, SyncFault
<1>3. CASE Discarding
  BY ZenonT(30), <1>3 DEF Discarding, RemoveJournal, RemoveDirectory, RemoveFault
<1>4. CASE Preparing
  BY ZenonT(30), <1>4 DEF Preparing, Load, Track, ResolveFails, VerifyOnly, CommitVerify,
     CreateFault, Resolve, DiskInv
<1>5. CASE Staging
  BY ZenonT(30), <1>5 DEF Staging, StageFault, VerifyAgain, WritePrepared, PreparedUnsynced
<1>6. CASE Stopping
  BY ZenonT(30), <1>6 DEF Stopping, ReplaceRaced, WriteCommitted, CommittedUnsynced, Kill, DiskInv,
     CommitInv
<1>7. CASE SyncRestored
  BY Zenon, <1>7 DEF SyncRestored
<1>8. CASE ReplaceFault
  BY ZenonT(30), <1>8 DEF ReplaceFault, First, DiskInv
<1>9. ASSUME NEW f \in Path, RestoreFile(f) PROVE CommittedIsComplete'
  BY ZenonT(30), <1>9 DEF RestoreFile, Last, DiskInv, RollingBack
<1>10. ASSUME NEW f \in Path, RemoveBackup(f) PROVE CommittedIsComplete'
  BY ZenonT(30), <1>10 DEF RemoveBackup
<1>11. ASSUME NEW f \in Path, StageFile(f) PROVE CommittedIsComplete'
  BY ZenonT(30), <1>11 DEF StageFile, First
<1>12. ASSUME NEW f \in Path, ReplaceFile(f) PROVE CommittedIsComplete'
  BY ZenonT(30), <1>12 DEF ReplaceFile, First, DiskInv
<1>13. ASSUME NEW f \in Path, NEW v \in Content, Edit(f, v) PROVE CommittedIsComplete'
  BY ZenonT(30), <1>13 DEF Edit, TypeOK
<1>14. ASSUME NEW S \in SUBSET Path, PowerLoss(S) PROVE CommittedIsComplete'
  BY ZenonT(30), <1>14 DEF PowerLoss, SyncInv, TypeOK
<1>15. CASE UNCHANGED vars
  BY Zenon, <1>15 DEF vars
<1> QED
  BY ZenonT(30), NextCases, <1>1, <1>2, <1>3, <1>4, <1>5, <1>6, <1>7, <1>8, <1>9, <1>10, <1>11,
     <1>12, <1>13, <1>14, <1>15

-----------------------------------------------------------------------------
(* Inv is an inductive invariant. *)

(* The initial states satisfy Inv. *)
LEMMA InvInit == Init => Inv
<1> SUFFICES ASSUME Init PROVE Inv
  OBVIOUS
<1>1. TypeOK
  BY TypeInit
<1>2. Changed(record) = {}
  BY SMTT(30) DEF Init, Changed, NoPlan
<1>3. DiskInv /\ CommitInv /\ RollbackInv
  BY <1>2 DEF Init, DiskInv, CommitInv, RollbackInv, Resolving, RollingBack
<1>4. SyncInv
  BY SMTT(30), <1>2 DEF Init, SyncInv, NoBackup
<1>5. WholeInv /\ PreparedIsRecoverable /\ CommittedIsComplete
  BY <1>2 DEF Init, WholeInv, Whole, PreparedIsRecoverable, CommittedIsComplete
<1> QED
  BY <1>1, <1>3, <1>4, <1>5 DEF Inv, Safe

(* Every step keeps Inv. *)
LEMMA InvStep == Inv /\ [Next]_vars => Inv'
  BY TypeStep, DiskStep, CommitStep, RollbackStep, SyncStep, WholeStep, RecoverableStep,
     CompleteStep
  DEF Inv, Safe

(* Every reachable state satisfies Inv. *)
THEOREM Invariance == Spec => []Inv
  BY InvInit, InvStep, PTL DEF Spec

(* All or nothing (Commit, recoverTransactions): once no transaction        *)
(* directory is left the unedited paths are all old or all new.             *)
THEOREM AllOrNothing == Spec => []SettledIsWhole
<1>1. Inv => SettledIsWhole
  BY DEF Inv, Safe, DiskInv, WholeInv, SettledIsWhole
<1> QED
  BY <1>1, Invariance, PTL

(* recoverPreparedTransaction never meets an unedited path that it cannot   *)
(* restore.                                                                 *)
THEOREM AlwaysRecoverable == Spec => []PreparedIsRecoverable
<1>1. Inv => PreparedIsRecoverable
  BY DEF Inv, Safe
<1> QED
  BY <1>1, Invariance, PTL

(* verifyCommittedTransaction never fails on an unedited path. *)
THEOREM CommitPoint == Spec => []CommittedIsComplete
<1>1. Inv => CommittedIsComplete
  BY DEF Inv, Safe
<1> QED
  BY <1>1, Invariance, PTL

(* A command reads declarative state only when no update is half applied. *)
THEOREM NoTornLoad == Spec => []LoadsWholeState
<1>1. Inv => LoadsWholeState
  BY SMTT(30) DEF Inv, Safe, DiskInv, WholeInv, LoadsWholeState
<1> QED
  BY <1>1, Invariance, PTL

(* The bytes of atum.json that Commit replaces are the bytes Pull decoded. *)
THEOREM NoStaleReplace == Spec => []ReplacesWhatItRead
<1>1. Inv => ReplacesWhatItRead
  BY Zenon DEF Inv, Safe, CommitInv, ReplacesWhatItRead
<1> QED
  BY <1>1, Invariance, PTL

(* Neither Commit nor recovery overwrites content it has looked at that is  *)
(* neither the original nor the candidate of the transaction.               *)
THEOREM SeenEditsKept == Spec => KeepsSeenEdits
<1> DEFINE Kept == \A f \in Path : file'[f] # file[f] /\ Foreign(f) /\ edits' = edits
                                     => f \in unseen \/ crashes' # crashes
<1>1. Inv /\ [Next]_vars => [Kept]_vars
  <2> SUFFICES ASSUME Inv, Next PROVE Kept
    BY SMTT(30)
  <2>1. ASSUME NEW f \in Path, RestoreFile(f) PROVE Kept
    <3>1. f \notin unseen => file[f] = record[f].cand
      BY ZenonT(30), <2>1 DEF RestoreFile, Inv, Safe, RollbackInv, Restorable
    <3> QED
      BY ZenonT(30), <2>1, <3>1 DEF RestoreFile, Foreign, Inv, TypeOK
  <2>2. ASSUME NEW f \in Path, ReplaceFile(f) PROVE Kept
    BY ZenonT(30), <2>2, PathAssumption DEF ReplaceFile, First, Foreign, Inv, TypeOK, Safe,
       DiskInv, CommitInv, Changed
  <2>3. CASE ReplaceFault
    BY ZenonT(30), <2>3 DEF ReplaceFault, First, Foreign, Inv, TypeOK, Safe, DiskInv, CommitInv,
       Changed
  <2>4. ASSUME NEW f \in Path, NEW v \in Content, Edit(f, v) PROVE Kept
    BY <2>4 DEF Edit, Inv, TypeOK
  <2>5. ASSUME NEW S \in SUBSET Path, PowerLoss(S) PROVE Kept
    BY <2>5 DEF PowerLoss, Inv, TypeOK
  <2>6. CASE UNCHANGED file
    BY <2>6
  <2> QED
    BY Zenon, <2>1, <2>2, <2>3, <2>4, <2>5, <2>6 DEF Next, Advance, Fails, Environment, disk,
       RecoverNothing, RecoverUnjournaled, RecoverPrepared, RecoverCommitted, CheckFile,
       RestoreRaced, RestoreFault, SyncRestored, SyncFault, RemoveBackup, RemoveJournal,
       RemoveDirectory, RemoveFault, Load, Track, Resolve, ResolveFails, VerifyOnly, CommitVerify,
       CreateFault, StageFile, StageFault, VerifyAgain, WritePrepared, PreparedUnsynced,
       ReplaceRaced, WriteCommitted, CommittedUnsynced, Begin, Kill
<1> QED
  BY <1>1, Invariance, PTL DEF Spec, KeepsSeenEdits
-----------------------------------------------------------------------------
(* UpdateTransaction implements AtomicUpdate.                               *)

(* Nobody edits between the second Verify and the end of the command, nor   *)
(* while a recovery is at work.                                             *)
CalmEditor == EditPhases \cap {"check", "restore", "remove", "prepare", "replace"} = {}

(* What is known of every path, edited ones included, when no edit falls    *)
(* into that window.                                                        *)
CalmInv ==
  /\ pc = "prepare" => \A f \in Changed(plan) : file[f] = plan[f].orig
  /\ pc = "replace" => \A f \in Changed(plan) : /\ f \in todo => file[f] = plan[f].orig
                                                /\ f \notin todo => file[f] = plan[f].cand
  /\ RollingBack => \A f \in Changed(record) \ todo : file[f] = record[f].orig
  /\ pc = "restore" => \A f \in Path : Last(f, todo) => file[f] = record[f].cand
  /\ pc = "remove" /\ journal = "prepared" /\ ~abandoned =>
       \A f \in Changed(record) : file[f] = record[f].orig
  /\ \A f \in Path : unsynced[f] # Missing =>
       f \in Changed(record) /\ file[f] = record[f].orig /\ unsynced[f] = record[f].cand

(* Every step keeps it. *)
LEMMA CalmStep == ASSUME CalmEditor PROVE Inv /\ CalmInv /\ [Next]_vars => CalmInv'
<1> SUFFICES ASSUME Inv, CalmInv, [Next]_vars PROVE CalmInv'
  OBVIOUS
<1> USE DEF Forget, Goto, Fault, Refuse, disk, memory, history, counters, CalmInv, Changed,
   RollingBack
<1>1. CASE Looking
  BY ZenonT(30), <1>1 DEF Looking, Begin, RecoverNothing, RecoverUnjournaled, RecoverPrepared,
     RecoverCommitted
<1>2. CASE Undoing
  <2>1. ASSUME NEW f \in Path, CheckFile(f), ~Refuse PROVE CalmInv'
    <3>1. CASE Restored(f) /\ todo' = todo \ {f} /\ touched' = touched \cup {f} /\ UNCHANGED pc
      BY ZenonT(30), <2>1, <3>1 DEF CheckFile, Restored
    <3>2. CASE Restorable(f) /\ pc' = "restore" /\ UNCHANGED <<todo, touched>>
      <4>1. \A g \in Path : Last(g, todo) => g = f
        BY SMTT(30), <2>1, PathAssumption DEF CheckFile, Last
      <4> QED
        BY ZenonT(30), <2>1, <3>2, <4>1 DEF CheckFile, Restorable, Last
    <3> QED
      BY ZenonT(30), <2>1, <3>1, <3>2 DEF CheckFile
  <2>2. CASE Refuse /\ UNCHANGED disk
    BY ZenonT(30), <2>2
  <2> QED
    BY ZenonT(30), <1>2, <2>1, <2>2 DEF Undoing, CheckFile, RestoreRaced, RestoreFault, SyncFault
<1>3. CASE Discarding
  BY ZenonT(30), <1>3 DEF Discarding, RemoveJournal, RemoveDirectory, RemoveFault
<1>4. CASE Preparing
  BY ZenonT(30), <1>4 DEF Preparing, Load, Track, ResolveFails, VerifyOnly, CommitVerify,
     CreateFault, Resolve, NoBackup
<1>5. CASE Staging
  <2>1. CASE VerifyAgain
    BY ZenonT(30), <2>1, ChangedIsWatched DEF VerifyAgain, Unmodified, Inv, Safe, DiskInv
  <2>2. CASE WritePrepared \/ PreparedUnsynced
    <3>1. \A f \in Path : unsynced[f] = Missing
      BY ZenonT(30), <2>2 DEF WritePrepared, PreparedUnsynced, Inv, Safe, SyncInv, Pulling,
         Resolving
    <3> QED
      BY ZenonT(30), <2>2, <3>1 DEF WritePrepared, PreparedUnsynced
  <2>3. CASE StageFault
    BY ZenonT(30), <2>3 DEF StageFault, Inv, Safe, DiskInv
  <2> QED
    BY Zenon, <1>5, <2>1, <2>2, <2>3 DEF Staging
<1>6. CASE Stopping
  BY ZenonT(30), <1>6 DEF Stopping, ReplaceRaced, WriteCommitted, CommittedUnsynced, Kill, Inv,
     Safe, DiskInv
<1>7. CASE SyncRestored
  BY ZenonT(30), <1>7 DEF SyncRestored
<1>8. CASE ReplaceFault
  <2>1. record = plan /\ \A f \in Path : unsynced[f] = Missing
    BY ZenonT(30), <1>8 DEF ReplaceFault, Inv, Safe, DiskInv, SyncInv, Pulling
  <2> QED
    BY ZenonT(30), <1>8, <2>1 DEF ReplaceFault
<1>9. ASSUME NEW f \in Path, RestoreFile(f) PROVE CalmInv'
  <2>1. f \in todo /\ todo \subseteq Changed(record) /\ file[f] = record[f].cand
    BY ZenonT(30), <1>9 DEF RestoreFile, Last, Inv, Safe, RollbackInv
  <2>2. file'[f] = record[f].orig /\ \A g \in Path \ {f} : file'[g] = file[g]
    BY ZenonT(30), <1>9 DEF RestoreFile, Inv, TypeOK
  <2>3. unsynced'[f] = file[f] /\ \A g \in Path \ {f} : unsynced'[g] = unsynced[g]
    BY ZenonT(30), <1>9 DEF RestoreFile, Inv, TypeOK
  <2> QED
    BY ZenonT(30), <1>9, <2>1, <2>2, <2>3 DEF RestoreFile
<1>10. ASSUME NEW f \in Path, RemoveBackup(f) PROVE CalmInv'
  BY ZenonT(30), <1>10 DEF RemoveBackup
<1>11. ASSUME NEW f \in Path, StageFile(f) PROVE CalmInv'
  BY ZenonT(30), <1>11 DEF StageFile, Inv, Safe, DiskInv
<1>12. ASSUME NEW f \in Path, ReplaceFile(f) PROVE CalmInv'
  <2>1. \A g \in Path : unsynced[g] = Missing
    BY ZenonT(30), <1>12 DEF ReplaceFile, Inv, Safe, SyncInv, Pulling
  <2>2. file'[f] = plan[f].cand /\ \A g \in Path \ {f} : file'[g] = file[g]
    BY ZenonT(30), <1>12 DEF ReplaceFile, Inv, TypeOK
  <2> QED
    BY ZenonT(30), <1>12, <2>1, <2>2 DEF ReplaceFile
<1>13. ASSUME NEW f \in Path, NEW v \in Content, Edit(f, v) PROVE CalmInv'
  <2>1. pc \notin {"check", "restore", "remove", "prepare", "replace"}
    BY ZenonT(30), <1>13 DEF Edit, CalmEditor
  <2>2. /\ \A g \in Path \ {f} : file'[g] = file[g] /\ unsynced'[g] = unsynced[g]
        /\ unsynced'[f] = Missing
    BY ZenonT(30), <1>13 DEF Edit, Inv, TypeOK
  <2> QED
    BY ZenonT(30), <1>13, <2>1, <2>2 DEF Edit
<1>14. ASSUME NEW S \in SUBSET Path, PowerLoss(S) PROVE CalmInv'
  BY ZenonT(30), <1>14 DEF PowerLoss, NoBackup
<1>15. CASE UNCHANGED vars
  BY ZenonT(30), <1>15 DEF vars, Last
<1> QED
  BY ZenonT(30), NextCases, <1>1, <1>2, <1>3, <1>4, <1>5, <1>6, <1>7, <1>8, <1>9, <1>10, <1>11,
     <1>12, <1>13, <1>14, <1>15

(* It holds as long as nobody edits inside the window. *)
LEMMA CalmInvariance == ASSUME CalmEditor PROVE Spec => [](Inv /\ CalmInv)
<1>1. Init => CalmInv
  BY ZenonT(30) DEF Init, CalmInv, RollingBack, NoBackup
<1> QED
  BY <1>1, InvInit, InvStep, CalmStep, PTL DEF Spec

(* The content of a path as seen through the journal. *)
Logical(f) ==
  IF journal = "prepared" /\ f \in Changed(record) /\ file[f] = record[f].cand
  THEN record[f].orig ELSE file[f]

(* LogicalFiles path by path. *)
LEMMA LogicalByPath ==
  ASSUME \A f \in Path : Logical(f)' = Logical(f) PROVE UNCHANGED LogicalFiles
  BY ZenonT(30) DEF LogicalFiles, Logical

(* Steps that leave files, journal and records alone are not seen. *)
LEMMA Unseen == ASSUME UNCHANGED <<file, journal, record>> PROVE UNCHANGED <<LogicalFiles, Offer>>
<1>1. UNCHANGED Offer
  BY Zenon DEF Offer
<1>2. \A f \in Path : Logical(f)' = Logical(f)
  BY Zenon DEF Logical, Changed
<1> QED
  BY Zenon, <1>1, <1>2, LogicalByPath

(* Nor are those that swap originals and candidates of a prepared journal.  *)
LEMMA Swapped ==
  ASSUME UNCHANGED <<journal, record>>, journal = "prepared",
         \A f \in Path : \/ file'[f] = file[f]
                         \/ f \in Changed(record) /\ {file[f], file'[f]} \subseteq {record[f].orig, record[f].cand}
  PROVE  UNCHANGED <<LogicalFiles, Offer>>
<1>1. UNCHANGED Offer
  BY Zenon DEF Offer
<1>2. ASSUME NEW f \in Path PROVE Logical(f)' = Logical(f)
  <2>1. CASE file'[f] = file[f]
    BY Zenon, <2>1 DEF Logical, Changed
  <2>2. CASE f \in Changed(record) /\ {file[f], file'[f]} \subseteq {record[f].orig, record[f].cand}
    <3>1. Logical(f) = record[f].orig
      BY Zenon, <2>2 DEF Logical
    <3>2. Logical(f)' = record[f].orig
      BY Zenon, <2>2 DEF Logical, Changed
    <3> QED
      BY Zenon, <3>1, <3>2
  <2> QED
    BY Zenon, <2>1, <2>2
<1> QED
  BY Zenon, <1>1, <1>2, LogicalByPath

(* An edit is an edit of the logical files, whatever the journal says.      *)
LEMMA EditRefines ==
  ASSUME Inv, NEW f \in Path, NEW v \in Content, Edit(f, v)
  PROVE  Abstract!Next
<1>1. UNCHANGED <<journal, record>> /\ file' = [file EXCEPT ![f] = v]
  BY Zenon DEF Edit
<1>2. UNCHANGED Offer
  BY Zenon, <1>1 DEF Offer
<1>3. file'[f] = v /\ \A g \in Path \ {f} : file'[g] = file[g]
  BY Zenon, <1>1 DEF Inv, TypeOK
<1>4. \A g \in Path \ {f} : Logical(g)' = Logical(g)
  BY Zenon, <1>1, <1>3 DEF Logical, Changed
<1>5. PICK w \in Content : w = Logical(f)'
  BY ZenonT(30), <1>1, <1>3 DEF Logical, Inv, TypeOK, Entry
<1>6. LogicalFiles' = [LogicalFiles EXCEPT ![f] = w]
  BY ZenonT(30), <1>4, <1>5 DEF LogicalFiles, Logical
<1>7. Abstract!Edit(f, w)
  BY Zenon, <1>2, <1>6 DEF Abstract!Edit
<1> QED
  BY Zenon, <1>7 DEF Abstract!Next, Abstract!Content, Content

(* The journal that WritePrepared publishes is the offer.                   *)
LEMMA PrepareRefines ==
  ASSUME Inv, CalmInv, WritePrepared \/ PreparedUnsynced
  PROVE  Abstract!Next
<1>1. /\ pc = "prepare" /\ journal = "none" /\ journal' = "prepared" /\ record' = plan
      /\ UNCHANGED file /\ plan \in [Path -> Entry]
  BY ZenonT(30) DEF WritePrepared, PreparedUnsynced, Inv, Safe, DiskInv, TypeOK
<1>2. Offer = NoPlan /\ Offer' = plan
  BY Zenon, <1>1 DEF Offer
<1>3. \A f \in Changed(plan) : file[f] = plan[f].orig
  BY Zenon, <1>1 DEF CalmInv
<1>4. \A f \in Path : Logical(f) = file[f]
  BY Zenon, <1>1 DEF Logical
<1>5. \A f \in Path : Logical(f)' = file[f]
  BY ZenonT(30), <1>1, <1>3 DEF Logical, Changed
<1>6. UNCHANGED LogicalFiles
  BY Zenon, <1>4, <1>5, LogicalByPath
<1>7. \A f \in Changed(plan) : LogicalFiles[f] = plan[f].orig
  BY Zenon, <1>3, <1>4 DEF LogicalFiles, Logical, Changed
<1>8. Abstract!Prepare(plan)
  BY Zenon, <1>2, <1>6, <1>7 DEF Abstract!Prepare, Abstract!NoOffer, NoPlan, Abstract!Changes,
     Changed
<1> QED
  BY Zenon, <1>1, <1>8 DEF Abstract!Next, Abstract!Entry, Abstract!Content, Entry, Content

(* The commit point moves all paths at once.                                *)
LEMMA CommitRefines ==
  ASSUME Inv, CalmInv, WriteCommitted \/ CommittedUnsynced
  PROVE  Abstract!Next \/ UNCHANGED <<LogicalFiles, Offer>>
<1>1. /\ pc = "replace" /\ journal = "prepared" /\ record = plan /\ todo = {}
      /\ journal' = "committed" /\ UNCHANGED <<file, record>>
  BY ZenonT(30) DEF WriteCommitted, CommittedUnsynced, Inv, Safe, DiskInv
<1>2. Offer = record /\ Offer' = NoPlan
  BY Zenon, <1>1 DEF Offer
<1>3. \A f \in Changed(record) : file[f] = record[f].cand
  BY Zenon, <1>1 DEF CalmInv
<1>4. \A f \in Path : Logical(f) = IF f \in Changed(record) THEN record[f].orig ELSE file[f]
  BY Zenon, <1>1, <1>3 DEF Logical
<1>5. \A f \in Path : Logical(f)' = file[f]
  BY Zenon, <1>1 DEF Logical
<1>6. CASE record = NoPlan
  <2>1. \A f \in Path : f \notin Changed(record)
    BY Zenon, <1>6 DEF Changed, NoPlan
  <2> QED
    BY Zenon, <1>2, <1>4, <1>5, <1>6, <2>1, LogicalByPath
<1>7. CASE record # NoPlan
  <2>1. \A f \in Path : LogicalFiles[f] = Logical(f)
    BY Zenon DEF LogicalFiles, Logical
  <2>2. \A f \in Path : Logical(f)' = IF f \in Abstract!Changes(Offer) /\ LogicalFiles[f] = Offer[f].orig
                                      THEN Offer[f].cand ELSE LogicalFiles[f]
    BY ZenonT(30), <1>2, <1>3, <1>4, <1>5, <2>1 DEF Abstract!Changes, Changed
  <2>3. LogicalFiles' = [f \in Path |-> Logical(f)']
    BY Zenon DEF LogicalFiles, Logical
  <2>4. Abstract!Apply
    BY ZenonT(30), <1>2, <1>7, <2>2, <2>3 DEF Abstract!Apply, Abstract!NoOffer, NoPlan
  <2> QED
    BY Zenon, <2>4 DEF Abstract!Next
<1> QED
  BY Zenon, <1>6, <1>7

(* A journal removed after a rollback drops the offer.                      *)
LEMMA DropRefines ==
  ASSUME Inv, CalmInv, ~abandoned, RemoveJournal
  PROVE  Abstract!Next \/ UNCHANGED <<LogicalFiles, Offer>>
<1>1. /\ pc = "remove" /\ journal' = "none" /\ UNCHANGED <<file, record>>
  BY Zenon DEF RemoveJournal
<1>2. \A f \in Path : Logical(f) = file[f]
  BY ZenonT(30), <1>1 DEF CalmInv, Logical, Changed
<1>3. \A f \in Path : Logical(f)' = file[f]
  BY Zenon, <1>1 DEF Logical
<1>4. UNCHANGED LogicalFiles
  BY Zenon, <1>2, <1>3, LogicalByPath
<1>5. Offer' = NoPlan
  BY Zenon, <1>1 DEF Offer
<1>6. CASE Offer = NoPlan
  BY Zenon, <1>4, <1>5, <1>6
<1>7. CASE Offer # NoPlan
  BY Zenon, <1>4, <1>5, <1>7 DEF Abstract!Next, Abstract!Drop, Abstract!NoOffer, NoPlan
<1> QED
  BY Zenon, <1>6, <1>7

(* Power loss undoes restorations only under a prepared journal.            *)
LEMMA LossRefines ==
  ASSUME Inv, CalmInv, ~abandoned, NEW S \in SUBSET Path, PowerLoss(S)
  PROVE  UNCHANGED <<LogicalFiles, Offer>>
<1>1. /\ \A f \in S : unsynced[f] # Missing
      /\ file' = [f \in Path |-> IF f \in S THEN unsynced[f] ELSE file[f]]
      /\ UNCHANGED <<journal, record>>
  BY Zenon DEF PowerLoss
<1>2. \A f \in Path : file'[f] = IF f \in S THEN unsynced[f] ELSE file[f]
  BY Zenon, <1>1
<1>3. CASE journal = "prepared"
  <2>1. \A f \in Path : \/ file'[f] = file[f]
                        \/ f \in Changed(record) /\ {file[f], file'[f]} \subseteq {record[f].orig, record[f].cand}
    BY ZenonT(30), <1>1, <1>2 DEF CalmInv
  <2> QED
    BY Zenon, <1>1, <1>3, <2>1, Swapped
<1>4. CASE journal # "prepared"
  <2>1. \A f \in Path : unsynced[f] = Missing
    BY ZenonT(30), <1>4 DEF Inv, Safe, SyncInv, TypeOK
  <2>2. file' = file
    BY ZenonT(30), <1>1, <2>1 DEF Inv, TypeOK
  <2> QED
    BY Zenon, <1>1, <2>2, Unseen
<1> QED
  BY Zenon, <1>3, <1>4

(* Every step is a step of the atomic update, or is not seen. *)
LEMMA StepRefines ==
  ASSUME Inv, CalmInv, ~abandoned, [Next]_vars
  PROVE  Abstract!Next \/ UNCHANGED <<LogicalFiles, Offer>>
<1> USE DEF disk, memory, history
<1>1. CASE Looking \/ Undoing \/ SyncRestored
  BY ZenonT(30), <1>1, Unseen DEF Looking, Begin, RecoverNothing, RecoverUnjournaled,
     RecoverPrepared, RecoverCommitted, Undoing, CheckFile, RestoreRaced, RestoreFault, SyncFault,
     SyncRestored
<1>2. CASE RemoveDirectory \/ RemoveFault
  BY ZenonT(30), <1>2, Unseen DEF RemoveDirectory, RemoveFault
<1>3. CASE Track \/ ResolveFails \/ VerifyOnly \/ CommitVerify \/ CreateFault
  BY ZenonT(30), <1>3, Unseen DEF Track, ResolveFails, VerifyOnly, CommitVerify, CreateFault
<1>4. ASSUME NEW c \in [Path -> Content], Resolve(c) PROVE UNCHANGED <<LogicalFiles, Offer>>
  BY ZenonT(30), <1>4, Unseen DEF Resolve
<1>5. CASE Load
  <2>1. UNCHANGED <<file, journal>> /\ journal = "none"
    BY ZenonT(30), <1>5 DEF Load, Inv, Safe, DiskInv
  <2>2. \A f \in Path : Logical(f)' = Logical(f)
    BY Zenon, <2>1 DEF Logical
  <2>3. UNCHANGED Offer
    BY Zenon, <2>1 DEF Offer
  <2> QED
    BY Zenon, <2>2, <2>3, LogicalByPath
<1>6. CASE StageFault \/ VerifyAgain
  BY ZenonT(30), <1>6, Unseen DEF StageFault, VerifyAgain
<1>7. CASE Kill
  BY ZenonT(30), <1>7, Unseen DEF Kill
<1>8. ASSUME NEW f \in Path, RemoveBackup(f) \/ StageFile(f) \/ ReplaceRaced(f)
      PROVE  UNCHANGED <<LogicalFiles, Offer>>
  BY ZenonT(30), <1>8, Unseen DEF RemoveBackup, StageFile, ReplaceRaced
<1>9. ASSUME NEW f \in Path, RestoreFile(f) PROVE UNCHANGED <<LogicalFiles, Offer>>
  <2>1. /\ f \in Changed(record) /\ file[f] = record[f].cand /\ journal = "prepared"
        /\ UNCHANGED <<journal, record>>
    BY ZenonT(30), <1>9 DEF RestoreFile, Last, CalmInv, Inv, Safe, DiskInv, RollbackInv, RollingBack
  <2>2. file'[f] = record[f].orig /\ \A g \in Path \ {f} : file'[g] = file[g]
    BY ZenonT(30), <1>9 DEF RestoreFile, Inv, TypeOK
  <2> QED
    BY ZenonT(30), <2>1, <2>2, Swapped
<1>10. ASSUME NEW f \in Path, pc = "replace", First(f, todo), UNCHANGED <<journal, record>>,
              file' = [file EXCEPT ![f] = plan[f].cand]
       PROVE  UNCHANGED <<LogicalFiles, Offer>>
  <2>1. f \in Changed(record) /\ file[f] = record[f].orig /\ journal = "prepared" /\ record = plan
    BY ZenonT(30), <1>10 DEF First, CalmInv, Inv, Safe, DiskInv, CommitInv
  <2>2. file'[f] = plan[f].cand /\ \A g \in Path \ {f} : file'[g] = file[g]
    BY ZenonT(30), <1>10 DEF Inv, TypeOK
  <2> QED
    BY ZenonT(30), <1>10, <2>1, <2>2, Swapped
<1>11. ASSUME NEW f \in Path, ReplaceFile(f) PROVE UNCHANGED <<LogicalFiles, Offer>>
  BY ZenonT(30), <1>10, <1>11 DEF ReplaceFile
<1>12. CASE ReplaceFault
  BY ZenonT(30), <1>10, <1>12, Unseen DEF ReplaceFault
<1>13. CASE UNCHANGED vars
  BY ZenonT(30), <1>13, Unseen DEF vars
<1> QED
  BY ZenonT(30), NextCases, <1>1, <1>2, <1>3, <1>4, <1>5, <1>6, <1>7, <1>8, <1>9, <1>11, <1>12,
     <1>13, EditRefines, PrepareRefines, CommitRefines, DropRefines, LossRefines
  DEF Preparing, Staging, Discarding, Stopping

(* The transaction of cli/update/transaction.go implements the atomic       *)
(* update, for any number of crashes, power losses and failing calls, as    *)
(* long as nobody edits inside the window and no rollback inside Commit     *)
(* itself fails.                                                            *)
THEOREM UpdateIsAtomic ==
  ASSUME CalmEditor PROVE Spec /\ []~abandoned => ImplementsAtomicUpdate
<1>1. Init => Abstract!Init
  <2> SUFFICES ASSUME Init PROVE Abstract!Init
    OBVIOUS
  <2>1. LogicalFiles = [f \in Path |-> file[f]] /\ Offer = NoPlan
    BY ZenonT(30) DEF Init, LogicalFiles, Offer
  <2> QED
    BY ZenonT(30), <2>1 DEF Init, Abstract!Init, Abstract!Content, Content, Abstract!NoOffer, NoPlan
<1>2. Inv /\ CalmInv /\ ~abandoned /\ [Next]_vars => [Abstract!Next]_<<LogicalFiles, Offer>>
  BY StepRefines
<1> QED
  BY <1>1, <1>2, CalmInvariance, PTL DEF Spec, ImplementsAtomicUpdate, Abstract!Spec

(* With at most one failing call, no rollback inside Commit fails: the call *)
(* that fails is the one that starts it.                                    *)
Sure ==
  /\ ~abandoned
  /\ pc \in {"idle", "recover", "load", "track"} => ~Committing
  /\ RollingBack /\ Committing =>
       /\ ~(faults < MaxFaults)
       /\ \A f \in todo : /\ file[f] \in {record[f].orig, record[f].cand}
                          /\ record[f].orig # Absent => backup[f] = record[f].orig

(* A path that is in the loop is restored or can be. *)
LEMMA SureOfPath ==
  ASSUME Sure, RollingBack, Committing, NEW f \in todo
  PROVE  Restored(f) \/ Restorable(f)
  BY Zenon DEF Sure, Restored, Restorable

LEMMA SureStep ==
  ASSUME CalmEditor, MaxFaults <= 1
  PROVE  Inv /\ CalmInv /\ Sure /\ [Next]_vars => Sure'
<1> SUFFICES ASSUME Inv, CalmInv, Sure, [Next]_vars PROVE Sure'
  OBVIOUS
<1>0. Forget => ~Committing' /\ pc' = "idle"
  BY SMTT(30) DEF Forget, Committing, Changed, NoPlan
<1>a. plan' = plan => (Committing' <=> Committing)
  BY Zenon DEF Committing, Changed
<1> USE DEF Goto, disk, memory, history, counters, RollingBack
<1>1. CASE Looking
  <2>1. ~Committing /\ ~Committing' /\ abandoned' = abandoned
    BY ZenonT(30), <1>0, <1>a, <1>1 DEF Sure, Looking, Begin, RecoverNothing, RecoverUnjournaled,
       RecoverPrepared, RecoverCommitted
  <2> QED
    BY Zenon, <2>1 DEF Sure
<1>2. CASE Undoing
  <2>1. CASE Committing
    <3>1. ASSUME NEW f \in Path, CheckFile(f) PROVE Sure'
      <4>1. f \in todo
        BY Zenon, <3>1 DEF CheckFile, Last
      <4>2. Restored(f) \/ Restorable(f)
        BY Zenon, <2>1, <3>1, <4>1, SureOfPath DEF CheckFile
      <4>3. /\ pc' \in {"check", "restore"} /\ todo' \subseteq todo
            /\ UNCHANGED <<plan, record, file, backup, abandoned, faults>>
        BY ZenonT(30), <3>1, <4>2 DEF CheckFile
      <4> QED
        BY ZenonT(30), <1>a, <2>1, <3>1, <4>3 DEF Sure, CheckFile
    <3>2. ASSUME NEW f \in Path, RestoreRaced(f) PROVE FALSE
      BY ZenonT(30), <3>2 DEF RestoreRaced, Last, Changed, CalmInv, Inv, Safe, RollbackInv
    <3> QED
      BY ZenonT(30), <1>2, <2>1, <3>1, <3>2 DEF Sure, Undoing, RestoreFault, SyncFault, Fault
  <2>2. CASE ~Committing
    <3>1. abandoned' = abandoned /\ ~Committing'
      BY ZenonT(30), <1>0, <1>a, <1>2, <2>2 DEF Undoing, CheckFile, RestoreRaced, RestoreFault,
         SyncFault, Refuse
    <3> QED
      BY ZenonT(30), <3>1 DEF Sure
  <2> QED
    BY Zenon, <2>1, <2>2
<1>3. CASE Discarding
  <2>1. /\ abandoned' = abandoned /\ pc' \notin {"check", "restore"}
        /\ pc' = "remove" \/ ~Committing'
    BY ZenonT(30), <1>0, <1>a, <1>3 DEF Discarding, RemoveJournal, RemoveDirectory, RemoveFault
  <2> QED
    BY Zenon, <2>1 DEF Sure
<1>4. CASE Preparing
  <2>1. ~abandoned'
    BY ZenonT(30), <1>4 DEF Sure, Preparing, Load, Track, ResolveFails, VerifyOnly, CommitVerify,
       CreateFault, Resolve
  <2>2. pc' \in {"resolve", "verify", "stage"} \/ ~Committing'
    BY ZenonT(30), <1>0, <1>a, <1>4 DEF Sure, Preparing, Load, Track, ResolveFails, VerifyOnly,
       CommitVerify, CreateFault, Resolve
  <2> QED
    BY Zenon, <2>1, <2>2 DEF Sure
<1>5. CASE Staging
  <2>1. abandoned' = abandoned /\ pc' \in {"remove", "prepare", "replace"}
    BY ZenonT(30), <1>5 DEF Staging, StageFault, VerifyAgain, WritePrepared, PreparedUnsynced
  <2> QED
    BY Zenon, <2>1 DEF Sure
<1>6. CASE Stopping
  <2>1. ASSUME NEW f \in Path, ReplaceRaced(f) PROVE FALSE
    <3>1. f \in Changed(plan) /\ file[f] = plan[f].orig /\ file[f] = plan[f].cand
      BY ZenonT(30), <2>1 DEF ReplaceRaced, Replaceable, First, CalmInv, Inv, Safe, CommitInv
    <3> QED
      BY Zenon, <3>1 DEF Changed
  <2>2. abandoned' = abandoned /\ (pc' = "remove" \/ ~Committing')
    BY ZenonT(30), <1>0, <1>6, <2>1 DEF Stopping, WriteCommitted, CommittedUnsynced, Kill
  <2> QED
    BY Zenon, <2>2 DEF Sure
<1>7. CASE SyncRestored
  BY ZenonT(30), <1>7 DEF Sure, SyncRestored
<1>8. CASE ReplaceFault
  <2>1. /\ pc = "replace" /\ pc' = "check" /\ todo' = Changed(plan) /\ record = plan
        /\ UNCHANGED <<plan, record, backup, abandoned>> /\ faults < MaxFaults /\ faults' = faults + 1
    BY ZenonT(30), <1>8 DEF ReplaceFault, Fault, Inv, Safe, DiskInv
  <2>2. ~(faults' < MaxFaults)
    BY SMTT(30), <2>1, BoundAssumption DEF Inv, TypeOK
  <2>3. \A f \in Changed(plan) : file[f] \in {plan[f].orig, plan[f].cand}
    BY ZenonT(30), <2>1 DEF CalmInv
  <2>4. \A f \in Changed(plan) : file'[f] \in {plan[f].orig, plan[f].cand}
    <3>1. CASE UNCHANGED file
      BY Zenon, <2>3, <3>1
    <3>2. ASSUME NEW g \in Path, file' = [file EXCEPT ![g] = plan[g].cand]
          PROVE  \A f \in Changed(plan) : file'[f] \in {plan[f].orig, plan[f].cand}
      BY ZenonT(30), <2>3, <3>2 DEF Inv, TypeOK, Changed
    <3> QED
      BY ZenonT(30), <1>8, <3>1, <3>2 DEF ReplaceFault
  <2>5. \A f \in Changed(plan) : plan[f].orig # Absent => backup[f] = plan[f].orig
    BY ZenonT(30), <2>1 DEF Inv, Safe, CommitInv
  <2> QED
    BY ZenonT(30), <2>1, <2>2, <2>4, <2>5 DEF Sure
<1>9. ASSUME NEW f \in Path, RestoreFile(f) PROVE Sure'
  <2>1. \A g \in todo' : g # f /\ g \in todo
    BY Zenon, <1>9 DEF RestoreFile
  <2>2. \A g \in Path \ {f} : file'[g] = file[g] /\ backup'[g] = backup[g]
    BY ZenonT(30), <1>9 DEF RestoreFile, Inv, TypeOK
  <2>3. todo \subseteq Path /\ pc = "restore" /\ pc' = "check" /\ UNCHANGED <<plan, record, abandoned, faults>>
    BY ZenonT(30), <1>9 DEF RestoreFile, Inv, TypeOK
  <2> QED
    BY ZenonT(30), <1>a, <2>1, <2>2, <2>3 DEF Sure
<1>10. ASSUME NEW f \in Path, RemoveBackup(f) PROVE Sure'
  BY ZenonT(30), <1>10 DEF Sure, RemoveBackup
<1>11. ASSUME NEW f \in Path, StageFile(f) PROVE Sure'
  BY ZenonT(30), <1>11 DEF Sure, StageFile
<1>12. ASSUME NEW f \in Path, ReplaceFile(f) PROVE Sure'
  BY ZenonT(30), <1>12 DEF Sure, ReplaceFile
<1>13. ASSUME NEW f \in Path, NEW v \in Content, Edit(f, v) PROVE Sure'
  <2>1. pc \notin {"check", "restore"}
    BY ZenonT(30), <1>13 DEF Edit, CalmEditor
  <2> QED
    BY ZenonT(30), <1>a, <1>13, <2>1 DEF Sure, Edit
<1>14. ASSUME NEW S \in SUBSET Path, PowerLoss(S) PROVE Sure'
  BY ZenonT(30), <1>0, <1>14 DEF Sure, PowerLoss, Forget
<1>15. CASE UNCHANGED vars
  BY ZenonT(30), <1>a, <1>15 DEF Sure, vars
<1> QED
  BY ZenonT(30), NextCases, <1>1, <1>2, <1>3, <1>4, <1>5, <1>6, <1>7, <1>8, <1>9, <1>10, <1>11,
     <1>12, <1>13, <1>14, <1>15

(* With at most one failing call, the transaction implements the atomic     *)
(* update without any further condition, for any number of crashes and      *)
(* power losses, as long as nobody edits inside the window.                 *)
THEOREM UpdateIsAtomicUnderOneFault ==
  ASSUME CalmEditor, MaxFaults <= 1 PROVE Spec => ImplementsAtomicUpdate
<1>1. Init => Sure
  <2>1. Init => ~Committing
    BY SMTT(30) DEF Init, Committing, Changed, NoPlan
  <2> QED
    BY Zenon, <2>1 DEF Init, Sure
<1>2. Sure => ~abandoned
  BY DEF Sure
<1>3. Spec => []~abandoned
  BY <1>1, <1>2, SureStep, CalmInvariance, PTL DEF Spec
<1> QED
  BY <1>3, UpdateIsAtomic, PTL
=============================================================================
