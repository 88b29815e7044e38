----------------------------- MODULE Hermes_proofs -----------------------------
(***************************************************************************)
(* Proofs about what the Hermes agents keep and do: the generations of     *)
(* their backups, the mail they send, the order ledger, the workbench and  *)
(* the checkout of their source; for all values of their constants.        *)
(***************************************************************************)
EXTENDS MCHermes, FiniteSetTheorems, WellFoundedInduction, TLAPS

(***************************************************************************)
(* Backups, for every set of checkpoints, holds and processes, all values  *)
(* of --retain and any number of captures.                                 *)
(***************************************************************************)
Places == {"idle", "capture", "receipt", "plan", "remove", "removeReceipt",
           "link", "unlink", "legacy"}

Jobs == [checkpoint : Checkpoints \cup {None}, holdId : HoldIds \cup {None},
         victims : SUBSET Checkpoints]

\* What the files are, apart from the processes.
FilesOK ==
  /\ archive \in [Checkpoints -> Captures]
  /\ receipt \in [Checkpoints -> Captures]
  /\ hold \in [HoldIds -> HoldFiles \cup {NoHold}]
  /\ legacy \subseteq Legacies
  /\ captures \in Captures
  /\ proven \in BOOLEAN

\* A job fits the place its process is in.
Fits(l, j) ==
  /\ l \in {"capture", "receipt", "removeReceipt", "link", "unlink"} => j.checkpoint \in Checkpoints
  /\ l \in {"link", "unlink"} => j.holdId \in HoldIds

LEMMA RecordFacts ==
  /\ 0 \in Captures /\ Captures \subseteq Nat
  /\ NoJob \in Jobs
  /\ NoHold \notin HoldFiles
BY BackupAssumption DEF Captures, NoJob, NoHold, HoldFiles, Jobs

LEMMA TypeParts ==
  TypeOK <=>
    /\ FilesOK
    /\ lock \in Processes \cup {None}
    /\ pc \in [Processes -> Places] /\ job \in [Processes -> Jobs]
    /\ \A p \in Processes : (pc[p] # "idle" => lock = p) /\ Fits(pc[p], job[p])
BY DEF TypeOK, FilesOK, Places, Jobs, Fits

LEMMA NextTypeParts ==
  ASSUME FilesOK', lock' \in Processes \cup {None},
         pc' \in [Processes -> Places], job' \in [Processes -> Jobs],
         \A p \in Processes : (pc'[p] # "idle" => lock' = p) /\ Fits(pc'[p], job'[p])
  PROVE  TypeOK'
BY DEF TypeOK, FilesOK, Places, Jobs, Fits

LEMMA InitTypeOK == Init => TypeOK
<1> SUFFICES ASSUME Init PROVE TypeOK OBVIOUS
<1>1. FilesOK BY RecordFacts DEF Init, FilesOK
<1>2. lock = None /\ pc = [p \in Processes |-> "idle"] /\ job = [p \in Processes |-> NoJob]
  BY DEF Init
<1> QED BY <1>1, <1>2, RecordFacts, TypeParts DEF Places, Fits

\* The lock's holder is the only process with work under way.
LEMMA OnlyHolder ==
  ASSUME TypeOK, NEW p \in Processes, NEW q \in Processes, pc[p] # "idle", pc[q] # "idle"
  PROVE  p = q
BY TypeParts
------------------------------------------------------------------------------
(* What a process in the middle of a command knows, and keeps to itself by *)
(* the lock: the checkpoint to back up has no receipt, the generation to   *)
(* hold is complete, and no hold that is published names a victim.         *)

HoldsWhole == \A i \in HoldIds : hold[i] # NoHold => hold[i].links = 1

Knows(p) ==
  /\ pc[p] = "capture" => receipt[job[p].checkpoint] = 0
  /\ pc[p] = "link" => Completed(job[p].checkpoint)
  /\ pc[p] = "unlink" => hold[job[p].holdId] # NoHold
  /\ pc[p] \in {"remove", "removeReceipt"} => job[p].victims \cap Held = {} /\ HoldsWhole
  /\ pc[p] = "removeReceipt" => job[p].checkpoint \in job[p].victims

CommandInv == \A p \in Processes : Knows(p)

\* The inductive invariant.
BackupInv == TypeOK /\ ReceiptDescribesArchive /\ HeldGenerationsSurvive /\ CommandInv
------------------------------------------------------------------------------
(* Type correctness.                                                       *)

\* A process that holds the lock, or takes it, goes on with a job that fits.
LEMMA MoveTypeOK ==
  ASSUME TypeOK, FilesOK', NEW p \in Processes, NEW l \in Places, NEW j \in Jobs, Fits(l, j),
         pc' = [pc EXCEPT ![p] = l], job' = [job EXCEPT ![p] = j],
         pc[p] # "idle" \/ lock = None, lock' = p
  PROVE  TypeOK'
<1>1. \A q \in Processes : q # p => pc[q] = "idle" BY TypeParts, BackupAssumption
<1>2. pc' \in [Processes -> Places] /\ job' \in [Processes -> Jobs] BY TypeParts
<1>3. ASSUME NEW q \in Processes PROVE (pc'[q] # "idle" => lock' = q) /\ Fits(pc'[q], job'[q])
  <2>1. CASE q = p BY <2>1, TypeParts
  <2>2. CASE q # p
    <3>1. pc'[q] = pc[q] /\ job'[q] = job[q] BY <2>2, TypeParts
    <3> QED BY <3>1, <1>1, <2>2 DEF Fits
  <2> QED BY <2>1, <2>2
<1> QED BY <1>2, <1>3, NextTypeParts

LEMMA FinishTypeOK ==
  ASSUME TypeOK, FilesOK', NEW p \in Processes, pc[p] # "idle", Finish(p)
  PROVE  TypeOK'
<1>1. lock = p BY TypeParts
<1>2. \A q \in Processes : q # p => pc[q] = "idle" BY OnlyHolder
<1>3. /\ pc' = [pc EXCEPT ![p] = "idle"] /\ job' = [job EXCEPT ![p] = NoJob] /\ lock' = None
  BY <1>1 DEF Finish, Go
<1>4. pc' \in [Processes -> Places] /\ job' \in [Processes -> Jobs]
  BY <1>3, RecordFacts, TypeParts DEF Places
<1>5. \A q \in Processes : pc'[q] = "idle" BY <1>2, <1>3, TypeParts
<1> QED BY <1>3, <1>4, <1>5, NextTypeParts DEF Fits

\* A process that goes on within its command.
LEMMA GoTypeOK ==
  ASSUME TypeOK, FilesOK', NEW p \in Processes, pc[p] # "idle", NEW l \in Places, Fits(l, job[p]),
         Go(p, l), UNCHANGED <<job, lock>>
  PROVE  TypeOK'
<1>1. lock = p /\ job[p] \in Jobs /\ job' = [job EXCEPT ![p] = job[p]] BY TypeParts
<1> QED BY <1>1, MoveTypeOK DEF Go

LEMMA BackupTypeOK ==
  ASSUME TypeOK, NEW p \in Processes, Backup(p)
  PROVE  TypeOK'
<1>1. ASSUME NEW c \in Checkpoints, BeginBackup(p, c) PROVE TypeOK'
  <2> DEFINE j == [job[p] EXCEPT !.checkpoint = c]
  <2>1. job[p] \in Jobs /\ FilesOK BY TypeParts
  <2>2. j \in Jobs /\ Fits("capture", j) BY <2>1 DEF Jobs, Fits
  <2>3. FilesOK' BY <1>1, <2>1 DEF BeginBackup, files, FilesOK
  <2>4. job' = [job EXCEPT ![p] = j] BY <1>1 DEF BeginBackup
  <2> HIDE DEF j
  <2> QED BY <1>1, <2>2, <2>3, <2>4, MoveTypeOK DEF BeginBackup, Lock, Go, Places
<1>2. CASE PublishArchive(p)
  <2>1. captures' \in Captures BY <1>2, TypeParts, BackupAssumption DEF PublishArchive, Captures, FilesOK
  <2>2. FilesOK' BY <1>2, <2>1, TypeParts DEF PublishArchive, FilesOK
  <2>3. Fits("receipt", job[p]) BY <1>2, TypeParts DEF PublishArchive, Fits
  <2> QED BY <1>2, <2>2, <2>3, GoTypeOK DEF PublishArchive, Places
<1>3. CASE PublishReceipt(p)
  <2>1. job[p].checkpoint \in Checkpoints BY <1>3, TypeParts DEF PublishReceipt, Fits
  <2>2. FilesOK' BY <1>3, <2>1, TypeParts DEF PublishReceipt, FilesOK
  <2> QED BY <1>3, <2>2, GoTypeOK, FinishTypeOK DEF PublishReceipt, Places, Fits
<1> QED BY <1>1, <1>2, <1>3 DEF Backup

LEMMA PruneTypeOK ==
  ASSUME TypeOK, NEW p \in Processes, Prune(p)
  PROVE  TypeOK'
<1>0. job[p] \in Jobs /\ FilesOK /\ (UNCHANGED files => FilesOK') BY TypeParts DEF files, FilesOK
<1>1. CASE BeginPrune(p)
  <2>1. job' = [job EXCEPT ![p] = job[p]] BY <1>1, TypeParts DEF BeginPrune
  <2> QED BY <1>0, <1>1, <2>1, MoveTypeOK DEF BeginPrune, Lock, Go, Places, Fits
<1>2. CASE FinishPrune(p) BY <1>0, <1>2, FinishTypeOK DEF FinishPrune
<1>3. CASE RemoveReceipt(p)
  <2> DEFINE c == job[p].checkpoint
             j == [job[p] EXCEPT !.victims = @ \ {c}]
  <2>1. c \in Checkpoints BY <1>3, TypeParts DEF RemoveReceipt, Fits
  <2>2. j \in Jobs /\ Fits("remove", j) BY <1>0 DEF Jobs, Fits
  <2>3. FilesOK' BY <1>0, <1>3, <2>1, RecordFacts DEF RemoveReceipt, FilesOK
  <2>4. job' = [job EXCEPT ![p] = j] BY <1>3 DEF RemoveReceipt
  <2>5. lock = p BY <1>3, TypeParts DEF RemoveReceipt
  <2> HIDE DEF j
  <2> QED BY <1>3, <2>2, <2>3, <2>4, <2>5, MoveTypeOK DEF RemoveReceipt, Go, Places
<1>4. ASSUME NEW n \in Retains, PlanRemoval(p, n) PROVE TypeOK'
  <2> DEFINE j == [job[p] EXCEPT !.victims = Victims(p, n)]
  <2>1. Victims(p, n) \subseteq Checkpoints BY DEF Victims, Archives
  <2>2. j \in Jobs /\ Fits("remove", j) BY <1>0, <2>1 DEF Jobs, Fits
  <2>3. job' = [job EXCEPT ![p] = j] BY <1>4 DEF PlanRemoval
  <2>4. lock = p BY <1>4, TypeParts DEF PlanRemoval
  <2> HIDE DEF j
  <2> QED BY <1>0, <1>4, <2>2, <2>3, <2>4, MoveTypeOK DEF PlanRemoval, Go, Places
<1>5. ASSUME NEW c \in Checkpoints, RemoveArchive(p, c) PROVE TypeOK'
  <2> DEFINE j == [job[p] EXCEPT !.checkpoint = c]
  <2>1. j \in Jobs /\ Fits("removeReceipt", j) BY <1>0 DEF Jobs, Fits
  <2>2. FilesOK' BY <1>0, <1>5, RecordFacts DEF RemoveArchive, FilesOK
  <2>3. job' = [job EXCEPT ![p] = j] BY <1>5 DEF RemoveArchive
  <2>4. lock = p BY <1>5, TypeParts DEF RemoveArchive
  <2> HIDE DEF j
  <2> QED BY <1>5, <2>1, <2>2, <2>3, <2>4, MoveTypeOK DEF RemoveArchive, Go, Places
<1> QED BY <1>1, <1>2, <1>3, <1>4, <1>5 DEF Prune

LEMMA RetainTypeOK ==
  ASSUME TypeOK, CommandInv, NEW p \in Processes, Retain(p)
  PROVE  TypeOK'
<1>0. job[p] \in Jobs /\ FilesOK /\ (UNCHANGED files => FilesOK') BY TypeParts DEF files, FilesOK
<1>1. ASSUME NEW i \in HoldIds, NEW c \in Checkpoints, BeginHold(p, i, c) PROVE TypeOK'
  <2> DEFINE j == [job[p] EXCEPT !.checkpoint = c, !.holdId = i]
  <2>1. j \in Jobs /\ Fits("link", j) BY <1>0 DEF Jobs, Fits
  <2>2. job' = [job EXCEPT ![p] = j] BY <1>0, <1>1, TypeParts DEF BeginHold, Jobs
  <2> HIDE DEF j
  <2> QED BY <1>0, <1>1, <2>1, <2>2, MoveTypeOK DEF BeginHold, Lock, Go, Places
<1>2. CASE LinkHold(p)
  <2> DEFINE i == job[p].holdId
             c == job[p].checkpoint
  <2>1. i \in HoldIds /\ c \in Checkpoints /\ Fits("unlink", job[p]) BY <1>2, TypeParts DEF LinkHold, Fits
  <2>2. [links |-> 2, checkpoint |-> c, capture |-> receipt[c]] \in HoldFiles
    <3>1. archive[c] # 0 /\ receipt[c] = archive[c] BY <1>2 DEF LinkHold, CommandInv, Knows, Completed
    <3>2. receipt[c] \in 1 .. MaxCaptures BY <1>0, <2>1, <3>1, BackupAssumption DEF FilesOK, Captures
    <3> QED BY <2>1, <3>2 DEF HoldFiles
  <2>3. FilesOK' BY <1>0, <1>2, <2>1, <2>2 DEF LinkHold, FilesOK
  <2> QED BY <1>2, <2>1, <2>3, GoTypeOK DEF LinkHold, Places
<1>3. CASE UnlinkTemporary(p)
  <2> DEFINE i == job[p].holdId
  <2>1. i \in HoldIds /\ hold[i] # NoHold BY <1>3, TypeParts DEF UnlinkTemporary, Fits, CommandInv, Knows
  <2>2. hold[i] \in HoldFiles BY <1>0, <2>1 DEF FilesOK
  <2>3. [hold[i] EXCEPT !.links = 1] \in HoldFiles BY <2>2 DEF HoldFiles
  <2>4. hold' = [hold EXCEPT ![i] = [hold[i] EXCEPT !.links = 1]]
    BY <1>0, <1>3, <2>1 DEF UnlinkTemporary, FilesOK
  <2>5. FilesOK' BY <1>0, <1>3, <2>1, <2>3, <2>4 DEF UnlinkTemporary, FilesOK
  <2> QED BY <1>3, <2>5, FinishTypeOK DEF UnlinkTemporary
<1>4. ASSUME NEW i \in HoldIds, ReleaseHold(p, i) PROVE TypeOK'
  BY <1>0, <1>4, TypeParts, NextTypeParts DEF ReleaseHold, FilesOK
<1> QED BY <1>1, <1>2, <1>3, <1>4 DEF Retain

LEMMA CleanupTypeOK ==
  ASSUME TypeOK, NEW p \in Processes, CleanupLegacy(p)
  PROVE  TypeOK'
<1>0. job[p] \in Jobs /\ FilesOK /\ (UNCHANGED files => FilesOK') BY TypeParts DEF files, FilesOK
<1>1. CASE BeginLegacyCleanup(p)
  <2>1. job' = [job EXCEPT ![p] = job[p]] BY <1>1, TypeParts DEF BeginLegacyCleanup
  <2> QED BY <1>0, <1>1, <2>1, MoveTypeOK DEF BeginLegacyCleanup, Lock, Go, Places, Fits
<1>2. CASE FinishLegacyCleanup(p) BY <1>0, <1>2, FinishTypeOK DEF FinishLegacyCleanup
<1>3. ASSUME NEW l \in Legacies, RemoveLegacy(p, l) PROVE TypeOK'
  <2>1. FilesOK' BY <1>0, <1>3 DEF RemoveLegacy, FilesOK
  <2> QED BY <1>3, <2>1, TypeParts, NextTypeParts DEF RemoveLegacy
<1> QED BY <1>1, <1>2, <1>3 DEF CleanupLegacy

LEMMA NextTypeOK ==
  ASSUME TypeOK, CommandInv, [Next]_vars
  PROVE  TypeOK'
<1>1. CASE UNCHANGED vars BY <1>1, TypeParts, NextTypeParts DEF vars, files, FilesOK
<1>2. ASSUME NEW p \in Processes, Stop(p) PROVE TypeOK'
  <2>1. FilesOK' BY <1>2, TypeParts DEF Stop, files, FilesOK
  <2> QED BY <1>2, <2>1, FinishTypeOK DEF Stop
<1> QED BY <1>1, <1>2, BackupTypeOK, PruneTypeOK, RetainTypeOK, CleanupTypeOK DEF Next
------------------------------------------------------------------------------
(* The generations, their receipts and their holds.                        *)

Generations == ReceiptDescribesArchive /\ HeldGenerationsSurvive

LEMMA HoldFacts ==
  ASSUME TypeOK, NEW i \in HoldIds, hold[i] # NoHold
  PROVE  /\ hold[i] \in HoldFiles /\ hold[i].checkpoint \in Checkpoints
         /\ hold[i].capture \in 1 .. MaxCaptures /\ hold[i].capture # 0
<1>1. hold[i] \in HoldFiles BY DEF TypeOK
<1> QED BY <1>1, BackupAssumption DEF HoldFiles

\* While one process acts, no other is inside the lock and has to know anything.
LEMMA OthersIdle ==
  ASSUME TypeOK, NEW p \in Processes, pc[p] # "idle" \/ lock = None,
         NEW l, pc' = [pc EXCEPT ![p] = l], Knows(p)'
  PROVE  CommandInv'
<1>1. \A q \in Processes : q # p => pc'[q] = "idle" BY TypeParts, BackupAssumption
<1> QED BY <1>1 DEF CommandInv, Knows

LEMMA FinishKnows ==
  ASSUME TypeOK, NEW p \in Processes, pc[p] # "idle", Finish(p)
  PROVE  CommandInv'
<1>1. pc' = [pc EXCEPT ![p] = "idle"] BY DEF Finish, Go
<1>2. pc'[p] = "idle" BY <1>1, TypeParts
<1>3. Knows(p)' BY <1>2 DEF Knows
<1> QED BY <1>1, <1>3, OthersIdle

LEMMA BackupKeeps ==
  ASSUME BackupInv, NEW p \in Processes, Backup(p)
  PROVE  Generations' /\ CommandInv'
<1>0. TypeOK /\ pc \in [Processes -> Places] /\ job \in [Processes -> Jobs] /\ FilesOK
  BY TypeParts DEF BackupInv
<1>1. ASSUME NEW c \in Checkpoints, BeginBackup(p, c) PROVE Generations' /\ CommandInv'
  <2>1. Generations' BY <1>1 DEF BeginBackup, files, BackupInv, Generations,
          ReceiptDescribesArchive, HeldGenerationsSurvive
  <2>2. pc'[p] = "capture" /\ job'[p].checkpoint = c
    BY <1>0, <1>1 DEF BeginBackup, Go, Jobs
  <2>3. Knows(p)' BY <1>1, <2>2 DEF BeginBackup, files, Knows
  <2> QED BY <1>0, <1>1, <2>1, <2>3, OthersIdle DEF BeginBackup, Lock, Go
<1>2. CASE PublishArchive(p)
  <2> DEFINE c == job[p].checkpoint
  <2>1. c \in Checkpoints /\ archive[c] = 0 /\ receipt[c] = 0
    BY <1>2, TypeParts DEF BackupInv, PublishArchive, Fits, CommandInv, Knows
  <2>2. \A i \in HoldIds : hold[i] # NoHold => hold[i].checkpoint # c
    BY <1>0, <2>1, HoldFacts DEF BackupInv, HeldGenerationsSurvive
  <2>3. Generations' BY <1>0, <1>2, <2>1, <2>2 DEF PublishArchive, FilesOK, BackupInv,
          Generations, ReceiptDescribesArchive, HeldGenerationsSurvive
  <2>4. pc'[p] = "receipt" BY <1>0, <1>2 DEF PublishArchive, Go
  <2>5. Knows(p)' BY <2>4 DEF Knows
  <2> QED BY <1>0, <1>2, <2>3, <2>5, OthersIdle DEF PublishArchive, Go
<1>3. CASE PublishReceipt(p)
  <2>1. job[p].checkpoint \in Checkpoints BY <1>3, TypeParts DEF BackupInv, PublishReceipt, Fits
  <2>2. Generations' BY <1>0, <1>3, <2>1 DEF PublishReceipt, FilesOK, BackupInv,
          Generations, ReceiptDescribesArchive, HeldGenerationsSurvive
  <2>3. CASE Go(p, "plan")
    <3>1. pc'[p] = "plan" BY <1>0, <2>3 DEF Go
    <3>2. Knows(p)' BY <3>1 DEF Knows
    <3> QED BY <1>0, <1>3, <2>2, <2>3, <3>2, OthersIdle DEF PublishReceipt, Go
  <2>4. CASE Finish(p) BY <1>0, <1>3, <2>2, <2>4, FinishKnows DEF PublishReceipt
  <2> QED BY <1>3, <2>3, <2>4 DEF PublishReceipt
<1> QED BY <1>1, <1>2, <1>3 DEF Backup

LEMMA PruneKeeps ==
  ASSUME BackupInv, NEW p \in Processes, Prune(p)
  PROVE  Generations' /\ CommandInv'
<1>0. TypeOK /\ pc \in [Processes -> Places] /\ job \in [Processes -> Jobs] /\ FilesOK
  BY TypeParts DEF BackupInv
<1>00. UNCHANGED files => Generations'
  BY DEF files, BackupInv, Generations, ReceiptDescribesArchive, HeldGenerationsSurvive
<1>1. CASE BeginPrune(p)
  <2>1. pc'[p] = "plan" BY <1>0, <1>1 DEF BeginPrune, Go
  <2>2. Knows(p)' BY <2>1 DEF Knows
  <2> QED BY <1>0, <1>00, <1>1, <2>2, OthersIdle DEF BeginPrune, Lock, Go
<1>2. CASE FinishPrune(p) BY <1>0, <1>00, <1>2, FinishKnows DEF FinishPrune
<1>3. CASE RemoveReceipt(p)
  <2> DEFINE c == job[p].checkpoint
  <2>1. c \in Checkpoints /\ c \notin Held /\ HoldsWhole /\ job[p].victims \cap Held = {}
    BY <1>3, TypeParts DEF BackupInv, RemoveReceipt, Fits, CommandInv, Knows
  <2>2. Generations' BY <1>0, <1>3, <2>1 DEF RemoveReceipt, FilesOK, Held, BackupInv,
          Generations, ReceiptDescribesArchive, HeldGenerationsSurvive
  <2>3. pc'[p] = "remove" /\ job'[p].victims \subseteq job[p].victims
    BY <1>0, <1>3 DEF RemoveReceipt, Go, Jobs
  <2>4. Held' = Held /\ HoldsWhole' BY <1>3, <2>1 DEF RemoveReceipt, Held, HoldsWhole
  <2>5. Knows(p)' BY <2>1, <2>3, <2>4 DEF Knows
  <2> QED BY <1>0, <1>3, <2>2, <2>5, OthersIdle DEF RemoveReceipt, Go
<1>4. ASSUME NEW n \in Retains, PlanRemoval(p, n) PROVE Generations' /\ CommandInv'
  <2>1. pc'[p] = "remove" /\ job'[p].victims = Victims(p, n)
    BY <1>0, <1>4 DEF PlanRemoval, Go, Jobs
  <2>2. Held' = Held /\ HoldsWhole'
    BY <1>4 DEF PlanRemoval, files, Held, HoldsWhole, Sound
  <2>3. Knows(p)' BY <2>1, <2>2 DEF Knows, Victims
  <2> QED BY <1>0, <1>00, <1>4, <2>3, OthersIdle DEF PlanRemoval, Go
<1>5. ASSUME NEW c \in Checkpoints, RemoveArchive(p, c) PROVE Generations' /\ CommandInv'
  <2>1. c \notin Held /\ HoldsWhole /\ job[p].victims \cap Held = {}
    BY <1>5 DEF BackupInv, RemoveArchive, CommandInv, Knows
  <2>2. Generations' BY <1>0, <1>5, <2>1 DEF RemoveArchive, FilesOK, Held, BackupInv,
          Generations, ReceiptDescribesArchive, HeldGenerationsSurvive
  <2>3. pc'[p] = "removeReceipt" /\ job'[p].victims = job[p].victims /\ job'[p].checkpoint = c
    BY <1>0, <1>5 DEF RemoveArchive, Go, Jobs
  <2>4. Held' = Held /\ HoldsWhole' BY <1>5, <2>1 DEF RemoveArchive, Held, HoldsWhole
  <2>5. Knows(p)' BY <1>5, <2>1, <2>3, <2>4 DEF RemoveArchive, Knows
  <2> QED BY <1>0, <1>5, <2>2, <2>5, OthersIdle DEF RemoveArchive, Go
<1> QED BY <1>1, <1>2, <1>3, <1>4, <1>5 DEF Prune

LEMMA RetainKeeps ==
  ASSUME BackupInv, NEW p \in Processes, Retain(p)
  PROVE  Generations' /\ CommandInv'
<1>0. TypeOK /\ pc \in [Processes -> Places] /\ job \in [Processes -> Jobs] /\ FilesOK
  BY TypeParts DEF BackupInv
<1>1. ASSUME NEW i \in HoldIds, NEW c \in Checkpoints, BeginHold(p, i, c)
      PROVE  Generations' /\ CommandInv'
  <2>1. Generations' BY <1>1 DEF BeginHold, files, BackupInv, Generations,
          ReceiptDescribesArchive, HeldGenerationsSurvive
  <2>2. pc'[p] = "link" /\ job'[p].checkpoint = c
    BY <1>0, <1>1 DEF BeginHold, Go, Jobs
  <2>3. Knows(p)' BY <1>1, <2>2 DEF BeginHold, files, Knows, Completed
  <2> QED BY <1>0, <1>1, <2>1, <2>3, OthersIdle DEF BeginHold, Lock, Go
<1>2. CASE LinkHold(p)
  <2> DEFINE i == job[p].holdId
             c == job[p].checkpoint
             h == [links |-> 2, checkpoint |-> c, capture |-> receipt[c]]
  <2>1. /\ i \in HoldIds /\ c \in Checkpoints /\ receipt[c] = archive[c]
    BY <1>2, TypeParts DEF BackupInv, LinkHold, Fits, CommandInv, Knows, Completed
  <2>2. hold' = [hold EXCEPT ![i] = h] /\ UNCHANGED <<archive, receipt>> BY <1>2 DEF LinkHold
  <2>3. h.checkpoint = c /\ h.capture = receipt[c] /\ h # NoHold BY DEF NoHold
  <2> HIDE DEF h
  <2>4. ReceiptDescribesArchive' BY <2>2 DEF BackupInv, ReceiptDescribesArchive
  <2>5. HeldGenerationsSurvive'
    BY <1>0, <2>1, <2>2, <2>3 DEF FilesOK, BackupInv, HeldGenerationsSurvive
  <2>6. pc'[p] = "unlink" /\ job' = job /\ hold'[i] = h
    BY <1>0, <1>2, <2>1, <2>2 DEF LinkHold, Go, FilesOK
  <2>7. Knows(p)' BY <2>3, <2>6 DEF Knows
  <2> QED BY <1>0, <1>2, <2>4, <2>5, <2>7, OthersIdle DEF LinkHold, Go, Generations
<1>3. CASE UnlinkTemporary(p)
  <2> DEFINE i == job[p].holdId
             h == [hold[i] EXCEPT !.links = 1]
  <2>1. i \in HoldIds /\ hold[i] # NoHold
    BY <1>3, TypeParts DEF BackupInv, UnlinkTemporary, Fits, CommandInv, Knows
  <2>2. hold[i] \in HoldFiles BY <1>0, <2>1, HoldFacts
  <2>3. h.checkpoint = hold[i].checkpoint /\ h.capture = hold[i].capture
    BY <2>2 DEF HoldFiles
  <2>4. hold' = [hold EXCEPT ![i] = h] /\ UNCHANGED <<archive, receipt>>
    BY <1>0, <1>3, <2>1 DEF UnlinkTemporary, FilesOK
  <2> HIDE DEF h
  <2>5. ReceiptDescribesArchive' BY <2>4 DEF BackupInv, ReceiptDescribesArchive
  <2>6. HeldGenerationsSurvive'
    BY <1>0, <2>1, <2>3, <2>4 DEF FilesOK, BackupInv, HeldGenerationsSurvive
  <2> QED BY <1>0, <1>3, <2>5, <2>6, FinishKnows DEF UnlinkTemporary, Generations
<1>4. ASSUME NEW i \in HoldIds, ReleaseHold(p, i) PROVE Generations' /\ CommandInv'
  <2>1. Generations' BY <1>0, <1>4 DEF ReleaseHold, FilesOK, BackupInv, Generations,
          ReceiptDescribesArchive, HeldGenerationsSurvive
  <2>2. \A q \in Processes : pc'[q] = "idle" BY <1>0, <1>4, TypeParts, BackupAssumption DEF ReleaseHold
  <2> QED BY <2>1, <2>2 DEF CommandInv, Knows
<1> QED BY <1>1, <1>2, <1>3, <1>4 DEF Retain

\* The cleanup of legacy archives touches no generation.
LEMMA CleanupKeeps ==
  ASSUME BackupInv, NEW p \in Processes, CleanupLegacy(p)
  PROVE  Generations' /\ CommandInv'
<1>0. TypeOK /\ pc \in [Processes -> Places] BY TypeParts DEF BackupInv
<1>1. UNCHANGED <<archive, receipt, hold>>
  BY DEF CleanupLegacy, BeginLegacyCleanup, RemoveLegacy, FinishLegacyCleanup, files
<1>2. Generations'
  BY <1>1 DEF BackupInv, Generations, ReceiptDescribesArchive, HeldGenerationsSurvive
<1>3. CASE BeginLegacyCleanup(p)
  <2>1. pc'[p] = "legacy" BY <1>0, <1>3 DEF BeginLegacyCleanup, Go
  <2>2. Knows(p)' BY <2>1 DEF Knows
  <2> QED BY <1>0, <1>2, <1>3, <2>2, OthersIdle DEF BeginLegacyCleanup, Lock, Go
<1>4. CASE FinishLegacyCleanup(p) BY <1>0, <1>2, <1>4, FinishKnows DEF FinishLegacyCleanup
<1>5. ASSUME NEW l \in Legacies, RemoveLegacy(p, l) PROVE Generations' /\ CommandInv'
  <2>1. pc' = pc /\ pc[p] = "legacy" /\ \A q \in Processes : pc[q] # "idle" => q = p
    BY <1>0, <1>5, OnlyHolder DEF RemoveLegacy
  <2> QED BY <1>2, <2>1 DEF CommandInv, Knows
<1> QED BY <1>3, <1>4, <1>5 DEF CleanupLegacy
------------------------------------------------------------------------------
LEMMA InitBackupInv == Init => BackupInv
<1> SUFFICES ASSUME Init PROVE BackupInv OBVIOUS
<1>1. ReceiptDescribesArchive /\ HeldGenerationsSurvive
  BY DEF Init, ReceiptDescribesArchive, HeldGenerationsSurvive
<1>2. CommandInv BY DEF Init, CommandInv, Knows
<1> QED BY <1>1, <1>2, InitTypeOK DEF BackupInv

LEMMA NextBackupInv == BackupInv /\ [Next]_vars => BackupInv'
<1> SUFFICES ASSUME BackupInv, [Next]_vars PROVE BackupInv' OBVIOUS
<1>1. TypeOK' BY NextTypeOK DEF BackupInv
<1>2. CASE UNCHANGED vars
  <2>1. Held' = Held BY <1>2 DEF vars, files, Held
  <2>2. CommandInv' BY <1>2, <2>1 DEF vars, files, BackupInv, CommandInv, Knows, Completed, HoldsWhole
  <2> QED BY <1>1, <1>2, <2>2 DEF vars, files, BackupInv, ReceiptDescribesArchive, HeldGenerationsSurvive
<1>3. ASSUME NEW p \in Processes, Stop(p) PROVE BackupInv'
  <2>1. Generations' BY <1>3 DEF Stop, files, BackupInv, Generations,
          ReceiptDescribesArchive, HeldGenerationsSurvive
  <2> QED BY <1>1, <1>3, <2>1, FinishKnows DEF Stop, BackupInv, Generations
<1>4. ASSUME NEW p \in Processes, Backup(p) \/ Prune(p) \/ Retain(p) \/ CleanupLegacy(p)
      PROVE BackupInv'
  BY <1>1, <1>4, BackupKeeps, PruneKeeps, RetainKeeps, CleanupKeeps DEF BackupInv, Generations
<1> QED BY <1>2, <1>3, <1>4 DEF Next

LEMMA BackupInvHolds == Spec => []BackupInv
BY InitBackupInv, NextBackupInv, PTL DEF Spec

\* The files keep their shape and the lock has at most one holder, whatever
\* commands overlap and die.
THEOREM TypeCorrect == Spec => []TypeOK
<1>1. BackupInv => TypeOK BY DEF BackupInv
<1> QED BY <1>1, BackupInvHolds, PTL

\* A published hold keeps its exact archive and receipt, for any number of
\* processes, holds and checkpoints and every sequence of --retain values.
THEOREM HeldSurvive == Spec => []HeldGenerationsSurvive
<1>1. BackupInv => HeldGenerationsSurvive BY DEF BackupInv
<1> QED BY <1>1, BackupInvHolds, PTL

\* No sequence of interrupted prunes and repeated backups pairs a receipt with
\* the archive of another capture.
THEOREM ReceiptsDescribe == Spec => []ReceiptDescribesArchive
<1>1. BackupInv => ReceiptDescribesArchive BY DEF BackupInv
<1> QED BY <1>1, BackupInvHolds, PTL

\* Whenever an archive is deleted every hold is readable and its generation
\* complete: the validation before the first deletion is still true at the last.
THEOREM DamageStops == Spec => DamagedHoldStopsPruning
<1> DEFINE Deletes == \E c \in Checkpoints : archive[c] # 0 /\ archive'[c] = 0
           AllSound == \A i \in HoldIds : Sound(i)
<1>1. BackupInv /\ [Next]_vars => [Deletes => AllSound]_vars
  <2> SUFFICES ASSUME BackupInv, Next, Deletes PROVE AllSound BY DEF vars
  <2>0. FilesOK BY TypeParts DEF BackupInv
  <2>1. PICK p \in Processes, c \in Checkpoints : RemoveArchive(p, c)
    <3>1. PICK p \in Processes : Stop(p) \/ Backup(p) \/ Prune(p) \/ Retain(p) \/ CleanupLegacy(p)
      BY DEF Next
    <3>2. ~ (UNCHANGED archive) OBVIOUS
    <3>3. ~ (Stop(p) \/ Retain(p) \/ CleanupLegacy(p))
      BY <3>2 DEF Stop, Retain, BeginHold, LinkHold, UnlinkTemporary, ReleaseHold,
           CleanupLegacy, BeginLegacyCleanup, FinishLegacyCleanup, RemoveLegacy, files
    <3>4. ~ Backup(p)
      <4>1. ~ PublishArchive(p)
        BY <2>0, BackupAssumption DEF PublishArchive, FilesOK, Captures
      <4> QED BY <3>2, <4>1 DEF Backup, BeginBackup, PublishReceipt, files
    <3>5. \E c \in Checkpoints : RemoveArchive(p, c)
      BY <3>1, <3>2, <3>3, <3>4 DEF Prune, BeginPrune, FinishPrune, RemoveReceipt, PlanRemoval, files
    <3> QED BY <3>5
  <2>2. HoldsWhole BY <2>1 DEF BackupInv, CommandInv, Knows, RemoveArchive
  <2>3. ASSUME NEW i \in HoldIds, hold[i] # NoHold
        PROVE  Completed(hold[i].checkpoint) /\ archive[hold[i].checkpoint] = hold[i].capture
    BY <2>3, HoldFacts DEF BackupInv, HeldGenerationsSurvive, Completed
  <2> QED BY <2>2, <2>3 DEF Sound, HoldsWhole
<1> QED BY <1>1, BackupInvHolds, PTL DEF Spec, DamagedHoldStopsPruning

------------------------------------------------------------------------------
(* What a prune leaves.  It keeps the newest archives, finished or not; if   *)
(* none of them is finished there are as many as it was told to keep, or it  *)
(* deletes nothing.                                                          *)

Good == {c \in Checkpoints : Completed(c)}

\* Of these archives a completed generation is left, or as many others as a
\* prune keeps.
UsableOf(S, G) == S \cap G # {} \/ \E n \in Retains : Cardinality(S \ G) >= n

Needed == proven \/ legacy # Legacies

\* The inductive invariant on top of BackupInv: also what a prune under way will
\* leave is usable, and a receipt is written beside its archive.
UsableInv ==
  /\ Needed => UsableOf(Archives, Good)
  /\ \A p \in Processes :
       /\ pc[p] \in {"remove", "removeReceipt"} /\ Needed
            => UsableOf(Archives \ job[p].victims, Good)
       /\ pc[p] = "receipt" => archive[job[p].checkpoint] # 0
       /\ pc[p] = "legacy" => Good # {}

LEMMA Largest ==
  ASSUME NEW S \in SUBSET Nat, S # {}, NEW b \in Nat, \A x \in S : x <= b
  PROVE  \E x \in S : \A y \in S : y <= x
<1> DEFINE T == {z \in Nat : \E x \in S : z = b - x}
<1>1. T \subseteq Nat OBVIOUS
<1>2. T # {}
  <2>1. PICK x \in S : TRUE OBVIOUS
  <2>2. b - x \in Nat BY <2>1
  <2> QED BY <2>1, <2>2
<1> HIDE DEF T
<1>3. \E z \in T : \A y \in T : ~ (<<y, z>> \in OpToRel(<, Nat))
  BY <1>1, <1>2, NatLessThanWellFounded, WFMin
<1>4. PICK z \in T : \A y \in T : ~ (<<y, z>> \in OpToRel(<, Nat)) BY <1>3
<1>5. \A y \in T : ~ (y < z) BY <1>1, <1>4 DEF OpToRel
<1>6. PICK x \in S : z = b - x BY DEF T
<1>7. ASSUME NEW y \in S PROVE y <= x
  <2>1. b - y \in T BY DEF T
  <2>2. ~ (b - y < b - x) BY <1>5, <1>6, <2>1
  <2> QED BY <2>2
<1> QED BY <1>7

LEMMA FiniteParts ==
  ASSUME NEW S \in SUBSET Checkpoints
  PROVE  IsFiniteSet(S) /\ Cardinality(S) \in Nat
BY BackupAssumption, FS_Subset, FS_CardinalityType

LEMMA UsableMore ==
  ASSUME NEW S, NEW T \in SUBSET Checkpoints, S \subseteq T, NEW G, NEW H,
         \A c \in S : c \in G <=> c \in H, UsableOf(S, G)
  PROVE  UsableOf(T, H)
<1>1. CASE S \cap G # {} BY <1>1 DEF UsableOf
<1>2. ASSUME NEW n \in Retains, Cardinality(S \ G) >= n, T \cap H = {} PROVE UsableOf(T, H)
  <2>1. S \ G = S \ H /\ S \ H \subseteq T \ H /\ T \ H \in SUBSET Checkpoints OBVIOUS
  <2>2. Cardinality(S \ G) <= Cardinality(T \ H) BY <2>1, FiniteParts, FS_Subset
  <2>3. Cardinality(S \ G) \in Nat /\ Cardinality(T \ H) \in Nat /\ n \in Nat
    BY <2>1, FiniteParts, BackupAssumption
  <2> QED BY <1>2, <2>2, <2>3 DEF UsableOf
<1>3. CASE T \cap H # {} BY <1>3 DEF UsableOf
<1> QED BY <1>1, <1>2, <1>3 DEF UsableOf

\* The archives a prune does not plan to delete are usable.
LEMMA PlanIsUsable ==
  ASSUME BackupInv, NEW p \in Processes, NEW n \in Retains, UsableOf(Archives, Good)
  PROVE  UsableOf(Archives \ Victims(p, n), Good)
<1> DEFINE V == Victims(p, n)
           Old == Archives \ Newest(n)
           Newer(c) == {d \in Archives : archive[d] > archive[c]}
<1>0. /\ Archives \subseteq Checkpoints /\ n \in Nat /\ archive \in [Checkpoints -> Captures]
      /\ MaxCaptures \in Nat /\ V \subseteq Old /\ V \cap Newest(n) = {}
      /\ Newest(n) \subseteq Archives
  BY BackupAssumption DEF BackupInv, TypeOK, Archives, Victims, Newest
<1>1. CASE Old = {}
  <2>1. Archives \ V = Archives BY <1>0, <1>1
  <2> QED BY <2>1
<1>2. CASE Newest(n) \cap Good # {} BY <1>0, <1>2 DEF UsableOf
<1>3. CASE Old # {} /\ Newest(n) \cap Good = {}
  <2> DEFINE S == {archive[c] : c \in Old}
  <2>1. S \in SUBSET Nat /\ S # {} /\ \A x \in S : x <= MaxCaptures
    BY <1>0, <1>3 DEF Captures
  <2> HIDE DEF S
  <2>2. PICK x \in S : \A y \in S : y <= x BY <1>0, <2>1, Largest
  <2>3. PICK c \in Old : x = archive[c] BY DEF S
  <2>4. \A d \in Old : archive[d] <= archive[c] BY <2>2, <2>3 DEF S
  <2>5. Newer(c) \subseteq Newest(n)
    <3>1. ASSUME NEW d \in Newer(c), d \in Old PROVE FALSE
      BY <1>0, <2>4, <3>1 DEF Captures, Archives
    <3> QED BY <3>1
  <2>6. Newer(c) \in SUBSET Checkpoints BY <1>0
  <2>7. Cardinality(Newer(c)) >= n
    <3>1. ~ (Cardinality(Newer(c)) < n) BY <2>3 DEF Newest
    <3> QED BY <1>0, <2>6, <3>1, FiniteParts
  <2> DEFINE rest == Archives \ V
  <2>8. CASE rest \cap Good # {} BY <2>8 DEF UsableOf
  <2>9. CASE rest \cap Good = {}
    <3>1. Newer(c) \subseteq rest \ Good /\ rest \ Good \in SUBSET Checkpoints
      BY <1>0, <1>3, <2>5
    <3>2. Cardinality(Newer(c)) <= Cardinality(rest \ Good) BY <3>1, FiniteParts, FS_Subset
    <3>3. Cardinality(rest \ Good) \in Nat /\ Cardinality(Newer(c)) \in Nat
      BY <2>6, <3>1, FiniteParts
    <3> QED BY <1>0, <2>7, <3>2, <3>3 DEF UsableOf
  <2> QED BY <2>8, <2>9
<1> QED BY <1>1, <1>2, <1>3

\* A step that leaves the generations alone.
LEMMA QuietUsable ==
  ASSUME UsableInv, NEW p \in Processes, UNCHANGED <<archive, receipt>>, Needed' = Needed,
         \A q \in Processes : q # p => pc'[q] = pc[q] /\ job'[q] = job[q],
         pc'[p] \in {"remove", "removeReceipt"} /\ Needed
           => UsableOf(Archives \ job'[p].victims, Good),
         pc'[p] = "receipt" => archive[job'[p].checkpoint] # 0,
         pc'[p] = "legacy" => Good # {}
  PROVE  UsableInv'
<1>1. Archives' = Archives /\ Good' = Good BY DEF Archives, Good, Completed
<1>2. (Needed => UsableOf(Archives, Good))'
  <2>1. Needed' => UsableOf(Archives', Good') BY <1>1 DEF UsableInv
  <2> QED BY <2>1 DEF UsableOf
<1>3. ASSUME NEW q \in Processes
      PROVE  /\ (pc'[q] \in {"remove", "removeReceipt"} /\ Needed'
                  => UsableOf(Archives' \ job'[q].victims, Good'))
             /\ (pc'[q] = "receipt" => archive'[job'[q].checkpoint] # 0)
             /\ (pc'[q] = "legacy" => Good' # {})
  BY <1>1 DEF UsableInv
<1> QED BY <1>2, <1>3 DEF UsableInv, UsableOf

LEMMA PrunedUsable ==
  ASSUME BackupInv, UsableInv, NEW p \in Processes, NEW c \in Checkpoints,
         RemoveArchive(p, c) \/ (RemoveReceipt(p) /\ c = job[p].checkpoint)
  PROVE  UsableInv'
<1>0. /\ TypeOK /\ pc \in [Processes -> Places] /\ job \in [Processes -> Jobs] /\ FilesOK
      /\ pc[p] \in {"remove", "removeReceipt"} /\ c \in job[p].victims
      /\ \A q \in Processes : q # p => pc[q] = "idle"
  BY TypeParts, OnlyHolder DEF BackupInv, RemoveArchive, RemoveReceipt, CommandInv, Knows
<1>1. /\ UNCHANGED <<proven, legacy>>
      /\ \A d \in Checkpoints : d # c => archive'[d] = archive[d] /\ receipt'[d] = receipt[d]
      /\ archive'[c] \in {0, archive[c]}
  BY <1>0 DEF RemoveArchive, RemoveReceipt, FilesOK
<1>2. /\ pc'[p] \in {"remove", "removeReceipt"}
      /\ job'[p].victims \subseteq job[p].victims
      /\ c \notin job'[p].victims => archive' = archive
      /\ \A d \in job[p].victims : d # c => d \in job'[p].victims
      /\ \A q \in Processes : q # p => pc'[q] = "idle"
  <2>1. CASE RemoveArchive(p, c)
    BY <1>0, <2>1 DEF RemoveArchive, Go, Jobs
  <2>2. CASE RemoveReceipt(p) /\ c = job[p].checkpoint
    <3>1. /\ pc' = [pc EXCEPT ![p] = "remove"] /\ archive' = archive
          /\ job' = [job EXCEPT ![p].victims = @ \ {c}]
      BY <2>2 DEF RemoveReceipt, Go
    <3>2. job'[p].victims = job[p].victims \ {c} BY <1>0, <3>1 DEF Jobs
    <3> QED BY <1>0, <3>1, <3>2
  <2> QED BY <2>1, <2>2
<1>3. \A d \in Checkpoints : d # c => (Completed(d) <=> archive'[d] # 0 /\ receipt'[d] = archive'[d])
  BY <1>1 DEF Completed
<1>4. Good' = {d \in Checkpoints : archive'[d] # 0 /\ receipt'[d] = archive'[d]}
  BY DEF Good, Completed
<1>5. \A d \in Checkpoints : d # c => (d \in Good <=> d \in Good') BY <1>3, <1>4 DEF Good
<1>6. /\ Archives \ job[p].victims \subseteq Archives' \ job'[p].victims
      /\ Archives' \in SUBSET Checkpoints
      /\ \A d \in Archives \ job[p].victims : d \in Good <=> d \in Good'
  BY <1>0, <1>1, <1>2, <1>5 DEF Archives
<1>7. Needed' => UsableOf(Archives', Good') /\ UsableOf(Archives' \ job'[p].victims, Good')
  <2>1. Needed' => UsableOf(Archives \ job[p].victims, Good)
    BY <1>0, <1>1 DEF UsableInv, Needed
  <2>2. Archives' \ job'[p].victims \in SUBSET Checkpoints BY <1>6
  <2> QED BY <1>6, <2>1, <2>2, UsableMore
<1>8. ASSUME NEW q \in Processes
      PROVE  /\ (pc'[q] \in {"remove", "removeReceipt"} /\ Needed'
                  => UsableOf(Archives' \ job'[q].victims, Good'))
             /\ (pc'[q] = "receipt" => archive'[job'[q].checkpoint] # 0)
             /\ (pc'[q] = "legacy" => Good' # {})
  BY <1>2, <1>7
<1> QED BY <1>7, <1>8 DEF UsableInv, UsableOf

LEMMA PublishedUsable ==
  ASSUME BackupInv, UsableInv, NEW p \in Processes, PublishArchive(p) \/ PublishReceipt(p)
  PROVE  UsableInv'
<1> DEFINE c == job[p].checkpoint
<1>0. /\ TypeOK /\ pc \in [Processes -> Places] /\ job \in [Processes -> Jobs] /\ FilesOK
      /\ pc[p] \in {"capture", "receipt"} /\ c \in Checkpoints
      /\ \A q \in Processes : q # p => pc[q] = "idle"
  BY TypeParts, OnlyHolder DEF BackupInv, PublishArchive, PublishReceipt, Fits
<1>1. Good' = {d \in Checkpoints : archive'[d] # 0 /\ receipt'[d] = archive'[d]}
  BY DEF Good, Completed
<1>2. CASE PublishArchive(p)
  <2>1. /\ archive' = [archive EXCEPT ![c] = captures + 1] /\ archive[c] = 0
        /\ UNCHANGED <<receipt, proven, legacy, job>> /\ pc' = [pc EXCEPT ![p] = "receipt"]
    BY <1>2 DEF PublishArchive, Go
  <2>2. receipt[c] = 0 /\ captures + 1 # 0
    BY <1>0, <1>2, RecordFacts DEF BackupInv, CommandInv, Knows, PublishArchive, FilesOK
  <2>3. /\ Archives \subseteq Archives' /\ Archives' \in SUBSET Checkpoints
        /\ \A d \in Archives : d \in Good <=> d \in Good'
    BY <1>0, <1>1, <2>1, <2>2 DEF Archives, Good, Completed, FilesOK
  <2>4. Needed' => UsableOf(Archives', Good')
    BY <2>1, <2>3, UsableMore DEF UsableInv, Needed
  <2>5. archive'[c] # 0 BY <1>0, <2>1, <2>2 DEF FilesOK
  <2>6. pc'[p] = "receipt" /\ \A q \in Processes : q # p => pc'[q] = "idle" BY <1>0, <2>1
  <2>7. ASSUME NEW q \in Processes
        PROVE  /\ (pc'[q] \in {"remove", "removeReceipt"} /\ Needed'
                    => UsableOf(Archives' \ job'[q].victims, Good'))
               /\ (pc'[q] = "receipt" => archive'[job'[q].checkpoint] # 0)
               /\ (pc'[q] = "legacy" => Good' # {})
    BY <2>1, <2>5, <2>6
  <2> QED BY <2>4, <2>7 DEF UsableInv, UsableOf
<1>3. CASE PublishReceipt(p)
  <2>1. /\ receipt' = [receipt EXCEPT ![c] = archive[c]] /\ archive' = archive
        /\ archive[c] # 0
    BY <1>0, <1>3 DEF PublishReceipt, UsableInv
  <2>2. c \in Good' /\ c \in Archives' BY <1>0, <1>1, <2>1 DEF FilesOK, Archives
  <2>3. UsableOf(Archives', Good') BY <2>2 DEF UsableOf
  <2>4. \A q \in Processes : pc'[q] \in {"idle", "plan"}
    BY <1>0, <1>3 DEF PublishReceipt, Finish, Go
  <2>5. ASSUME NEW q \in Processes
        PROVE  /\ (pc'[q] \in {"remove", "removeReceipt"} /\ Needed'
                    => UsableOf(Archives' \ job'[q].victims, Good'))
               /\ (pc'[q] = "receipt" => archive'[job'[q].checkpoint] # 0)
               /\ (pc'[q] = "legacy" => Good' # {})
    BY <2>4
  <2> QED BY <2>3, <2>5 DEF UsableInv, UsableOf
<1> QED BY <1>2, <1>3

LEMMA NextUsable == BackupInv /\ UsableInv /\ [Next]_vars => UsableInv'
<1> SUFFICES ASSUME BackupInv, UsableInv, [Next]_vars PROVE UsableInv' OBVIOUS
<1>0. pc \in [Processes -> Places] /\ job \in [Processes -> Jobs]
  BY TypeParts DEF BackupInv
<1>1. CASE UNCHANGED vars
  <2>1. Archives' = Archives /\ Good' = Good /\ Needed' = Needed
    BY <1>1 DEF vars, files, Archives, Good, Completed, Needed
  <2>2. Needed' => UsableOf(Archives', Good') BY <2>1 DEF UsableInv
  <2>3. ASSUME NEW q \in Processes
        PROVE  /\ (pc'[q] \in {"remove", "removeReceipt"} /\ Needed'
                    => UsableOf(Archives' \ job'[q].victims, Good'))
               /\ (pc'[q] = "receipt" => archive'[job'[q].checkpoint] # 0)
               /\ (pc'[q] = "legacy" => Good' # {})
    BY <1>1, <2>1 DEF vars, files, UsableInv
  <2> QED BY <2>2, <2>3 DEF UsableInv, UsableOf
<1> SUFFICES ASSUME NEW p \in Processes,
                    Stop(p) \/ Backup(p) \/ Prune(p) \/ Retain(p) \/ CleanupLegacy(p)
             PROVE  UsableInv'
  BY <1>1 DEF Next
\* The steps that end, or change nothing but who works on what.
<1>2. ASSUME UNCHANGED <<archive, receipt, proven, legacy>>,
             NEW l \in Places \ {"remove", "removeReceipt", "receipt", "legacy"},
             pc' = [pc EXCEPT ![p] = l],
             \A q \in Processes : q # p => job'[q] = job[q]
      PROVE  UsableInv'
  <2>1. Needed' = Needed /\ pc'[p] = l /\ \A q \in Processes : q # p => pc'[q] = pc[q]
    BY <1>0, <1>2 DEF Needed
  <2> QED BY <1>2, <2>1, QuietUsable
<1>3. CASE Stop(p) \/ FinishPrune(p) \/ FinishLegacyCleanup(p) \/ UnlinkTemporary(p)
  <2>1. UNCHANGED <<archive, receipt, proven, legacy>> /\ Finish(p)
    BY <1>3 DEF Stop, FinishPrune, FinishLegacyCleanup, UnlinkTemporary, files
  <2> QED BY <1>0, <1>2, <2>1 DEF Finish, Go, Places
<1>4. CASE BeginPrune(p) \/ LinkHold(p)
  <2>1. UNCHANGED <<archive, receipt, proven, legacy, job>> /\ (Go(p, "plan") \/ Go(p, "unlink"))
    BY <1>4 DEF BeginPrune, LinkHold, files
  <2> QED BY <1>0, <1>2, <2>1 DEF Go, Places
<1>5. ASSUME NEW c \in Checkpoints, BeginBackup(p, c) PROVE UsableInv'
  <2>1. /\ UNCHANGED <<archive, receipt, proven, legacy>> /\ Go(p, "capture")
        /\ \A q \in Processes : q # p => job'[q] = job[q]
    BY <1>0, <1>5 DEF BeginBackup, files
  <2> QED BY <1>2, <2>1 DEF Go, Places
<1>6. ASSUME NEW i \in HoldIds, NEW c \in Checkpoints, BeginHold(p, i, c) PROVE UsableInv'
  <2>1. /\ UNCHANGED <<archive, receipt, proven, legacy>> /\ Go(p, "link")
        /\ \A q \in Processes : q # p => job'[q] = job[q]
    BY <1>0, <1>6 DEF BeginHold, files
  <2> QED BY <1>2, <2>1 DEF Go, Places
<1>7. ASSUME NEW i \in HoldIds, ReleaseHold(p, i) PROVE UsableInv'
  <2>1. pc[p] = "idle" /\ UNCHANGED <<archive, receipt, proven, legacy, pc, job>>
    BY <1>7 DEF ReleaseHold
  <2>2. pc' = [pc EXCEPT ![p] = "idle"] BY <1>0, <2>1
  <2> QED BY <1>2, <2>1, <2>2 DEF Places
<1>8. ASSUME NEW n \in Retains, PlanRemoval(p, n) PROVE UsableInv'
  <2>1. /\ UNCHANGED <<archive, receipt, proven, legacy>> /\ Needed' = Needed
        /\ job'[p].victims = Victims(p, n) /\ pc'[p] = "remove"
        /\ \A q \in Processes : q # p => pc'[q] = pc[q] /\ job'[q] = job[q]
    BY <1>0, <1>8 DEF PlanRemoval, files, Go, Jobs, Needed
  <2>2. Needed => UsableOf(Archives \ job'[p].victims, Good)
    BY <2>1, PlanIsUsable DEF UsableInv
  <2> QED BY <2>1, <2>2, QuietUsable
<1>9. CASE BeginLegacyCleanup(p)
  <2>1. /\ UNCHANGED <<archive, receipt, proven, legacy, job>> /\ Needed' = Needed
        /\ Archives # {} /\ \A c \in Newest(1) : Completed(c)
        /\ pc'[p] = "legacy" /\ \A q \in Processes : q # p => pc'[q] = pc[q] /\ job'[q] = job[q]
    BY <1>0, <1>9 DEF BeginLegacyCleanup, files, Go, Needed
  <2>2. Good # {}
    <3> DEFINE S == {archive[c] : c \in Archives}
    <3>1. archive \in [Checkpoints -> Captures] /\ MaxCaptures \in Nat
      BY BackupAssumption DEF BackupInv, TypeOK
    <3>2. S \in SUBSET Nat /\ S # {} /\ \A x \in S : x <= MaxCaptures
      BY <2>1, <3>1 DEF Archives, Captures
    <3> HIDE DEF S
    <3>3. PICK x \in S : \A y \in S : y <= x BY <3>1, <3>2, Largest
    <3>4. PICK c \in Archives : x = archive[c] BY DEF S
    <3>5. {d \in Archives : archive[d] > archive[c]} = {}
      BY <3>1, <3>3, <3>4 DEF S, Archives, Captures
    <3>6. c \in Newest(1) BY <3>5, FS_EmptySet DEF Newest
    <3> QED BY <2>1, <3>6 DEF Good, Newest, Archives
  <2> QED BY <2>1, <2>2, QuietUsable
<1>10. ASSUME NEW l \in Legacies, RemoveLegacy(p, l) PROVE UsableInv'
  <2>1. UNCHANGED <<archive, receipt, pc, job>> /\ pc[p] = "legacy" BY <1>10 DEF RemoveLegacy
  <2>2. Good # {} /\ Good \subseteq Archives BY <2>1 DEF UsableInv, Good, Completed, Archives
  <2>3. Archives' = Archives /\ Good' = Good BY <2>1 DEF Archives, Good, Completed
  <2>4. UsableOf(Archives', Good') BY <2>2, <2>3 DEF UsableOf
  <2>5. \A q \in Processes : q # p => pc'[q] = "idle" BY <2>1, TypeParts DEF BackupInv
  <2>6. ASSUME NEW q \in Processes
        PROVE  /\ (pc'[q] \in {"remove", "removeReceipt"} /\ Needed'
                    => UsableOf(Archives' \ job'[q].victims, Good'))
               /\ (pc'[q] = "receipt" => archive'[job'[q].checkpoint] # 0)
               /\ (pc'[q] = "legacy" => Good' # {})
    BY <2>1, <2>2, <2>3, <2>5
  <2> QED BY <2>4, <2>6 DEF UsableInv, UsableOf
<1>11. CASE RemoveReceipt(p)
  <2>1. job[p].checkpoint \in Checkpoints
    BY <1>11, TypeParts DEF BackupInv, RemoveReceipt, Fits
  <2> QED BY <1>11, <2>1, PrunedUsable
<1> QED BY <1>3, <1>4, <1>5, <1>6, <1>7, <1>8, <1>9, <1>10, <1>11, PrunedUsable, PublishedUsable
     DEF Backup, Prune, Retain, CleanupLegacy

\* Once a receipt has been published or a legacy archive deleted, a completed
\* generation is left, or as many killed captures as a prune keeps, for every
\* sequence of --retain values and any number of checkpoints and processes.
THEOREM UsableRemains == Spec => []UsableGenerationRemains
<1>1. Init => UsableInv BY DEF Init, UsableInv, Needed
<1>2. BackupInv /\ UsableInv /\ [Next]_vars => UsableInv' BY NextUsable
<1>3. UsableInv => UsableGenerationRemains
  <2> SUFFICES ASSUME UsableInv, Needed PROVE UsableGenerationRemains
    BY DEF UsableGenerationRemains, Needed
  <2>1. UsableOf(Archives, Good) BY DEF UsableInv
  <2>2. Archives \ Good = {c \in Archives : ~ Completed(c)} BY DEF Archives, Good
  <2> QED BY <2>1, <2>2 DEF UsableOf, UsableGenerationRemains, Good
<1> QED BY <1>1, <1>2, <1>3, BackupInvHolds, PTL DEF Spec
-------------------------------------------------------------------------------
(***************************************************************************)
(* Mail.  A key is owned by at most one call from the transaction that     *)
(* reserves it to the one that records its outcome.  A call that dies      *)
(* leaves the row, which nobody can own again; so a key whose request is   *)
(* on its way, or whose message was accepted, is never free.               *)
(***************************************************************************)
Owns(s) == phase[s] \in {"reserved", "waiting", "answered"}
Unsent(k) == (\A r \in inFlight : r.key # k) /\ (\A m \in mailbox : m.key # k)
Message(r, id) == [key |-> r.key, content |-> r.content, id |-> id]

MailShape ==
  /\ sends \in [Keys -> Mail!SendRows \cup {Nothing}]
  /\ request \in [Senders -> Mail!Requests \cup {Nothing}]
  /\ phase \in [Senders -> {"idle", "ready", "reserved", "waiting", "answered"}]
  /\ answer \in [Senders -> Mail!Answers \cup {Nothing}]
  /\ inFlight \subseteq [key : Keys, content : Contents, sender : Senders]
  /\ mailbox \subseteq Mail!Messages /\ IsFiniteSet(mailbox)
  /\ suppressed \subseteq Mail!Messages
  /\ made \in 0 .. MaxSends

Reserved ==
  /\ \A s \in Senders : phase[s] # "idle" => request[s] \in Mail!Requests
  /\ \A s \in Senders : Owns(s) =>
       /\ Mail!Row(s) # Nothing
       /\ Mail!Row(s).status = "sending" /\ Mail!Row(s).content = request[s].content
  /\ \A s, t \in Senders : Owns(s) /\ Owns(t) /\ request[s].key = request[t].key => s = t
  /\ \A s \in Senders : phase[s] = "reserved" => Unsent(request[s].key)
  /\ \A s \in Senders : phase[s] = "answered" =>
       /\ answer[s] \in Mail!Answers
       /\ answer[s].says \in Mail!Refusals => Unsent(request[s].key)
       /\ answer[s].says = "accepted" => Message(request[s], answer[s].id) \in mailbox

Posted ==
  /\ \A r \in inFlight :
       /\ sends[r.key] # Nothing
       /\ sends[r.key].status \in {"sending", "unknown"} /\ sends[r.key].content = r.content
       /\ \A m \in mailbox : m.key # r.key
  /\ \A q, r \in inFlight : q.key = r.key => q = r
  /\ \A m \in mailbox : sends[m.key] # Nothing /\ sends[m.key].content = m.content
  /\ \A m, n \in mailbox : m.key = n.key => m = n
  /\ \A k \in Keys : sends[k] # Nothing =>
       (sends[k].status = "sent" =>
          [key |-> k, content |-> sends[k].content, id |-> sends[k].id] \in mailbox)
  /\ suppressed \subseteq mailbox

\* The inductive invariant.
MailInv == MailShape /\ Reserved /\ Posted

LEMMA MailInitInv == Mail!MailInit => MailInv
<1> SUFFICES ASSUME Mail!MailInit PROVE MailInv OBVIOUS
<1>1. MailShape BY SuiteAssumption, FS_EmptySet DEF Mail!MailInit, MailShape
<1>2. Reserved BY DEF Mail!MailInit, Reserved, Owns
<1>3. Posted BY DEF Mail!MailInit, Posted
<1> QED BY <1>1, <1>2, <1>3 DEF MailInv

\* A call that returns, whatever it knew, leaves the ledger and Gmail as they are.
LEMMA ReturnInv ==
  ASSUME MailInv, NEW s \in Senders, Mail!Return(s),
         UNCHANGED <<sends, inFlight, mailbox, made>>,
         suppressed' \subseteq mailbox
  PROVE  MailInv'
<1> USE DEF MailInv
<1>1. /\ phase' = [phase EXCEPT ![s] = "idle"] /\ request' = [request EXCEPT ![s] = Nothing]
      /\ answer' = [answer EXCEPT ![s] = Nothing]
  BY DEF Mail!Return
<1>2. MailShape' BY <1>1 DEF MailShape
<1>3. \A t \in Senders : phase'[t] # "idle" =>
        t # s /\ phase'[t] = phase[t] /\ request'[t] = request[t] /\ answer'[t] = answer[t]
  BY <1>1 DEF MailShape
<1>4. Reserved' BY <1>3 DEF Reserved, Owns, Unsent, Message, Mail!Row
<1>5. Posted' BY DEF Posted
<1> QED BY <1>2, <1>4, <1>5

LEMMA BeginMailInv ==
  ASSUME MailInv, NEW s \in Senders,
         \/ \E r \in Mail!Requests : Mail!Compose(s, r)
         \/ Mail!ReserveNew(s) \/ Mail!SuppressDuplicate(s) \/ Mail!RefuseKey(s) \/ Mail!Kill(s)
  PROVE  MailInv'
<1> USE DEF MailInv
<1>1. ASSUME NEW r \in Mail!Requests, Mail!Compose(s, r) PROVE MailInv'
  <2>1. /\ phase[s] = "idle" /\ made < MaxSends /\ made' = made + 1
        /\ phase' = [phase EXCEPT ![s] = "ready"] /\ request' = [request EXCEPT ![s] = r]
        /\ UNCHANGED <<sends, answer, inFlight, mailbox, suppressed>>
    BY <1>1 DEF Mail!Compose
  <2>2. made' \in 0 .. MaxSends BY <2>1, SuiteAssumption DEF MailShape
  <2>3. MailShape' BY <2>1, <2>2 DEF MailShape
  <2>4. \A t \in Senders : phase'[t] # "ready" => phase'[t] = phase[t] /\ request'[t] = request[t]
    BY <2>1 DEF MailShape
  <2>5. \A t \in Senders : phase'[t] # "idle" => request'[t] \in Mail!Requests
    BY <2>1 DEF MailShape, Reserved
  <2>6. Reserved' BY <2>1, <2>4, <2>5 DEF Reserved, Owns, Unsent, Message, Mail!Row
  <2>7. Posted' BY <2>1 DEF Posted
  <2> QED BY <2>3, <2>6, <2>7
<1>2. CASE Mail!ReserveNew(s)
  <2> DEFINE k == request[s].key
             row == [content |-> request[s].content, status |-> "sending", id |-> Nothing]
  <2>1. /\ phase[s] = "ready" /\ sends[k] = Nothing
        /\ sends' = [sends EXCEPT ![k] = row] /\ phase' = [phase EXCEPT ![s] = "reserved"]
        /\ UNCHANGED <<request, answer, inFlight, mailbox, suppressed, made>>
    BY <1>2 DEF Mail!ReserveNew, Mail!Row
  <2>2. request[s] \in Mail!Requests BY <2>1 DEF Reserved
  <2>3. k \in Keys /\ row \in Mail!SendRows BY <2>2 DEF Mail!Requests, Mail!SendRows
  <2>4. row # Nothing /\ row.status = "sending" /\ row.content = request[s].content
    BY <2>3, SuiteAssumption
  <2> HIDE DEF row
  <2>5. sends'[k] = row /\ \A l \in Keys : l # k => sends'[l] = sends[l]
    BY <2>1, <2>3 DEF MailShape
  <2>6. MailShape' BY <2>1, <2>3 DEF MailShape
  <2>7. Unsent(k)
    <3>1. \A r \in inFlight : r.key # k BY <2>1 DEF Posted
    <3>2. \A m \in mailbox : m.key # k BY <2>1 DEF Posted
    <3> QED BY <3>1, <3>2 DEF Unsent
  <2>8. \A t \in Senders : t # s /\ Owns(t)' => Owns(t) /\ request[t] \in Mail!Requests
                             /\ request[t].key \in Keys /\ request[t].key # k
    BY <2>1 DEF MailShape, Reserved, Owns, Mail!Row, Mail!Requests
  <2>9. \A t \in Senders : t # s => phase'[t] = phase[t] BY <2>1 DEF MailShape
  <2>10. phase'[s] = "reserved" BY <2>1 DEF MailShape
  <2>11. Reserved'
    <3>1. \A t \in Senders : Owns(t)' =>
            /\ sends'[request[t].key] # Nothing /\ sends'[request[t].key].status = "sending"
            /\ sends'[request[t].key].content = request[t].content
      BY <2>4, <2>5, <2>8 DEF Reserved, Mail!Row
    <3>2. \A t, u \in Senders : Owns(t)' /\ Owns(u)' /\ request[t].key = request[u].key => t = u
      BY <2>8 DEF Reserved
    <3>3. \A t \in Senders : phase'[t] = "reserved" => Unsent(request[t].key)
      BY <2>7, <2>9 DEF Reserved
    <3>4. \A t \in Senders : phase'[t] = "answered" => phase[t] = "answered" BY <2>9, <2>10
    <3>5. \A t \in Senders : phase'[t] # "idle" => request[t] \in Mail!Requests
      BY <2>2, <2>9 DEF Reserved
    <3> QED BY <2>1, <3>1, <3>2, <3>3, <3>4, <3>5 DEF Reserved, Unsent, Message, Mail!Row
  <2>12. Posted'
    <3>1. \A r \in inFlight : r.key # k /\ r.key \in Keys BY <2>7 DEF Unsent, MailShape
    <3>2. \A m \in mailbox : m.key # k /\ m.key \in Keys
      BY <2>7 DEF Unsent, MailShape, Mail!Messages
    <3> QED BY <2>1, <2>4, <2>5, <3>1, <3>2 DEF Posted
  <2> QED BY <2>6, <2>11, <2>12
<1>3. CASE Mail!SuppressDuplicate(s)
  <2>1. /\ Mail!Return(s) /\ UNCHANGED <<sends, inFlight, mailbox, made>>
        /\ phase[s] = "ready" /\ Mail!Row(s) # Nothing /\ Mail!SentBefore(s)
        /\ suppressed' = suppressed \cup
             {[key |-> request[s].key, content |-> request[s].content, id |-> Mail!Row(s).id]}
    BY <1>3 DEF Mail!SuppressDuplicate
  <2>2. request[s].key \in Keys BY <2>1 DEF Reserved, Mail!Requests
  <2>3. [key |-> request[s].key, content |-> request[s].content, id |-> Mail!Row(s).id] \in mailbox
    BY <2>1, <2>2 DEF Posted, Mail!Row, Mail!SentBefore
  <2>4. suppressed' \subseteq mailbox BY <2>1, <2>3 DEF Posted
  <2> QED BY <2>1, <2>4, ReturnInv
<1>4. CASE Mail!RefuseKey(s) \/ Mail!Kill(s)
  <2>1. Mail!Return(s) /\ UNCHANGED <<sends, inFlight, mailbox, suppressed, made>>
    BY <1>4 DEF Mail!RefuseKey, Mail!Kill
  <2>2. suppressed' \subseteq mailbox BY <2>1 DEF Posted
  <2> QED BY <2>1, <2>2, ReturnInv
<1> QED BY <1>1, <1>2, <1>3, <1>4

LEMMA PostMailInv ==
  ASSUME MailInv, NEW s \in Senders, Mail!Post(s) \/ Mail!GiveUp(s)
  PROVE  MailInv'
<1> USE DEF MailInv
<1>1. CASE Mail!Post(s)
  <2> DEFINE q == [key |-> request[s].key, content |-> request[s].content, sender |-> s]
  <2>1. /\ phase[s] = "reserved" /\ inFlight' = inFlight \cup {q}
        /\ phase' = [phase EXCEPT ![s] = "waiting"]
        /\ UNCHANGED <<sends, request, answer, mailbox, suppressed, made>>
    BY <1>1 DEF Mail!Post
  <2>2. /\ request[s] \in Mail!Requests /\ Unsent(request[s].key) /\ Owns(s)
        /\ Mail!Row(s) # Nothing /\ Mail!Row(s).status = "sending"
        /\ Mail!Row(s).content = request[s].content
    BY <2>1 DEF Reserved, Owns
  <2>3. q \in [key : Keys, content : Contents, sender : Senders] BY <2>2 DEF Mail!Requests
  <2>4. q.key = request[s].key /\ q.content = request[s].content OBVIOUS
  <2> HIDE DEF q
  <2>5. MailShape' BY <2>1, <2>3 DEF MailShape
  <2>6. \A t \in Senders : t # s => phase'[t] = phase[t] BY <2>1 DEF MailShape
  <2>7. phase'[s] = "waiting" BY <2>1 DEF MailShape
  <2>8. \A t \in Senders : t # s /\ Owns(t) => request[t].key # request[s].key
    BY <2>2 DEF Reserved
  <2>9. \A t \in Senders : t # s /\ Owns(t) /\ Unsent(request[t].key) => Unsent(request[t].key)'
    BY <2>1, <2>4, <2>8 DEF Unsent
  <2>10. \A t \in Senders : Owns(t)' => Owns(t) BY <2>2, <2>6, <2>7 DEF Owns
  <2>11. Reserved'
    <3>1. \A t \in Senders : phase'[t] = "reserved" => Unsent(request[t].key)'
      BY <2>6, <2>7, <2>9 DEF Reserved, Owns
    <3>2. \A t \in Senders : phase'[t] = "answered" =>
            /\ answer[t] \in Mail!Answers
            /\ answer[t].says \in Mail!Refusals => Unsent(request[t].key)'
            /\ answer[t].says = "accepted" => Message(request[t], answer[t].id) \in mailbox
      BY <2>6, <2>7, <2>9 DEF Reserved, Owns
    <3>3. \A t \in Senders : phase'[t] # "idle" => request[t] \in Mail!Requests
      BY <2>2, <2>6 DEF Reserved
    <3>4. \A t \in Senders : Owns(t)' =>
            /\ Mail!Row(t)' # Nothing /\ Mail!Row(t)'.status = "sending"
            /\ Mail!Row(t)'.content = request[t].content
      BY <2>1, <2>10 DEF Reserved, Mail!Row
    <3> QED BY <2>1, <2>10, <3>1, <3>2, <3>3, <3>4 DEF Reserved, Message
  <2>12. Posted' BY <2>1, <2>2, <2>4 DEF Posted, Unsent, Mail!Row
  <2> QED BY <2>5, <2>11, <2>12
<1>2. CASE Mail!GiveUp(s)
  <2>1. /\ phase[s] = "waiting" /\ answer' = [answer EXCEPT ![s] = Mail!Says("unclear")]
        /\ phase' = [phase EXCEPT ![s] = "answered"]
        /\ UNCHANGED <<sends, request, inFlight, mailbox, suppressed, made>>
    BY <1>2 DEF Mail!GiveUp
  <2>2. /\ Mail!Says("unclear") \in Mail!Answers /\ Mail!Says("unclear").says = "unclear"
        /\ "unclear" \notin Mail!Refusals
    BY DEF Mail!Says, Mail!Answers, Mail!Refusals
  <2>3. MailShape' BY <2>1, <2>2 DEF MailShape
  <2>4. \A t \in Senders : t # s => phase'[t] = phase[t] /\ answer'[t] = answer[t]
    BY <2>1 DEF MailShape
  <2>5. phase'[s] = "answered" /\ answer'[s] = Mail!Says("unclear") BY <2>1 DEF MailShape
  <2>6. \A t \in Senders : Owns(t)' => Owns(t) BY <2>1, <2>4 DEF Owns
  <2>7. Reserved'
    <3>1. \A t \in Senders : phase'[t] = "answered" =>
            /\ answer'[t] \in Mail!Answers
            /\ answer'[t].says \in Mail!Refusals => Unsent(request[t].key)
            /\ answer'[t].says = "accepted" => Message(request[t], answer'[t].id) \in mailbox
      BY <2>2, <2>4, <2>5 DEF Reserved
    <3>2. \A t \in Senders : /\ phase'[t] = "reserved" => phase[t] = "reserved"
                             /\ phase'[t] # "idle" => phase[t] # "idle"
      BY <2>1, <2>4, <2>5
    <3> QED BY <2>1, <2>6, <3>1, <3>2 DEF Reserved, Unsent, Message, Mail!Row
  <2>8. Posted' BY <2>1 DEF Posted
  <2> QED BY <2>3, <2>7, <2>8
<1> QED BY <1>1, <1>2

\* An answer tells its call something only while the call still waits for it.
LEMMA AnsweredFacts ==
  ASSUME MailShape, NEW r \in inFlight, NEW a \in Mail!Answers, Mail!Answered(r, a)
  PROVE  /\ phase' \in [Senders -> {"idle", "ready", "reserved", "waiting", "answered"}]
         /\ answer' \in [Senders -> Mail!Answers \cup {Nothing}]
         /\ \A t \in Senders :
              \/ phase'[t] = phase[t] /\ answer'[t] = answer[t]
              \/ /\ phase[t] = "waiting" /\ phase'[t] = "answered" /\ answer'[t] = a
                 /\ request[t].key = r.key /\ request[t].content = r.content
<1>1. r.sender \in Senders BY DEF MailShape
<1>2. CASE Mail!Awaits(r)
  <2>1. answer' = [answer EXCEPT ![r.sender] = a] /\ phase' = [phase EXCEPT ![r.sender] = "answered"]
    BY <1>2 DEF Mail!Answered
  <2>2. phase[r.sender] = "waiting" /\ request[r.sender].key = r.key
        /\ request[r.sender].content = r.content
    BY <1>2 DEF Mail!Awaits
  <2> QED BY <1>1, <2>1, <2>2 DEF MailShape
<1>3. CASE ~ Mail!Awaits(r)
  BY <1>3 DEF Mail!Answered, MailShape
<1> QED BY <1>2, <1>3

LEMMA SameCardinality == Mail!Cardinality(mailbox) = Cardinality(mailbox)
BY DEF Mail!Cardinality, Cardinality, Mail!IsFiniteSet, IsFiniteSet

LEMMA GmailInv ==
  ASSUME MailInv, NEW r \in inFlight, Mail!Accept(r) \/ Mail!Refuse(r)
  PROVE  MailInv'
<1> USE DEF MailInv
<1>0. /\ r.key \in Keys /\ r.content \in Contents
      /\ sends[r.key] # Nothing /\ sends[r.key].content = r.content
      /\ sends[r.key].status \in {"sending", "unknown"}
      /\ \A m \in mailbox : m.key # r.key
      /\ \A q \in inFlight : q.key = r.key => q = r
  BY DEF MailShape, Posted
<1>1. CASE Mail!Accept(r)
  <2> DEFINE new == Cardinality(mailbox) + 1
             m == Message(r, new)
  <2>1. /\ mailbox' = mailbox \cup {m} /\ inFlight' = inFlight \ {r}
        /\ UNCHANGED <<sends, request, suppressed, made>>
    BY <1>1, SameCardinality DEF Mail!Accept, Message
  <2>2. PICK a \in {Mail!Names(new), Mail!Says("unclear")} : Mail!Answered(r, a)
    BY <1>1, SameCardinality DEF Mail!Accept
  <2>3. new \in Mail!Ids BY FS_CardinalityType DEF MailShape, Mail!Ids
  <2>4. /\ a \in Mail!Answers /\ a.says \notin Mail!Refusals
        /\ a.says = "accepted" => a.id = new
    BY <2>2, <2>3 DEF Mail!Names, Mail!Says, Mail!Answers, Mail!Refusals
  <2>5. m \in Mail!Messages /\ m.key = r.key /\ m.content = r.content
    BY <1>0, <2>3 DEF Message, Mail!Messages
  <2>6. IsFiniteSet(mailbox') BY <2>1, FS_AddElement DEF MailShape
  <2> HIDE DEF new
  <2>7. /\ phase' \in [Senders -> {"idle", "ready", "reserved", "waiting", "answered"}]
        /\ answer' \in [Senders -> Mail!Answers \cup {Nothing}]
        /\ \A t \in Senders :
             \/ phase'[t] = phase[t] /\ answer'[t] = answer[t]
             \/ /\ phase[t] = "waiting" /\ phase'[t] = "answered" /\ answer'[t] = a
                /\ request[t].key = r.key /\ request[t].content = r.content
    BY <2>2, <2>4, AnsweredFacts
  <2>8. MailShape' BY <2>1, <2>5, <2>6, <2>7 DEF MailShape
  <2>9. \A k : Unsent(k) => k # r.key BY DEF Unsent
  <2> HIDE DEF m
  <2>10. \A k : Unsent(k) => Unsent(k)' BY <2>1, <2>5, <2>9 DEF Unsent
  <2>11. Reserved'
    <3>1. ASSUME NEW t \in Senders, phase'[t] = "answered"
          PROVE  /\ answer'[t] \in Mail!Answers
                 /\ answer'[t].says \in Mail!Refusals => Unsent(request[t].key)'
                 /\ answer'[t].says = "accepted" => Message(request[t], answer'[t].id) \in mailbox'
      <4>1. CASE phase'[t] = phase[t] /\ answer'[t] = answer[t]
        BY <2>1, <2>10, <3>1, <4>1 DEF Reserved
      <4>2. CASE answer'[t] = a /\ request[t].key = r.key /\ request[t].content = r.content
        BY <2>1, <2>4, <4>2 DEF Message, m
      <4> QED BY <2>7, <4>1, <4>2
    <3>2. \A t \in Senders : /\ phase'[t] = "reserved" => phase[t] = "reserved"
                             /\ phase'[t] # "idle" => phase[t] # "idle"
                             /\ Owns(t)' => Owns(t)
      BY <2>7 DEF Owns
    <3>3. \A t \in Senders : phase'[t] = "reserved" => Unsent(request[t].key)'
      BY <2>1, <2>10, <3>2 DEF Reserved
    <3> QED BY <2>1, <3>1, <3>2, <3>3 DEF Reserved, Message, Mail!Row
  <2>12. Posted' BY <1>0, <2>1, <2>5 DEF Posted
  <2> QED BY <2>8, <2>11, <2>12
<1>2. CASE Mail!Refuse(r)
  <2>1. /\ inFlight' = inFlight \ {r} /\ UNCHANGED <<sends, request, mailbox, suppressed, made>>
    BY <1>2 DEF Mail!Refuse
  <2>2. PICK what \in Mail!Refusals \cup {"unclear"} : Mail!Answered(r, Mail!Says(what))
    BY <1>2 DEF Mail!Refuse
  <2> DEFINE a == Mail!Says(what)
  <2>4. a \in Mail!Answers /\ a.says # "accepted"
    BY <2>2 DEF Mail!Says, Mail!Answers, Mail!Refusals
  <2> HIDE DEF a
  <2>7. /\ phase' \in [Senders -> {"idle", "ready", "reserved", "waiting", "answered"}]
        /\ answer' \in [Senders -> Mail!Answers \cup {Nothing}]
        /\ \A t \in Senders :
             \/ phase'[t] = phase[t] /\ answer'[t] = answer[t]
             \/ /\ phase[t] = "waiting" /\ phase'[t] = "answered" /\ answer'[t] = a
                /\ request[t].key = r.key /\ request[t].content = r.content
    BY <2>2, <2>4, AnsweredFacts DEF a
  <2>8. MailShape' BY <2>1, <2>7 DEF MailShape
  <2>9. Unsent(r.key)' BY <1>0, <2>1 DEF Unsent
  <2>10. \A k : Unsent(k) => Unsent(k)' BY <2>1 DEF Unsent
  <2>11. Reserved'
    <3>1. ASSUME NEW t \in Senders, phase'[t] = "answered"
          PROVE  /\ answer'[t] \in Mail!Answers
                 /\ answer'[t].says \in Mail!Refusals => Unsent(request[t].key)'
                 /\ answer'[t].says = "accepted" => Message(request[t], answer'[t].id) \in mailbox
      <4>1. CASE phase'[t] = phase[t] /\ answer'[t] = answer[t]
        BY <2>1, <2>10, <3>1, <4>1 DEF Reserved
      <4>2. CASE answer'[t] = a /\ request[t].key = r.key
        BY <2>1, <2>4, <2>9, <4>2
      <4> QED BY <2>7, <4>1, <4>2
    <3>2. \A t \in Senders : /\ phase'[t] = "reserved" => phase[t] = "reserved"
                             /\ phase'[t] # "idle" => phase[t] # "idle"
                             /\ Owns(t)' => Owns(t)
      BY <2>7 DEF Owns
    <3>3. \A t \in Senders : phase'[t] = "reserved" => Unsent(request[t].key)'
      BY <2>1, <2>10, <3>2 DEF Reserved
    <3> QED BY <2>1, <3>1, <3>2, <3>3 DEF Reserved, Message, Mail!Row
  <2>12. Posted' BY <2>1 DEF Posted
  <2> QED BY <2>8, <2>11, <2>12
<1> QED BY <1>1, <1>2

LEMMA RecordInv ==
  ASSUME MailInv, NEW s \in Senders, Mail!Record(s) PROVE MailInv'
<1> USE DEF MailInv
<1> DEFINE k == request[s].key
           row == Mail!Outcome(sends[k], answer[s])
<1>1. /\ phase[s] = "answered" /\ sends' = [sends EXCEPT ![k] = row]
      /\ UNCHANGED <<inFlight, mailbox, suppressed, made>>
  BY DEF Mail!Record, Mail!Row
<1>2. /\ phase' = [phase EXCEPT ![s] = "idle"] /\ request' = [request EXCEPT ![s] = Nothing]
      /\ answer' = [answer EXCEPT ![s] = Nothing]
  BY DEF Mail!Record, Mail!Return
<1>3. /\ request[s] \in Mail!Requests /\ Owns(s) /\ answer[s] \in Mail!Answers
      /\ sends[k] # Nothing /\ sends[k].status = "sending" /\ sends[k].content = request[s].content
      /\ answer[s].says \in Mail!Refusals => Unsent(k)
      /\ answer[s].says = "accepted" => Message(request[s], answer[s].id) \in mailbox
  BY <1>1 DEF Reserved, Owns, Mail!Row
<1>4. k \in Keys /\ sends[k] \in Mail!SendRows BY <1>3 DEF MailShape, Mail!Requests
<1>5. \/ answer[s].says \in Mail!Refusals /\ row = Nothing
      \/ answer[s].says = "unclear" /\ row = [sends[k] EXCEPT !.status = "unknown"]
      \/ answer[s].says = "accepted" /\ row = [sends[k] EXCEPT !.status = "sent", !.id = answer[s].id]
  BY <1>3 DEF Mail!Outcome, Mail!Answers, Mail!Refusals
<1>6. IF answer[s].says \in Mail!Refusals THEN row = Nothing ELSE row \in Mail!SendRows
  <2>1. answer[s].id \in Mail!Ids \cup {Nothing} BY <1>3 DEF Mail!Answers
  <2>2. "unclear" \notin Mail!Refusals /\ "accepted" \notin Mail!Refusals BY DEF Mail!Refusals
  <2> QED BY <1>4, <1>5, <2>1, <2>2 DEF Mail!SendRows
<1>7. row # Nothing => /\ row.content = request[s].content
                       /\ row.status = "sent" => [key |-> k, content |-> row.content, id |-> row.id] \in mailbox
                       /\ row.status # "sent" => row.status = "unknown"
  BY <1>3, <1>4, <1>5 DEF Mail!SendRows, Message
<1>8. row = Nothing => Unsent(k)
  BY <1>3, <1>6, SuiteAssumption
<1> HIDE DEF row
<1>9. sends'[k] = row /\ \A l \in Keys : l # k => sends'[l] = sends[l] BY <1>1, <1>4 DEF MailShape
<1>10. MailShape' BY <1>1, <1>2, <1>4, <1>6 DEF MailShape
<1>11. \A t \in Senders : phase'[t] # "idle" =>
         t # s /\ phase'[t] = phase[t] /\ request'[t] = request[t] /\ answer'[t] = answer[t]
  BY <1>2 DEF MailShape
<1>12. \A t \in Senders : Owns(t)' => Owns(t) /\ request[t].key # k /\ request[t].key \in Keys
                                      /\ request'[t] = request[t]
  BY <1>3, <1>11 DEF Reserved, Owns, Mail!Requests
<1>13. Reserved' BY <1>1, <1>9, <1>11, <1>12 DEF Reserved, Unsent, Message, Mail!Row, Owns
<1>14. Posted'
  <2>1. \A q \in inFlight : q.key = k => row # Nothing /\ row.status = "unknown" /\ row.content = q.content
    <3>1. ASSUME NEW q \in inFlight, q.key = k, row # Nothing PROVE row.status # "sent"
      BY <1>7, <3>1 DEF Posted
    <3>2. \A q \in inFlight : q.key = k => row # Nothing BY <1>8 DEF Unsent
    <3>3. \A q \in inFlight : q.key = k => q.content = request[s].content BY <1>3 DEF Posted
    <3> QED BY <1>7, <3>1, <3>2, <3>3
  <2>2. \A m \in mailbox : m.key = k => row # Nothing /\ row.content = m.content
    BY <1>3, <1>7, <1>8 DEF Posted, Unsent
  <2>3. \A q \in inFlight : q.key \in Keys BY DEF MailShape
  <2>4. \A m \in mailbox : m.key \in Keys BY DEF MailShape, Mail!Messages
  <2>5. \A l \in Keys : sends'[l] # Nothing => (sends'[l].status = "sent" =>
          [key |-> l, content |-> sends'[l].content, id |-> sends'[l].id] \in mailbox)
    BY <1>7, <1>9 DEF Posted
  <2>6. \A q \in inFlight :
          /\ sends'[q.key] # Nothing
          /\ sends'[q.key].status \in {"sending", "unknown"} /\ sends'[q.key].content = q.content
    BY <1>9, <2>1, <2>3 DEF Posted
  <2>7. \A m \in mailbox : sends'[m.key] # Nothing /\ sends'[m.key].content = m.content
    BY <1>9, <2>2, <2>4 DEF Posted
  <2> QED BY <1>1, <2>5, <2>6, <2>7 DEF Posted
<1> QED BY <1>10, <1>13, <1>14

LEMMA MailStep == MailInv /\ [Mail!MailNext]_mailing => MailInv'
<1> SUFFICES ASSUME MailInv, [Mail!MailNext]_mailing PROVE MailInv' OBVIOUS
<1>1. CASE UNCHANGED mailing
  <2>1. MailShape' BY <1>1 DEF MailInv, MailShape, mailing
  <2>2. Reserved' BY <1>1 DEF MailInv, Reserved, Owns, Unsent, Message, Mail!Row, mailing
  <2>3. Posted' BY <1>1 DEF MailInv, Posted, mailing
  <2> QED BY <2>1, <2>2, <2>3 DEF MailInv
<1> QED BY <1>1, BeginMailInv, PostMailInv, GmailInv, RecordInv DEF Mail!MailNext

-----------------------------------------------------------------------------
(***************************************************************************)
(* The order ledger.  Every row a call holds, however stale, is as true as *)
(* the stored one, and what it computes from it and stores stays true.     *)
(***************************************************************************)
RowIsTrue(row, told) ==
  /\ row.archived \/ row.status \in Orders!Closed \/ row.delivered => row.closed
  /\ row.status = "delivered" => row.delivered
  /\ row.marks \subseteq told

RowsAreTrue ==
  /\ order # Absent => RowIsTrue(order, announced)
  /\ \A p \in Callers : at[p] \in {"write", "observing", "marking"} =>
       found[p] # Absent /\ RowIsTrue(found[p], announced)
  /\ \A p \in Callers : at[p] \in {"planned", "marking"} => order # Absent
  /\ \A p \in Callers : at[p] \in {"send", "mark", "marking"} => event[p] # Absent
  /\ \A p \in Callers : at[p] \in {"mark", "marking"} => event[p] \in announced

\* The inductive invariant.
LedgerInv == Orders!LedgerTypeOK /\ RowsAreTrue

LEMMA MakeRow ==
  ASSUME NEW s \in Statuses, NEW e \in Etas \cup {Absent}, NEW m \in SUBSET Orders!Events,
         NEW a \in BOOLEAN, NEW d \in BOOLEAN, NEW c \in BOOLEAN, NEW g \in BOOLEAN
  PROVE  [status |-> s, eta |-> e, marks |-> m, archived |-> a, delivered |-> d,
          closed |-> c, aged |-> g] \in Orders!Rows
BY Zenon DEF Orders!Rows

LEMMA RowFields ==
  ASSUME NEW row \in Orders!Rows
  PROVE  /\ row # Absent
         /\ row.status \in Statuses /\ row.eta \in Etas \cup {Absent}
         /\ row.marks \subseteq Orders!Events
         /\ row.archived \in BOOLEAN /\ row.delivered \in BOOLEAN /\ row.closed \in BOOLEAN
         /\ row.aged \in BOOLEAN
<1>1. row # Absent BY SuiteAssumption
<1>2. row.status \in Statuses /\ row.eta \in Etas \cup {Absent} /\ row.marks \in SUBSET Orders!Events
  BY Zenon DEF Orders!Rows
<1>3. /\ row.archived \in BOOLEAN /\ row.delivered \in BOOLEAN /\ row.closed \in BOOLEAN
      /\ row.aged \in BOOLEAN
  BY Zenon DEF Orders!Rows
<1> QED BY <1>1, <1>2, <1>3

LEMMA MakeArgs ==
  ASSUME NEW s \in Statuses \cup {Absent}, NEW e \in Etas \cup {Absent}, NEW b \in BOOLEAN \cup {Absent}
  PROVE  [status |-> s, eta |-> e, archive |-> b] \in Orders!Args
BY Zenon DEF Orders!Args

LEMMA ArgsFields ==
  ASSUME NEW a \in Orders!Args
  PROVE  /\ a.status \in Statuses \cup {Absent} /\ a.eta \in Etas \cup {Absent}
         /\ a.archive \in BOOLEAN \cup {Absent}
BY Zenon DEF Orders!Args

LEMMA OrFacts ==
  ASSUME NEW v \in BOOLEAN \cup {Absent}, NEW d \in BOOLEAN PROVE Orders!Or(v, d) \in BOOLEAN
BY Zenon DEF Orders!Or

LEMMA UpsertedFacts ==
  ASSUME NEW old \in Orders!Rows, NEW a \in Orders!Args
  PROVE  /\ Orders!Upserted(old, a) \in Orders!Rows
         /\ RowIsTrue(old, announced) => RowIsTrue(Orders!Upserted(old, a), announced)
<1> DEFINE s == Orders!Or(a.status, old.status)
           arch == IF s \in Orders!Closed THEN Orders!Or(a.archive, s \in {"closed", "archived"})
                   ELSE old.archived
           del == old.delivered \/ s = "delivered"
           clo == old.closed \/ s \in Orders!Closed
           new == [status |-> s, eta |-> Orders!Or(a.eta, old.eta), marks |-> old.marks,
                   archived |-> arch, delivered |-> del, closed |-> clo, aged |-> FALSE]
<1>1. Orders!Upserted(old, a) = new BY DEF Orders!Upserted, Orders!Closes
<1>2. s \in Statuses /\ Orders!Or(a.eta, old.eta) \in Etas \cup {Absent}
  BY RowFields, ArgsFields DEF Orders!Or
<1>3. arch \in BOOLEAN
  <2>1. a.archive \in BOOLEAN \cup {Absent} /\ old.archived \in BOOLEAN BY ArgsFields, RowFields
  <2>2. (s \in {"closed", "archived"}) \in BOOLEAN OBVIOUS
  <2>3. Orders!Or(a.archive, s \in {"closed", "archived"}) \in BOOLEAN BY <2>1, <2>2, OrFacts, Zenon
  <2> QED BY <2>1, <2>3, Zenon
<1>4. del \in BOOLEAN /\ clo \in BOOLEAN BY RowFields
<1>5. old.marks \in SUBSET Orders!Events BY RowFields
<1> HIDE DEF s, arch, del, clo
<1>6. new \in Orders!Rows BY <1>2, <1>3, <1>4, <1>5, MakeRow
<1>7. ASSUME RowIsTrue(old, announced) PROVE RowIsTrue(new, announced)
  <2>1. arch \/ s \in Orders!Closed \/ del => clo
    <3>1. CASE s \in Orders!Closed BY <3>1 DEF clo
    <3>2. CASE s \notin Orders!Closed
      <4>1. arch = old.archived /\ s # "delivered" BY <3>2 DEF arch, Orders!Closed
      <4>2. (old.archived \/ old.delivered) => old.closed BY <1>7 DEF RowIsTrue
      <4> QED BY <3>2, <4>1, <4>2, Zenon DEF del, clo
    <3> QED BY <3>1, <3>2
  <2>2. s = "delivered" => del BY DEF del
  <2> QED BY <1>7, <2>1, <2>2 DEF RowIsTrue
<1> QED BY <1>1, <1>6, <1>7

LEMMA FreshFacts == Orders!Fresh \in Orders!Rows /\ RowIsTrue(Orders!Fresh, announced)
<1>1. Orders!Fresh \in Orders!Rows BY SuiteAssumption, MakeRow DEF Orders!Fresh
<1>2. RowIsTrue(Orders!Fresh, announced) BY DEF Orders!Fresh, RowIsTrue, Orders!Closed
<1> QED BY <1>1, <1>2

LEMMA NoArgsFacts == Orders!NoArgs \in Orders!Args
BY MakeArgs DEF Orders!NoArgs

LEMMA LedgerInitInv == Orders!LedgerInit => LedgerInv
<1> SUFFICES ASSUME Orders!LedgerInit PROVE LedgerInv OBVIOUS
<1>1. Orders!LedgerTypeOK
  BY NoArgsFacts, SuiteAssumption DEF Orders!LedgerInit, Orders!LedgerTypeOK
<1> QED BY <1>1 DEF Orders!LedgerInit, LedgerInv, RowsAreTrue

Spots == {"idle", "planned", "observing", "preview", "upsert", "write", "send", "mark", "marking"}

\* One call goes to a place, with arguments, a row and an event.
Turns(p, to, ar, fo, ev) ==
  /\ at' = [at EXCEPT ![p] = to] /\ args' = [args EXCEPT ![p] = ar]
  /\ found' = [found EXCEPT ![p] = fo] /\ event' = [event EXCEPT ![p] = ev]

\* What a step of one call has to show for itself; the other calls only need
\* that the order is not gone and that what was announced stays so.
LEMMA CallStep ==
  ASSUME LedgerInv, NEW p \in Callers,
         order' \in Orders!Rows \cup {Absent}, order # Absent => order' # Absent,
         order' # Absent => RowIsTrue(order', announced'),
         announced \subseteq announced', announced' \subseteq Orders!Events,
         calls' \in 0 .. MaxCalls,
         NEW to \in Spots, NEW ar \in Orders!Args,
         NEW fo \in Orders!Rows \cup {Absent}, NEW ev \in Orders!Events \cup {Absent},
         Turns(p, to, ar, fo, ev),
         to \in {"write", "observing", "marking"} => fo # Absent /\ RowIsTrue(fo, announced'),
         to \in {"planned", "marking"} => order' # Absent,
         to \in {"send", "mark", "marking"} => ev # Absent,
         to \in {"mark", "marking"} => ev \in announced'
  PROVE  LedgerInv'
<1> USE DEF LedgerInv, Turns
<1>1. Orders!LedgerTypeOK'
  <2>1. at' \in [Callers -> Spots] BY DEF Orders!LedgerTypeOK, Spots
  <2>2. args' \in [Callers -> Orders!Args] BY DEF Orders!LedgerTypeOK
  <2>3. found' \in [Callers -> Orders!Rows \cup {Absent}] BY DEF Orders!LedgerTypeOK
  <2>4. event' \in [Callers -> Orders!Events \cup {Absent}] BY DEF Orders!LedgerTypeOK
  <2> QED BY <2>1, <2>2, <2>3, <2>4 DEF Orders!LedgerTypeOK, Spots
<1>2. /\ at'[p] = to /\ found'[p] = fo /\ event'[p] = ev
      /\ \A q \in Callers : q # p => at'[q] = at[q] /\ found'[q] = found[q] /\ event'[q] = event[q]
  BY DEF Orders!LedgerTypeOK
<1>3. ASSUME NEW q \in Callers, at'[q] \in {"write", "observing", "marking"}
      PROVE  found'[q] # Absent /\ RowIsTrue(found'[q], announced')
  <2>1. CASE q = p BY <1>2, <1>3, <2>1 DEF RowIsTrue
  <2>2. CASE q # p
    <3>1. found[q] # Absent /\ RowIsTrue(found[q], announced) BY <1>2, <1>3, <2>2 DEF RowsAreTrue
    <3> QED BY <1>2, <2>2, <3>1 DEF RowIsTrue
  <2> QED BY <2>1, <2>2
<1>4. \A q \in Callers : at'[q] \in {"planned", "marking"} => order' # Absent
  BY <1>2 DEF RowsAreTrue
<1>5. \A q \in Callers : at'[q] \in {"send", "mark", "marking"} => event'[q] # Absent
  BY <1>2 DEF RowsAreTrue
<1>6. \A q \in Callers : at'[q] \in {"mark", "marking"} => event'[q] \in announced'
  BY <1>2 DEF RowsAreTrue
<1>7. RowsAreTrue' BY <1>3, <1>4, <1>5, <1>6 DEF RowsAreTrue
<1> QED BY <1>1, <1>7

LEMMA Itself ==
  ASSUME NEW S, NEW T, NEW f \in [S -> T], NEW x \in S PROVE f = [f EXCEPT ![x] = f[x]]
OBVIOUS

LEMMA CallFacts ==
  ASSUME LedgerInv, NEW p \in Callers
  PROVE  /\ args[p] \in Orders!Args /\ found[p] \in Orders!Rows \cup {Absent}
         /\ event[p] \in Orders!Events \cup {Absent} /\ at[p] \in Spots
         /\ args = [args EXCEPT ![p] = args[p]] /\ found = [found EXCEPT ![p] = found[p]]
         /\ event = [event EXCEPT ![p] = event[p]]
         /\ order \in Orders!Rows \cup {Absent} /\ announced \subseteq Orders!Events
         /\ calls \in 0 .. MaxCalls
<1>1. /\ args \in [Callers -> Orders!Args] /\ found \in [Callers -> Orders!Rows \cup {Absent}]
      /\ event \in [Callers -> Orders!Events \cup {Absent}] /\ at \in [Callers -> Spots]
  BY DEF LedgerInv, Orders!LedgerTypeOK, Spots
<1>2. /\ args = [args EXCEPT ![p] = args[p]] /\ found = [found EXCEPT ![p] = found[p]]
      /\ event = [event EXCEPT ![p] = event[p]]
  BY <1>1, Itself
<1> QED BY <1>1, <1>2 DEF LedgerInv, Orders!LedgerTypeOK

LEMMA EnterFacts ==
  ASSUME LedgerInv, NEW p \in Callers, Orders!Enter(p)
  PROVE  at[p] = "idle" /\ calls' \in 0 .. MaxCalls
BY SuiteAssumption, CallFacts DEF Orders!Enter

\* A call that ends leaves nothing behind but what it wrote.
LEMMA LeaveInv ==
  ASSUME LedgerInv, NEW p \in Callers, Orders!Leave(p),
         order' \in Orders!Rows \cup {Absent}, order # Absent => order' # Absent,
         order' # Absent => RowIsTrue(order', announced),
         announced' = announced, calls' \in 0 .. MaxCalls
  PROVE  LedgerInv'
<1>1. /\ at' = [at EXCEPT ![p] = "idle"] /\ args' = [args EXCEPT ![p] = Orders!NoArgs]
      /\ found' = [found EXCEPT ![p] = Absent] /\ event' = [event EXCEPT ![p] = Absent]
  BY DEF Orders!Leave, Orders!Go, Orders!Pass
<1>2. "idle" \in Spots BY DEF Spots
<1>9. Turns(p, "idle", Orders!NoArgs, Absent, Absent) BY <1>1, <1>2 DEF Turns
<1> QED BY <1>9, <1>1, <1>2, NoArgsFacts, CallFacts, CallStep

LEMMA EnterInv ==
  ASSUME LedgerInv, NEW p \in Callers,
         \/ \E a \in Orders!Args : Orders!CallUpsert(p, a)
         \/ \E s \in Statuses, b \in BOOLEAN : Orders!CallClose(p, s, b)
         \/ \E e \in Orders!Events : Orders!CallMark(p, e)
         \/ Orders!Plan(p)
  PROVE  LedgerInv'
<1>0. /\ {"upsert", "mark", "planned"} \subseteq Spots
      /\ order # Absent => RowIsTrue(order, announced)
  BY DEF Spots, LedgerInv, RowsAreTrue
<1>1. ASSUME NEW a \in Orders!Args, Orders!CallUpsert(p, a) PROVE LedgerInv'
  <2>1. /\ at' = [at EXCEPT ![p] = "upsert"] /\ args' = [args EXCEPT ![p] = a]
        /\ UNCHANGED <<order, found, event, announced>> /\ Orders!Enter(p)
    BY <1>1 DEF Orders!CallUpsert, Orders!Go, Orders!Pass
  <2>2. found' = [found EXCEPT ![p] = found[p]] /\ event' = [event EXCEPT ![p] = event[p]]
    BY <2>1, CallFacts
  <2>3. calls' \in 0 .. MaxCalls BY <2>1, EnterFacts
  <2>9. Turns(p, "upsert", a, found[p], event[p]) BY <2>1, <2>2, <2>3 DEF Turns
  <2> QED BY <2>9, <1>0, <2>1, <2>2, <2>3, CallFacts, CallStep
<1>2. ASSUME NEW s \in Statuses, NEW b \in BOOLEAN, Orders!CallClose(p, s, b) PROVE LedgerInv'
  <2> DEFINE a == [status |-> s, eta |-> order.eta, archive |-> b]
  <2>1. /\ at' = [at EXCEPT ![p] = "upsert"] /\ args' = [args EXCEPT ![p] = a] /\ order # Absent
        /\ UNCHANGED <<order, found, event, announced>> /\ Orders!Enter(p)
    BY <1>2 DEF Orders!CallClose, Orders!Go, Orders!Pass
  <2>2. order.eta \in Etas \cup {Absent} BY <2>1, CallFacts, RowFields
  <2>3. a \in Orders!Args BY <2>2, MakeArgs
  <2> HIDE DEF a
  <2>4. found' = [found EXCEPT ![p] = found[p]] /\ event' = [event EXCEPT ![p] = event[p]]
    BY <2>1, CallFacts
  <2>5. calls' \in 0 .. MaxCalls BY <2>1, EnterFacts
  <2>9. Turns(p, "upsert", a, found[p], event[p]) BY <2>1, <2>3, <2>4, <2>5 DEF Turns
  <2> QED BY <2>9, <1>0, <2>1, <2>3, <2>4, <2>5, CallFacts, CallStep
<1>3. ASSUME NEW e \in Orders!Events, Orders!CallMark(p, e) PROVE LedgerInv'
  <2>1. /\ at' = [at EXCEPT ![p] = "mark"] /\ event' = [event EXCEPT ![p] = e]
        /\ announced' = announced \cup {e}
        /\ UNCHANGED <<order, args, found>> /\ Orders!Enter(p)
    BY <1>3 DEF Orders!CallMark, Orders!Go
  <2>2. order' # Absent => RowIsTrue(order', announced') BY <1>0, <2>1 DEF RowIsTrue
  <2>3. e # Absent BY SuiteAssumption
  <2>4. args' = [args EXCEPT ![p] = args[p]] /\ found' = [found EXCEPT ![p] = found[p]]
    BY <2>1, CallFacts
  <2>5. calls' \in 0 .. MaxCalls BY <2>1, EnterFacts
  <2>9. Turns(p, "mark", args[p], found[p], e) BY <2>1, <2>2, <2>3, <2>4, <2>5 DEF Turns
  <2> QED BY <2>9, <1>0, <2>1, <2>2, <2>3, <2>4, <2>5, CallFacts, CallStep
<1>4. CASE Orders!Plan(p)
  <2>1. /\ at' = [at EXCEPT ![p] = "planned"] /\ order # Absent
        /\ UNCHANGED <<order, args, found, event, announced>> /\ Orders!Enter(p)
    BY <1>4 DEF Orders!Plan, Orders!Go
  <2>2. /\ args' = [args EXCEPT ![p] = args[p]] /\ found' = [found EXCEPT ![p] = found[p]]
        /\ event' = [event EXCEPT ![p] = event[p]]
    BY <2>1, CallFacts
  <2>3. calls' \in 0 .. MaxCalls BY <2>1, EnterFacts
  <2>9. Turns(p, "planned", args[p], found[p], event[p]) BY <2>1, <2>2, <2>3 DEF Turns
  <2> QED BY <2>9, <1>0, <2>1, <2>2, <2>3, CallFacts, CallStep
<1> QED BY <1>1, <1>2, <1>3, <1>4

LEMMA RefreshInv ==
  ASSUME LedgerInv, NEW p \in Callers,
         \/ Orders!ReadPlanned(p) \/ Orders!Preview(p) \/ Orders!ObserveNothing(p) \/ Orders!Die(p)
         \/ Orders!SendFailed(p)
         \/ \E s \in Statuses, e \in Etas \cup {Absent} : Orders!Observe(p, s, e)
  PROVE  LedgerInv'
<1>0. /\ {"observing", "upsert", "preview"} \subseteq Spots
      /\ order # Absent => RowIsTrue(order, announced)
  BY DEF Spots, LedgerInv, RowsAreTrue
<1>1. CASE Orders!ReadPlanned(p)
  <2>1. /\ at' = [at EXCEPT ![p] = "observing"] /\ found' = [found EXCEPT ![p] = order]
        /\ UNCHANGED <<order, args, event, announced, calls>> /\ at[p] = "planned"
    BY <1>1 DEF Orders!ReadPlanned, Orders!Go
  <2>2. order # Absent BY <2>1 DEF LedgerInv, RowsAreTrue
  <2>3. args' = [args EXCEPT ![p] = args[p]] /\ event' = [event EXCEPT ![p] = event[p]]
    BY <2>1, CallFacts
  <2>9. Turns(p, "observing", args[p], order, event[p]) BY <2>1, <2>2, <2>3 DEF Turns
  <2> QED BY <2>9, <1>0, <2>1, <2>2, <2>3, CallFacts, CallStep
<1>2. CASE Orders!Preview(p)
  <2> DEFINE e == Orders!Decision(order, args[p])
  <2>1. /\ at' = [at EXCEPT ![p] = "upsert"] /\ event' = [event EXCEPT ![p] = e]
        /\ UNCHANGED <<order, args, found, announced, calls>>
    BY <1>2 DEF Orders!Preview, Orders!Go
  <2>2. e \in Orders!Events \cup {Absent}
    BY DEF Orders!Decision, Orders!EventOf, Orders!Events
  <2> HIDE DEF e
  <2>3. args' = [args EXCEPT ![p] = args[p]] /\ found' = [found EXCEPT ![p] = found[p]]
    BY <2>1, CallFacts
  <2>9. Turns(p, "upsert", args[p], found[p], e) BY <2>1, <2>2, <2>3 DEF Turns
  <2> QED BY <2>9, <1>0, <2>1, <2>2, <2>3, CallFacts, CallStep
<1>3. ASSUME NEW s \in Statuses, NEW e \in Etas \cup {Absent}, Orders!Observe(p, s, e)
      PROVE  LedgerInv'
  <2> DEFINE a == [status |-> s, eta |-> Orders!Or(e, found[p].eta), archive |-> Absent]
  <2>1. /\ at' = [at EXCEPT ![p] = "preview"] /\ args' = [args EXCEPT ![p] = a]
        /\ found' = [found EXCEPT ![p] = Absent] /\ at[p] = "observing"
        /\ UNCHANGED <<order, event, announced, calls>>
    BY <1>3 DEF Orders!Observe, Orders!Go, Orders!Pass
  <2>2. found[p] \in Orders!Rows BY <2>1, CallFacts DEF LedgerInv, RowsAreTrue
  <2>3. Orders!Or(e, found[p].eta) \in Etas \cup {Absent} BY <2>2, RowFields DEF Orders!Or
  <2>4. a \in Orders!Args BY <2>3, MakeArgs
  <2> HIDE DEF a
  <2>5. event' = [event EXCEPT ![p] = event[p]] BY <2>1, CallFacts
  <2>9. Turns(p, "preview", a, Absent, event[p]) BY <2>1, <2>4, <2>5 DEF Turns
  <2> QED BY <2>9, <1>0, <2>1, <2>4, <2>5, CallFacts, CallStep
<1>4. CASE Orders!ObserveNothing(p) \/ Orders!Die(p) \/ Orders!SendFailed(p)
  <2>1. Orders!Leave(p) /\ UNCHANGED <<order, announced, calls>>
    BY <1>4 DEF Orders!ObserveNothing, Orders!Die, Orders!SendFailed
  <2> QED BY <1>0, <2>1, CallFacts, LeaveInv
<1> QED BY <1>1, <1>2, <1>3, <1>4

LEMMA WriteInv ==
  ASSUME LedgerInv, NEW p \in Callers, Orders!UpsertRead(p) \/ Orders!UpsertWrite(p)
  PROVE  LedgerInv'
<1>0. /\ {"write", "send"} \subseteq Spots
      /\ order # Absent => RowIsTrue(order, announced)
  BY DEF Spots, LedgerInv, RowsAreTrue
<1>1. CASE Orders!UpsertRead(p)
  <2> DEFINE row == Orders!Or(order, Orders!Fresh)
  <2>1. /\ at' = [at EXCEPT ![p] = "write"] /\ found' = [found EXCEPT ![p] = row]
        /\ UNCHANGED <<order, args, event, announced, calls>>
    BY <1>1 DEF Orders!UpsertRead, Orders!Go
  <2>2. row \in Orders!Rows /\ row # Absent /\ RowIsTrue(row, announced)
    BY <1>0, CallFacts, FreshFacts, RowFields DEF Orders!Or
  <2> HIDE DEF row
  <2>3. args' = [args EXCEPT ![p] = args[p]] /\ event' = [event EXCEPT ![p] = event[p]]
    BY <2>1, CallFacts
  <2>9. Turns(p, "write", args[p], row, event[p]) BY <2>1, <2>2, <2>3 DEF Turns
  <2> QED BY <2>9, <1>0, <2>1, <2>2, <2>3, CallFacts, CallStep
<1>2. CASE Orders!UpsertWrite(p)
  <2> DEFINE row == Orders!Upserted(found[p], args[p])
  <2>1. /\ order' = row /\ UNCHANGED <<announced, calls>> /\ at[p] = "write"
    BY <1>2 DEF Orders!UpsertWrite
  <2>2. found[p] \in Orders!Rows /\ RowIsTrue(found[p], announced)
    BY <2>1, CallFacts DEF LedgerInv, RowsAreTrue
  <2>3. row \in Orders!Rows /\ row # Absent /\ RowIsTrue(row, announced)
    BY <2>2, CallFacts, UpsertedFacts, RowFields
  <2> HIDE DEF row
  <2>4. CASE event[p] = Absent
    <3>1. Orders!Leave(p) BY <1>2, <2>4 DEF Orders!UpsertWrite
    <3> QED BY <2>1, <2>3, <3>1, CallFacts, LeaveInv
  <2>5. CASE event[p] # Absent
    <3>1. /\ at' = [at EXCEPT ![p] = "send"] /\ args' = [args EXCEPT ![p] = Orders!NoArgs]
          /\ found' = [found EXCEPT ![p] = Absent] /\ UNCHANGED event
      BY <1>2, <2>5 DEF Orders!UpsertWrite, Orders!Go, Orders!Pass
    <3>2. event' = [event EXCEPT ![p] = event[p]] BY <3>1, CallFacts
    <3>9. Turns(p, "send", Orders!NoArgs, Absent, event[p]) BY <3>1, <3>2 DEF Turns
    <3> QED BY <3>9, <1>0, <2>1, <2>3, <2>5, <3>1, <3>2, CallFacts, NoArgsFacts, CallStep
  <2> QED BY <2>4, <2>5
<1> QED BY <1>1, <1>2

LEMMA MarkInv ==
  ASSUME LedgerInv, NEW p \in Callers,
         Orders!SendAccepted(p) \/ Orders!MarkRead(p) \/ Orders!MarkWrite(p)
  PROVE  LedgerInv'
<1>0. /\ {"mark", "marking"} \subseteq Spots
      /\ order # Absent => RowIsTrue(order, announced)
  BY DEF Spots, LedgerInv, RowsAreTrue
<1>1. CASE Orders!SendAccepted(p)
  <2>1. /\ at' = [at EXCEPT ![p] = "mark"] /\ announced' = announced \cup {event[p]}
        /\ at[p] = "send" /\ UNCHANGED <<order, args, found, event, calls>>
    BY <1>1 DEF Orders!SendAccepted, Orders!Go
  <2>2. event[p] \in Orders!Events /\ event[p] # Absent
    BY <2>1, CallFacts DEF LedgerInv, RowsAreTrue
  <2>3. order' # Absent => RowIsTrue(order', announced') BY <1>0, <2>1 DEF RowIsTrue
  <2>4. /\ args' = [args EXCEPT ![p] = args[p]] /\ found' = [found EXCEPT ![p] = found[p]]
        /\ event' = [event EXCEPT ![p] = event[p]]
    BY <2>1, CallFacts
  <2>9. Turns(p, "mark", args[p], found[p], event[p]) BY <2>1, <2>2, <2>3, <2>4 DEF Turns
  <2> QED BY <2>9, <1>0, <2>1, <2>2, <2>3, <2>4, CallFacts, CallStep
<1>2. CASE Orders!MarkRead(p)
  <2>1. at[p] = "mark" /\ UNCHANGED <<order, announced, calls>> BY <1>2 DEF Orders!MarkRead
  <2>2. CASE order = Absent
    <3>1. Orders!Leave(p) BY <1>2, <2>2 DEF Orders!MarkRead
    <3> QED BY <1>0, <2>1, <3>1, CallFacts, LeaveInv
  <2>3. CASE order # Absent
    <3>1. /\ at' = [at EXCEPT ![p] = "marking"] /\ found' = [found EXCEPT ![p] = order]
          /\ UNCHANGED <<args, event>>
      BY <1>2, <2>3 DEF Orders!MarkRead, Orders!Go
    <3>2. args' = [args EXCEPT ![p] = args[p]] /\ event' = [event EXCEPT ![p] = event[p]]
      BY <3>1, CallFacts
    <3>3. event[p] # Absent /\ event[p] \in announced BY <2>1 DEF LedgerInv, RowsAreTrue
    <3>9. Turns(p, "marking", args[p], order, event[p]) BY <3>1, <3>2, <3>3 DEF Turns
    <3> QED BY <3>9, <1>0, <2>1, <2>3, <3>1, <3>2, <3>3, CallFacts, CallStep
  <2> QED BY <2>2, <2>3
<1>3. CASE Orders!MarkWrite(p)
  <2> DEFINE m == found[p].marks \cup {event[p]}
  <2>1. /\ order' = [order EXCEPT !.marks = m, !.aged = FALSE] /\ Orders!Leave(p)
        /\ UNCHANGED <<announced, calls>> /\ at[p] = "marking"
    BY <1>3 DEF Orders!MarkWrite
  <2>2. /\ order # Absent /\ found[p] # Absent /\ RowIsTrue(found[p], announced)
        /\ event[p] # Absent /\ event[p] \in announced
    BY <2>1 DEF LedgerInv, RowsAreTrue
  <2>3. order \in Orders!Rows /\ m \subseteq announced /\ m \subseteq Orders!Events
    BY <2>2, CallFacts, RowFields DEF RowIsTrue
  <2> HIDE DEF m
  <2>4. order' = [status |-> order.status, eta |-> order.eta, marks |-> m,
                  archived |-> order.archived, delivered |-> order.delivered,
                  closed |-> order.closed, aged |-> FALSE]
    BY <2>1, <2>3, Zenon DEF Orders!Rows
  <2>5. order' \in Orders!Rows BY <2>3, <2>4, MakeRow, RowFields
  <2>6. RowIsTrue(order', announced) BY <1>0, <2>2, <2>3, <2>4 DEF RowIsTrue
  <2>7. order' # Absent BY <2>5, RowFields
  <2> QED BY <2>1, <2>5, <2>6, <2>7, CallFacts, LeaveInv
<1> QED BY <1>1, <1>2, <1>3

LEMMA LedgerStep == LedgerInv /\ [Orders!LedgerNext]_ordering => LedgerInv'
<1> SUFFICES ASSUME LedgerInv, [Orders!LedgerNext]_ordering PROVE LedgerInv' OBVIOUS
<1>1. CASE UNCHANGED ordering
  <2>1. Orders!LedgerTypeOK' BY <1>1 DEF LedgerInv, Orders!LedgerTypeOK, ordering
  <2>2. RowsAreTrue' BY <1>1 DEF LedgerInv, RowsAreTrue, ordering
  <2> QED BY <2>1, <2>2 DEF LedgerInv
<1>2. CASE Orders!Age
  <2>1. /\ order # Absent /\ order' = [order EXCEPT !.aged = TRUE]
        /\ UNCHANGED <<at, args, found, event, announced, calls>>
    BY <1>2 DEF Orders!Age
  <2>2. order \in Orders!Rows BY <2>1 DEF LedgerInv, Orders!LedgerTypeOK
  <2>3. order' = [status |-> order.status, eta |-> order.eta, marks |-> order.marks,
                  archived |-> order.archived, delivered |-> order.delivered,
                  closed |-> order.closed, aged |-> TRUE]
    BY <2>1, <2>2, Zenon DEF Orders!Rows
  <2>4. order' \in Orders!Rows /\ order' # Absent
    <3>1. order.marks \in SUBSET Orders!Events BY <2>2, RowFields
    <3>2. order' \in Orders!Rows BY <2>2, <2>3, <3>1, MakeRow, RowFields
    <3> QED BY <3>2, RowFields
  <2>5. Orders!LedgerTypeOK' BY <2>1, <2>4 DEF LedgerInv, Orders!LedgerTypeOK
  <2>6. RowIsTrue(order', announced) BY <2>1, <2>3 DEF LedgerInv, RowsAreTrue, RowIsTrue
  <2>7. RowsAreTrue' BY <2>1, <2>4, <2>6 DEF LedgerInv, RowsAreTrue
  <2> QED BY <2>5, <2>7 DEF LedgerInv
<1> QED BY <1>1, <1>2, EnterInv, RefreshInv, WriteInv, MarkInv DEF Orders!LedgerNext

-----------------------------------------------------------------------------
(***************************************************************************)
(* The workbench.  All changes an operation posts name the revision it was *)
(* asked to change, and a session at that revision is changed only once;   *)
(* an operation that has not posted has made nothing.                      *)
(***************************************************************************)
Before == {"called", "leased", "armed"}
After == {"sent", "answered"}
BenchStates == [at : {"idle", "called", "leased", "armed", "sent", "answered"},
                op : 0 .. MaxInputs]
Revs == 1 .. MaxRevision

BenchShape ==
  /\ revision \in 0 .. MaxRevision /\ inputs \in 0 .. MaxInputs
  /\ author \in [Revs -> (1 .. inputs) \cup {Free}]
  /\ step \in [Agents -> BenchStates]
  /\ expected \in [Agents -> 0 .. MaxRevision]
  /\ underway \subseteq [op : 1 .. inputs, revision : 0 .. MaxRevision, again : BOOLEAN]
  /\ reply \in [Agents -> {"none", "accepted", "refused"}]
  /\ confirmed \subseteq (1 .. inputs) \X Revs

\* An operation belongs to one request, and stands for a number given out.
OpsAreOwn ==
  /\ \A a \in Agents : step[a].at # "idle" => step[a].op \in 1 .. inputs
  /\ \A a, b \in Agents : step[a].at # "idle" /\ step[b].at # "idle" /\ step[a].op = step[b].op
       => a = b

\* Nothing of an operation has gone out, or what has is for its revision.
HasPosted(a) ==
  /\ \A r \in underway : r.op = step[a].op => step[a].at \in After /\ r.revision = expected[a]
  /\ \A q \in Revs : author[q] = step[a].op => step[a].at \in After /\ q = expected[a] + 1
  /\ reply[a] = "accepted" => step[a].at \in After /\ author[expected[a] + 1] = step[a].op
                              /\ expected[a] + 1 \in Revs

Posts ==
  /\ \A a \in Agents : step[a].at # "idle" => HasPosted(a)
  /\ \A r, o \in underway : r.op = o.op => r.revision = o.revision
  /\ \A r \in underway, q \in Revs : author[q] = r.op => q = r.revision + 1

Authors ==
  /\ \A q \in Revs : q > revision => author[q] = Free
  /\ \A q, r \in Revs : author[q] = author[r] /\ author[q] # Free => q = r
  /\ \A c \in confirmed : author[c[2]] = c[1]

\* The inductive invariant.
BenchInv == BenchShape /\ OpsAreOwn /\ Posts /\ Authors

LEMMA BenchInitInv == Bench!BenchInit => BenchInv
<1> SUFFICES ASSUME Bench!BenchInit PROVE BenchInv OBVIOUS
<1>1. /\ revision = 0 /\ inputs = 0 /\ underway = {} /\ confirmed = {}
      /\ author = [r \in Revs |-> Free] /\ step = [a \in Agents |-> [at |-> "idle", op |-> 0]]
      /\ expected = [a \in Agents |-> 0] /\ reply = [a \in Agents |-> "none"]
  BY DEF Bench!BenchInit, Revs
<1>2. MaxRevision \in Nat /\ MaxInputs \in Nat /\ Free \notin Nat BY SuiteAssumption
<1>3. BenchShape BY <1>1, <1>2 DEF BenchShape, BenchStates, Revs
<1> QED BY <1>1, <1>2, <1>3 DEF BenchInv, OpsAreOwn, Posts, Authors

\* A step that gives up operations, or takes none further, and neither posts
\* nor serves.
LEMMA GiveUpInv ==
  ASSUME BenchInv, step' \in [Agents -> BenchStates],
         reply' \in [Agents -> {"none", "accepted", "refused"}],
         \A a \in Agents : \/ step'[a].at = "idle"
                           \/ step'[a] = step[a] /\ reply'[a] = reply[a],
         revision' \in {revision, revision + 1}, revision' <= MaxRevision,
         UNCHANGED <<author, expected, underway, confirmed, inputs>>
  PROVE  BenchInv'
<1> USE DEF BenchInv
<1>1. BenchShape' BY SuiteAssumption DEF BenchShape
<1>2. OpsAreOwn' BY DEF OpsAreOwn
<1>3. ASSUME NEW a \in Agents, step'[a].at # "idle" PROVE HasPosted(a)'
  <2>1. step'[a] = step[a] /\ reply'[a] = reply[a] /\ HasPosted(a) BY <1>3 DEF Posts
  <2> QED BY <2>1 DEF HasPosted
<1>4. Posts' BY <1>3 DEF Posts
<1>5. Authors' BY SuiteAssumption DEF Authors, BenchShape, Revs
<1> QED BY <1>1, <1>2, <1>4, <1>5

\* A step of one operation that makes and confirms nothing: it goes further, and
\* may post, but only from "armed" on.
LEMMA FurtherInv ==
  ASSUME BenchInv, NEW a \in Agents, step[a].at # "idle", step' \in [Agents -> BenchStates],
         step'[a].op = step[a].op \/ step'[a].at = "idle",
         step[a].at \in After => step'[a].at \in After \cup {"idle"},
         \A b \in Agents : b # a => step'[b] = step[b],
         underway' = underway
           \/ /\ step[a].at \in {"armed", "sent"} /\ step'[a].at \in {"sent", "idle"}
              /\ \E again \in BOOLEAN : underway' = underway \cup {Bench!Request(a, again)},
         UNCHANGED <<revision, author, expected, reply, confirmed, inputs>>
  PROVE  BenchInv'
<1> USE DEF BenchInv
<1>1. step[a].op \in 1 .. inputs /\ HasPosted(a) BY DEF OpsAreOwn, Posts
<1>2. \A r \in underway' : r \in underway \/ (/\ r.op = step[a].op /\ r.revision = expected[a]
                                              /\ step'[a].at \in {"sent", "idle"})
  BY DEF Bench!Request, Bench!op
<1>3. BenchShape'
  <2>1. \A again \in BOOLEAN : Bench!Request(a, again)
          \in [op : 1 .. inputs, revision : 0 .. MaxRevision, again : BOOLEAN]
    <3>1. expected[a] \in 0 .. MaxRevision BY DEF BenchShape
    <3> QED BY <1>1, <3>1, Zenon DEF Bench!Request, Bench!op
  <2>2. underway' \subseteq [op : 1 .. inputs, revision : 0 .. MaxRevision, again : BOOLEAN]
    BY <2>1 DEF BenchShape
  <2> QED BY <2>2 DEF BenchShape
<1>4. OpsAreOwn' BY DEF OpsAreOwn
<1>5. ASSUME NEW b \in Agents, step'[b].at # "idle" PROVE HasPosted(b)'
  <2>1. CASE b = a
    <3>1. step'[a].op = step[a].op BY <1>5, <2>1
    <3>2. \A r \in underway' : r.op = step[a].op => step'[a].at \in After /\ r.revision = expected[a]
      BY <1>1, <1>2, <1>5, <2>1 DEF HasPosted, After
    <3> QED BY <1>1, <1>5, <2>1, <3>1, <3>2 DEF HasPosted
  <2>2. CASE b # a
    <3>1. step'[b] = step[b] /\ HasPosted(b) /\ step[b].op # step[a].op
      BY <1>5, <2>2 DEF Posts, OpsAreOwn
    <3>2. \A r \in underway' : r.op = step[b].op => r \in underway BY <1>2, <3>1
    <3> QED BY <3>1, <3>2 DEF HasPosted
  <2> QED BY <2>1, <2>2
<1>6. \A r, o \in underway' : r.op = o.op => r.revision = o.revision
  BY <1>1, <1>2 DEF Posts, HasPosted
<1>7. \A r \in underway', q \in Revs : author[q] = r.op => q = r.revision + 1
  BY <1>1, <1>2 DEF Posts, HasPosted
<1>8. Posts' BY <1>5, <1>6, <1>7 DEF Posts
<1>9. Authors' BY DEF Authors
<1> QED BY <1>3, <1>4, <1>8, <1>9

LEMMA ReceiveInv ==
  ASSUME BenchInv, NEW a \in Agents, NEW n \in 0 .. revision, Bench!Receive(a, n) PROVE BenchInv'
<1> USE DEF BenchInv
<1>0. /\ step[a].at = "idle" /\ inputs < MaxInputs /\ inputs' = inputs + 1
      /\ step' = [step EXCEPT ![a] = [at |-> "called", op |-> inputs + 1]]
      /\ expected' = [expected EXCEPT ![a] = n] /\ reply' = [reply EXCEPT ![a] = "none"]
      /\ UNCHANGED <<revision, author, underway, confirmed>>
  BY DEF Bench!Receive
<1>1. /\ inputs \in Nat /\ inputs' \in Nat /\ MaxInputs \in Nat /\ inputs' \in 0 .. MaxInputs
      /\ 1 .. inputs \subseteq 1 .. inputs' /\ inputs + 1 \notin 1 .. inputs
      /\ inputs + 1 \in 1 .. inputs' /\ inputs + 1 # Free /\ inputs + 1 \in 0 .. MaxInputs
  BY <1>0, SuiteAssumption DEF BenchShape
<1>2. \A b \in Agents : IF b = a
        THEN /\ step'[b] = [at |-> "called", op |-> inputs + 1]
             /\ expected'[b] = n /\ reply'[b] = "none"
        ELSE step'[b] = step[b] /\ expected'[b] = expected[b] /\ reply'[b] = reply[b]
  BY <1>0 DEF BenchShape
<1>3. BenchShape'
  <2>1. author' \in [Revs -> (1 .. inputs') \cup {Free}] BY <1>0, <1>1 DEF BenchShape
  <2>2. step' \in [Agents -> BenchStates]
    <3>1. [at |-> "called", op |-> inputs + 1] \in BenchStates BY <1>1 DEF BenchStates
    <3> QED BY <1>0, <3>1 DEF BenchShape
  <2>3. expected' \in [Agents -> 0 .. MaxRevision]
    <3>1. n \in 0 .. MaxRevision BY SuiteAssumption DEF BenchShape
    <3> QED BY <1>0, <3>1 DEF BenchShape
  <2>4. underway' \subseteq [op : 1 .. inputs', revision : 0 .. MaxRevision, again : BOOLEAN]
    <3>1. \A r \in [op : 1 .. inputs, revision : 0 .. MaxRevision, again : BOOLEAN] :
            r \in [op : 1 .. inputs', revision : 0 .. MaxRevision, again : BOOLEAN]
      BY <1>1, Zenon
    <3> QED BY <1>0, <3>1 DEF BenchShape
  <2>5. reply' \in [Agents -> {"none", "accepted", "refused"}] BY <1>0 DEF BenchShape
  <2>6. confirmed' \subseteq (1 .. inputs') \X Revs BY <1>0, <1>1 DEF BenchShape
  <2> QED BY <1>0, <1>1, <2>1, <2>2, <2>3, <2>4, <2>5, <2>6 DEF BenchShape
<1>4. OpsAreOwn' BY <1>1, <1>2 DEF OpsAreOwn
<1>5. \A r \in underway : r.op \in 1 .. inputs BY DEF BenchShape
<1>6. \A q \in Revs : author[q] \in (1 .. inputs) \cup {Free} BY DEF BenchShape
<1>7. ASSUME NEW b \in Agents, step'[b].at # "idle" PROVE HasPosted(b)'
  <2>1. CASE b = a BY <1>0, <1>1, <1>2, <1>5, <1>6, <2>1 DEF HasPosted
  <2>2. CASE b # a
    <3>1. HasPosted(b) BY <1>2, <1>7, <2>2 DEF Posts
    <3> QED BY <1>0, <1>2, <2>2, <3>1 DEF HasPosted
  <2> QED BY <2>1, <2>2
<1>8. Posts' BY <1>0, <1>7 DEF Posts
<1>9. Authors' BY <1>0 DEF Authors
<1> QED BY <1>3, <1>4, <1>8, <1>9

LEMMA ServeInv ==
  ASSUME BenchInv, NEW r \in underway, Bench!Serve(r) PROVE BenchInv'
<1> USE DEF BenchInv
<1> DEFINE applied == lease = "star" /\ revision = r.revision
<1>0. /\ underway' = underway \ {r} /\ UNCHANGED <<step, expected, confirmed, inputs>>
      /\ applied => revision < MaxRevision
      /\ revision' = IF applied THEN revision + 1 ELSE revision
      /\ author' = IF applied THEN [author EXCEPT ![revision + 1] = r.op] ELSE author
      /\ reply' = [a \in Agents |-> IF step[a].at = "sent" /\ step[a].op = r.op
                                      THEN IF applied THEN "accepted" ELSE "refused"
                                      ELSE reply[a]]
  BY DEF Bench!Serve, Bench!op
<1>1. /\ revision \in Nat /\ MaxRevision \in Nat /\ inputs \in Nat /\ Free \notin Nat
      /\ r.op \in 1 .. inputs /\ r.revision \in 0 .. MaxRevision /\ r.op # Free
  BY SuiteAssumption DEF BenchShape
<1>2. ASSUME NEW a \in Agents, step[a].at = "sent", step[a].op = r.op
      PROVE  expected[a] = r.revision
  BY <1>2 DEF Posts, HasPosted
<1>3. applied => revision + 1 \in Revs /\ author[revision + 1] = Free
  BY <1>0, <1>1 DEF Revs, Authors
<1>4. \A q \in Revs : IF applied /\ q = revision + 1 THEN author'[q] = r.op
                                                     ELSE author'[q] = author[q]
  BY <1>0 DEF BenchShape
<1>5. \A a \in Agents :
        \/ step[a].at = "sent" /\ step[a].op = r.op
             /\ reply'[a] = IF applied THEN "accepted" ELSE "refused"
        \/ reply'[a] = reply[a]
  BY <1>0
<1>6. applied \in BOOLEAN OBVIOUS
<1>7. applied => r.revision = revision OBVIOUS
<1>8. revision' \in 0 .. MaxRevision /\ (applied => revision' = revision + 1)
      /\ (~applied => revision' = revision)
  BY <1>0, <1>1 DEF BenchShape
<1>9. BenchShape'
  <2>1. author' \in [Revs -> (1 .. inputs') \cup {Free}] BY <1>0, <1>1 DEF BenchShape
  <2>2. reply' \in [Agents -> {"none", "accepted", "refused"}] BY <1>0 DEF BenchShape
  <2> QED BY <1>0, <1>8, <2>1, <2>2 DEF BenchShape
<1> HIDE DEF applied
<1>10. OpsAreOwn' BY <1>0 DEF OpsAreOwn
<1>11. ASSUME NEW a \in Agents, step[a].at # "idle" PROVE HasPosted(a)'
  <2>1. HasPosted(a) /\ expected[a] \in 0 .. MaxRevision BY <1>11 DEF Posts, BenchShape
  <2>2. \A o \in underway' : o.op = step[a].op => step[a].at \in After /\ o.revision = expected[a]
    BY <1>0, <2>1 DEF HasPosted
  <2>3. \A q \in Revs : author'[q] = step[a].op => step[a].at \in After /\ q = expected[a] + 1
    BY <1>4, <1>7, <2>1 DEF HasPosted
  <2>4. ASSUME reply'[a] = "accepted"
        PROVE  step[a].at \in After /\ author'[expected[a] + 1] = step[a].op /\ expected[a] + 1 \in Revs
    <3>1. CASE reply'[a] = reply[a]
      <4>1. step[a].at \in After /\ author[expected[a] + 1] = step[a].op /\ expected[a] + 1 \in Revs
        BY <2>1, <2>4, <3>1 DEF HasPosted
      <4>2. step[a].op # Free BY <1>1, <1>11 DEF OpsAreOwn
      <4> QED BY <1>3, <1>4, <4>1, <4>2
    <3>2. CASE step[a].at = "sent" /\ step[a].op = r.op /\ applied
      BY <1>2, <1>3, <1>4, <1>7, <3>2 DEF After
    <3> QED BY <1>5, <2>4, <3>1, <3>2
  <2> QED BY <1>0, <2>2, <2>3, <2>4 DEF HasPosted
<1>12. \A o \in underway', q \in Revs : author'[q] = o.op => q = o.revision + 1
  BY <1>0, <1>4, <1>7 DEF Posts
<1>13. Posts' BY <1>0, <1>11, <1>12 DEF Posts
<1>14. Authors'
  <2>1. \A q \in Revs : q > revision' => author'[q] = Free
    BY <1>1, <1>4, <1>8 DEF Authors, Revs
  <2>2. \A q \in Revs : author[q] = r.op /\ applied => q = revision + 1
    BY <1>7 DEF Posts
  <2>3. \A p, q \in Revs : author'[p] = author'[q] /\ author'[p] # Free => p = q
    BY <1>4, <2>2 DEF Authors
  <2>4. \A c \in confirmed : c[2] \in Revs /\ c[1] \in 1 .. inputs BY DEF BenchShape
  <2>5. \A c \in confirmed : author'[c[2]] = c[1]
    BY <1>1, <1>3, <1>4, <2>4 DEF Authors
  <2> QED BY <1>0, <2>1, <2>3, <2>5 DEF Authors
<1> QED BY <1>9, <1>10, <1>13, <1>14

LEMMA ConfirmInv ==
  ASSUME BenchInv, NEW a \in Agents, Bench!Confirm(a) PROVE BenchInv'
<1> USE DEF BenchInv
<1>0. /\ step[a].at = "answered" /\ reply[a] = "accepted" /\ revision = expected[a] + 1
      /\ confirmed' = confirmed \cup {<<step[a].op, revision>>}
      /\ step' = [step EXCEPT ![a] = [at |-> "idle", op |-> 0]]
      /\ UNCHANGED <<revision, author, expected, underway, reply, inputs>>
  BY DEF Bench!Confirm, Bench!ReceiptVerified, Bench!op
<1>1. /\ step[a].op \in 1 .. inputs /\ author[revision] = step[a].op /\ revision \in Revs
  BY <1>0 DEF OpsAreOwn, Posts, HasPosted
<1>2. step' \in [Agents -> BenchStates]
  <2>1. [at |-> "idle", op |-> 0] \in BenchStates BY SuiteAssumption DEF BenchStates
  <2> QED BY <1>0, <2>1 DEF BenchShape
<1>3. \A b \in Agents : IF b = a THEN step'[b].at = "idle" ELSE step'[b] = step[b]
  BY <1>0 DEF BenchShape
<1>4. BenchShape' BY <1>0, <1>1, <1>2 DEF BenchShape
<1>5. OpsAreOwn' BY <1>0, <1>3 DEF OpsAreOwn
<1>6. ASSUME NEW b \in Agents, step'[b].at # "idle" PROVE HasPosted(b)'
  <2>1. step'[b] = step[b] /\ HasPosted(b) BY <1>3, <1>6 DEF Posts
  <2> QED BY <1>0, <2>1 DEF HasPosted
<1>7. Posts' BY <1>0, <1>6 DEF Posts
<1>8. Authors' BY <1>0, <1>1 DEF Authors
<1> QED BY <1>4, <1>5, <1>7, <1>8

LEMMA AgentInv ==
  ASSUME BenchInv, NEW a \in Agents,
         \/ Bench!Lease(a) \/ Bench!Arm(a) \/ Bench!Post(a) \/ Bench!PostAgain(a)
         \/ Bench!Respond(a) \/ Bench!Abandon(a)
  PROVE  BenchInv'
<1>1. step \in [Agents -> BenchStates] /\ [at |-> "idle", op |-> 0] \in BenchStates
  BY SuiteAssumption DEF BenchInv, BenchShape, BenchStates
<1>2. ASSUME NEW place \in {"leased", "armed", "sent", "answered"}, Bench!Advance(a, place)
      PROVE  /\ step' \in [Agents -> BenchStates]
             /\ step'[a].op = step[a].op /\ step'[a].at = place
             /\ \A b \in Agents : b # a => step'[b] = step[b]
  <2>1. [step[a] EXCEPT !.at = place] \in BenchStates BY <1>1, <1>2 DEF BenchStates
  <2>2. step' = [step EXCEPT ![a] = [step[a] EXCEPT !.at = place]] BY <1>2 DEF Bench!Advance
  <2>3. step'[a] = [step[a] EXCEPT !.at = place] BY <1>1, <2>2
  <2>4. step[a] \in BenchStates BY <1>1
  <2> QED BY <1>1, <2>1, <2>2, <2>3, <2>4 DEF BenchStates
<1>3. ASSUME step' = [step EXCEPT ![a] = [at |-> "idle", op |-> 0]]
      PROVE  /\ step' \in [Agents -> BenchStates] /\ step'[a].at = "idle"
             /\ \A b \in Agents : b # a => step'[b] = step[b]
  BY <1>1, <1>3
<1>4. CASE Bench!Lease(a)
  <2>1. /\ Bench!Advance(a, "leased") /\ step[a].at = "called"
        /\ UNCHANGED <<revision, author, expected, underway, reply, confirmed, inputs>>
    BY <1>4 DEF Bench!Lease
  <2> QED BY <1>2, <2>1, FurtherInv DEF After
<1>5. CASE Bench!Arm(a)
  <2>1. /\ Bench!Advance(a, "armed") /\ step[a].at = "leased"
        /\ UNCHANGED <<revision, author, expected, underway, reply, confirmed, inputs>>
    BY <1>5 DEF Bench!Arm
  <2> QED BY <1>2, <2>1, FurtherInv DEF After
<1>6. CASE Bench!Post(a)
  <2>1. /\ Bench!Advance(a, "sent") /\ step[a].at = "armed"
        /\ underway' = underway \cup {Bench!Request(a, FALSE)}
        /\ UNCHANGED <<revision, author, expected, reply, confirmed, inputs>>
    BY <1>6 DEF Bench!Post
  <2> QED BY <1>2, <2>1, FurtherInv DEF After
<1>7. CASE Bench!PostAgain(a)
  <2>1. /\ step' = [step EXCEPT ![a] = [at |-> "idle", op |-> 0]] /\ step[a].at = "sent"
        /\ underway' = underway \cup {Bench!Request(a, TRUE)}
        /\ UNCHANGED <<revision, author, expected, reply, confirmed, inputs>>
    BY <1>7 DEF Bench!PostAgain
  <2> QED BY <1>3, <2>1, FurtherInv DEF After
<1>8. CASE Bench!Respond(a)
  <2>1. /\ Bench!Advance(a, "answered") /\ step[a].at = "sent"
        /\ UNCHANGED <<revision, author, expected, underway, reply, confirmed, inputs>>
    BY <1>8 DEF Bench!Respond
  <2> QED BY <1>2, <2>1, FurtherInv DEF After
<1>9. CASE Bench!Abandon(a)
  <2>1. /\ step' = [step EXCEPT ![a] = [at |-> "idle", op |-> 0]] /\ step[a].at # "idle"
        /\ UNCHANGED <<revision, author, expected, underway, reply, confirmed, inputs>>
    BY <1>9 DEF Bench!Abandon
  <2> QED BY <1>3, <2>1, FurtherInv
<1> QED BY <1>4, <1>5, <1>6, <1>7, <1>8, <1>9

LEMMA OutsideInv ==
  ASSUME BenchInv,
         \/ Bench!Share \/ Bench!Browse \/ Bench!RestartFirefox \/ Bench!Edit
         \/ Bench!MoveLease \/ Bench!Control
  PROVE  BenchInv'
<1>1. /\ step \in [Agents -> BenchStates] /\ [at |-> "idle", op |-> 0] \in BenchStates
      /\ reply \in [Agents -> {"none", "accepted", "refused"}]
      /\ revision \in 0 .. MaxRevision /\ MaxRevision \in Nat
  BY SuiteAssumption DEF BenchInv, BenchShape, BenchStates
<1>2. CASE Bench!Share \/ Bench!Browse \/ Bench!MoveLease \/ Bench!Control \/ Bench!Edit
  <2>1. /\ UNCHANGED <<step, reply, author, expected, underway, confirmed, inputs>>
        /\ revision' \in {revision, revision + 1} /\ revision' <= MaxRevision
    BY <1>1, <1>2 DEF Bench!Share, Bench!Browse, Bench!MoveLease, Bench!Control, Bench!Edit
  <2> QED BY <1>1, <2>1, GiveUpInv
<1>3. CASE Bench!RestartFirefox
  <2>1. /\ UNCHANGED <<revision, author, expected, underway, confirmed, inputs>>
        /\ step' = [a \in Agents |-> IF step[a].at \in {"armed", "sent"}
                                       THEN [at |-> "idle", op |-> 0] ELSE step[a]]
        /\ reply' = [a \in Agents |-> IF step[a].at \in {"armed", "sent"} THEN "none" ELSE reply[a]]
    BY <1>3 DEF Bench!RestartFirefox
  <2>2. \A a \in Agents : \/ step'[a].at = "idle"
                          \/ step'[a] = step[a] /\ reply'[a] = reply[a]
    BY <2>1
  <2>3. step' \in [Agents -> BenchStates] /\ reply' \in [Agents -> {"none", "accepted", "refused"}]
    BY <1>1, <2>1
  <2> QED BY <1>1, <2>1, <2>2, <2>3, GiveUpInv
<1> QED BY <1>2, <1>3

LEMMA BenchStep == BenchInv /\ [Bench!BenchNext]_working => BenchInv'
<1> SUFFICES ASSUME BenchInv, [Bench!BenchNext]_working PROVE BenchInv' OBVIOUS
<1>1. CASE UNCHANGED working
  <2>1. BenchShape' BY <1>1 DEF BenchInv, BenchShape, working
  <2>2. OpsAreOwn' BY <1>1 DEF BenchInv, OpsAreOwn, working
  <2>3. Posts' BY <1>1 DEF BenchInv, Posts, HasPosted, working
  <2>4. Authors' BY <1>1 DEF BenchInv, Authors, working
  <2> QED BY <2>1, <2>2, <2>3, <2>4 DEF BenchInv
<1> QED BY <1>1, OutsideInv, AgentInv, ReceiveInv, ConfirmInv, ServeInv DEF Bench!BenchNext

\* What the invariant does not need to know: tabs, binding, lease and lock.
BenchPlaces ==
  /\ url \in [Tabs -> Bench!Urls] /\ active \in Tabs /\ bound \in Tabs \cup {Free}
  /\ lease \in {"star", "joy", Free} /\ serial \in Agents \cup {Free}

LEMMA BenchPlacesInit == Bench!BenchInit => BenchPlaces
BY DEF Bench!BenchInit, BenchPlaces, Bench!Urls

LEMMA BenchPlacesStep == BenchPlaces /\ [Bench!BenchNext]_working => BenchPlaces'
<1> SUFFICES ASSUME BenchPlaces, [Bench!BenchNext]_working PROVE BenchPlaces' OBVIOUS
<1>1. CASE UNCHANGED working BY <1>1 DEF BenchPlaces, working
<1>2. CASE \/ Bench!Share \/ Bench!Browse \/ Bench!RestartFirefox \/ Bench!Edit
           \/ Bench!MoveLease \/ Bench!Control
  BY <1>2 DEF BenchPlaces, Bench!Share, Bench!Browse, Bench!RestartFirefox, Bench!Edit,
              Bench!MoveLease, Bench!Control, Bench!Urls
<1>3. ASSUME NEW a \in Agents,
             \/ \E n \in 0 .. revision : Bench!Receive(a, n)
             \/ Bench!Lease(a) \/ Bench!Arm(a) \/ Bench!Post(a) \/ Bench!PostAgain(a)
             \/ Bench!Respond(a) \/ Bench!Confirm(a) \/ Bench!Abandon(a)
      PROVE  BenchPlaces'
  <2>1. UNCHANGED <<url, active, bound, lease>> /\ serial' \in {serial, a, Free}
    BY <1>3 DEF Bench!Receive, Bench!Lease, Bench!Arm, Bench!Post, Bench!PostAgain,
                Bench!Respond, Bench!Confirm, Bench!Abandon
  <2> QED BY <2>1 DEF BenchPlaces
<1>4. ASSUME NEW r \in underway, Bench!Serve(r) PROVE BenchPlaces'
  BY <1>4 DEF BenchPlaces, Bench!Serve
<1> QED BY <1>1, <1>2, <1>3, <1>4 DEF Bench!BenchNext

-----------------------------------------------------------------------------
(***************************************************************************)
(* The source checkout.  The run with the lock is where its plan says, on  *)
(* its way onward or back; the journal on disk holds the same transition,  *)
(* and the overlays Puppet wrote are in it or lie over the checkout.       *)
(***************************************************************************)
Changing == {"uncover", "checkout", "restore", "branch", "attach", "finish"}
Holding == {"held", "check", "journal"} \cup Changing
Resting == {"begin", "done", "failed"}

Same(p, q) ==
  /\ p.head = q.head /\ p.target = q.target /\ p.symbolic = q.symbolic
  /\ p.branch = q.branch /\ p.files = q.files /\ p.attach = q.attach

PlanIsSound(p) == p.files = owned /\ (p.symbolic => p.branch = p.head)

Onward(st) ==
  /\ st \in {"uncover", "checkout", "restore", "branch"} => branch = plan.branch
  /\ st \in {"restore", "branch", "attach"} => ~attached /\ detached = plan.target
  /\ st \in {"branch", "attach"} => plan.attach
  /\ st = "attach" => branch = plan.target
  /\ st \in {"branch", "attach", "finish"} => overlay = plan.files
  /\ st = "finish" => IF plan.attach THEN attached /\ branch = plan.target
                      ELSE ~attached /\ detached = plan.target /\ branch = plan.branch

Back(st) ==
  /\ st \in {"branch", "attach"} => ~attached /\ detached = plan.head
  /\ st = "attach" => plan.symbolic
  /\ st \in {"attach", "restore", "finish"} => branch = plan.branch
  /\ st \in {"restore", "finish"} =>
       IF plan.symbolic THEN attached ELSE ~attached /\ detached = plan.head
  /\ st = "finish" => overlay = plan.files

StageOK(st) ==
  /\ st \in {"check", "journal"} => journal = Idle
  /\ st \in {"journal"} \cup Changing => plan # Idle /\ PlanIsSound(plan)
  /\ st = "journal" => plan.undo = "no" /\ branch = plan.branch
  /\ st \in Changing => journal # Idle /\ Same(plan, journal)
  /\ st \in Changing => IF plan.undo = "no" THEN Onward(st) ELSE Back(st)

LockIsHeld ==
  /\ \A s \in Syncs : sync[s] \in Holding => running = s
  /\ running # Idle => sync[running] \in Holding

JournalIsSound ==
  /\ journal # Idle => journal.undo = "no" /\ PlanIsSound(journal)
  /\ journal = Idle => overlay = owned
  /\ attached => branch # 0

\* The inductive invariant.
SyncInv ==
  /\ Sources!SourceTypeOK
  /\ LockIsHeld
  /\ JournalIsSound
  /\ running # Idle => StageOK(sync[running])

LEMMA MakePlan ==
  ASSUME NEW h \in Sources!Commits, NEW t \in Sources!Commits, NEW y \in BOOLEAN,
         NEW b \in 0 .. MaxCommit, NEW f \in 0 .. Sources!Mixed, NEW a \in BOOLEAN,
         NEW u \in {"no", "here", "earlier"}
  PROVE  [head |-> h, target |-> t, symbolic |-> y, branch |-> b, files |-> f,
          attach |-> a, undo |-> u] \in Sources!Plans
BY Zenon DEF Sources!Plans

LEMMA PlanFields ==
  ASSUME NEW p \in Sources!Plans
  PROVE  /\ p # Idle
         /\ p.head \in Sources!Commits /\ p.target \in Sources!Commits
         /\ p.symbolic \in BOOLEAN /\ p.branch \in 0 .. MaxCommit
         /\ p.files \in 0 .. Sources!Mixed /\ p.attach \in BOOLEAN
         /\ p.undo \in {"no", "here", "earlier"}
<1>1. p # Idle BY SuiteAssumption
<1>2. /\ p.head \in Sources!Commits /\ p.target \in Sources!Commits /\ p.branch \in 0 .. MaxCommit
      /\ p.files \in 0 .. Sources!Mixed /\ p.undo \in {"no", "here", "earlier"}
  BY Zenon DEF Sources!Plans
<1>3. p.symbolic \in BOOLEAN /\ p.attach \in BOOLEAN BY Zenon DEF Sources!Plans
<1> QED BY <1>1, <1>2, <1>3

LEMMA UndoneFacts ==
  ASSUME NEW p \in Sources!Plans, NEW u \in {"here", "earlier"}
  PROVE  /\ [p EXCEPT !.undo = u] \in Sources!Plans
         /\ [p EXCEPT !.undo = u].undo = u
         /\ Same([p EXCEPT !.undo = u], p)
<1>1. [p EXCEPT !.undo = u] = [head |-> p.head, target |-> p.target, symbolic |-> p.symbolic,
                               branch |-> p.branch, files |-> p.files, attach |-> p.attach,
                               undo |-> u]
  BY DEF Sources!Plans
<1>2. u \in {"no", "here", "earlier"} OBVIOUS
<1>3. [p EXCEPT !.undo = u] \in Sources!Plans
  <2>1. [head |-> p.head, target |-> p.target, symbolic |-> p.symbolic, branch |-> p.branch,
         files |-> p.files, attach |-> p.attach, undo |-> u] \in Sources!Plans
    BY <1>2, MakePlan, PlanFields
  <2> QED BY <1>1, <2>1
<1> DEFINE q == [p EXCEPT !.undo = u]
<1>4. /\ q.undo = u /\ q.head = p.head /\ q.target = p.target /\ q.symbolic = p.symbolic
      /\ q.branch = p.branch /\ q.files = p.files /\ q.attach = p.attach
  BY <1>1, Zenon
<1> HIDE DEF q
<1>5. Same(q, p) BY <1>4, Zenon DEF Same
<1>6. q \in Sources!Plans BY <1>3 DEF q
<1> QED BY <1>4, <1>5, <1>6, Zenon DEF q

LEMMA SourceInitInv == Sources!SourceInit => SyncInv
<1> SUFFICES ASSUME Sources!SourceInit PROVE SyncInv OBVIOUS
<1>1. /\ 1 \in Sources!Commits /\ MaxRuns \in Nat /\ MaxWrites \in Nat /\ MaxCommit \in Nat
      /\ 0 \in 0 .. MaxCommit /\ 0 \in 0 .. Sources!Mixed
  BY SuiteAssumption DEF Sources!Commits, Sources!Mixed
<1>2. Sources!SourceTypeOK
  <2>1. branch \in 0 .. MaxCommit BY <1>1 DEF Sources!SourceInit, Sources!Commits
  <2>2. sync \in [Syncs -> {"done"}] /\ pinned \in [Syncs -> BOOLEAN]
    BY DEF Sources!SourceInit
  <2>3. sync \in [Syncs -> {"begin", "held", "check", "journal", "uncover", "checkout",
                            "restore", "branch", "attach", "finish", "done", "failed"}]
    BY <2>2
  <2>4. gitBusy \in BOOLEAN /\ attached \in BOOLEAN BY Zenon DEF Sources!SourceInit
  <2>5. tree \in 0 .. MaxCommit /\ runs \in 0 .. MaxRuns /\ owned \in 0 .. MaxWrites
    BY <1>1 DEF Sources!SourceInit, Sources!Commits
  <2> QED BY <1>1, <2>1, <2>2, <2>3, <2>4, <2>5 DEF Sources!SourceInit, Sources!SourceTypeOK
<1>3. LockIsHeld /\ JournalIsSound
  BY DEF Sources!SourceInit, LockIsHeld, JournalIsSound, Holding, Changing
<1> QED BY <1>2, <1>3 DEF Sources!SourceInit, SyncInv

\* The types of all but the places of the runs and the lock.
RestTypes ==
  /\ pinned \in [Syncs -> BOOLEAN]
  /\ plan \in Sources!Plans \cup {Idle} /\ journal \in Sources!Plans \cup {Idle}
  /\ attached \in BOOLEAN /\ detached \in Sources!Commits /\ branch \in 0 .. MaxCommit
  /\ tree \in 0 .. MaxCommit
  /\ overlay \in 0 .. Sources!Mixed
  /\ gitBusy \in BOOLEAN
  /\ owned \in 0 .. MaxWrites /\ remote \in Sources!Commits /\ runs \in 0 .. MaxRuns

LEMMA SplitTypes ==
  /\ Sources!SourceTypeOK <=>
       RestTypes /\ sync \in [Syncs -> Holding \cup Resting] /\ running \in Syncs \cup {Idle}
  /\ Sources!SourceTypeOK' <=>
       RestTypes' /\ sync' \in [Syncs -> Holding \cup Resting] /\ running' \in Syncs \cup {Idle}
<1>1. Holding \cup Resting = {"begin", "held", "check", "journal", "uncover", "checkout",
                              "restore", "branch", "attach", "finish", "done", "failed"}
  BY DEF Holding, Resting, Changing
<1> QED BY <1>1 DEF Sources!SourceTypeOK, RestTypes

\* A run that ends gives the lock up and leaves the journal.
LEMMA EndedInv ==
  ASSUME SyncInv, NEW s \in Syncs, running = s, NEW to \in {"done", "failed"},
         Sources!Release(s, to), (RestTypes /\ JournalIsSound)'
  PROVE  SyncInv'
<1>1. /\ sync' = [sync EXCEPT ![s] = to] /\ running' = Idle BY DEF Sources!Release, Sources!To
<1>2. sync' \in [Syncs -> Holding \cup Resting]
  <2>1. sync \in [Syncs -> Holding \cup Resting] BY SplitTypes DEF SyncInv
  <2> QED BY <1>1, <2>1 DEF Resting
<1>3. LockIsHeld'
  <2>1. to \notin Holding BY DEF Holding, Changing
  <2>2. \A q \in Syncs : sync'[q] = IF q = s THEN to ELSE sync[q]
    BY <1>1, SplitTypes DEF SyncInv
  <2> QED BY <1>1, <2>1, <2>2 DEF SyncInv, LockIsHeld
<1>4. Sources!SourceTypeOK' BY <1>1, <1>2, SplitTypes
<1> QED BY <1>1, <1>3, <1>4 DEF SyncInv

LEMMA WentInv ==
  ASSUME SyncInv, NEW s \in Syncs, running \in {s, Idle}, running' = s, NEW to \in Holding,
         sync' = [sync EXCEPT ![s] = to], (RestTypes /\ JournalIsSound)', StageOK(to)'
  PROVE  SyncInv'
<1>1. sync \in [Syncs -> Holding \cup Resting] BY SplitTypes DEF SyncInv
<1>2. sync' \in [Syncs -> Holding \cup Resting] BY <1>1
<1>3. LockIsHeld'
  <2>1. \A q \in Syncs : sync'[q] = IF q = s THEN to ELSE sync[q] BY <1>1
  <2>2. Idle \notin Syncs BY SuiteAssumption
  <2> QED BY <2>1, <2>2 DEF SyncInv, LockIsHeld
<1>4. Sources!SourceTypeOK' BY <1>2, SplitTypes
<1>5. sync'[running'] = to BY <1>1
<1> QED BY <1>3, <1>4, <1>5 DEF SyncInv

LEMMA SyncFacts ==
  ASSUME SyncInv
  PROVE  /\ RestTypes /\ JournalIsSound /\ Sources!Head \in Sources!Commits
         /\ sync \in [Syncs -> Holding \cup Resting] /\ Idle \notin Syncs
<1>1. RestTypes /\ JournalIsSound /\ sync \in [Syncs -> Holding \cup Resting] /\ Idle \notin Syncs
  BY SplitTypes, SuiteAssumption DEF SyncInv
<1>2. MaxCommit \in Nat BY SuiteAssumption
<1>3. Sources!Head \in Sources!Commits
  BY <1>1, <1>2 DEF RestTypes, JournalIsSound, Sources!Head, Sources!Commits
<1> QED BY <1>1, <1>3

LEMMA StageFacts ==
  ASSUME SyncInv, NEW s \in Syncs, sync[s] \in Holding
  PROVE  running = s /\ StageOK(sync[s])
BY SyncFacts DEF SyncInv, LockIsHeld

\* A step that failed: back along the plan, or the run ends.
LEMMA FailsInv ==
  ASSUME SyncInv, NEW s \in Syncs, sync[s] \in Changing, Sources!Fails(s), RestTypes',
         journal' = journal, owned' = owned, attached' => branch' # 0
  PROVE  SyncInv'
<1>1. /\ running = s /\ journal # Idle /\ plan # Idle /\ PlanIsSound(plan) /\ Same(plan, journal)
      /\ plan \in Sources!Plans /\ journal \in Sources!Plans
  BY StageFacts, SyncFacts DEF Holding, StageOK, RestTypes
<1>2. JournalIsSound' BY <1>1, SyncFacts DEF JournalIsSound, PlanIsSound
<1>3. CASE Sources!Release(s, "failed") BY <1>1, <1>2, <1>3, EndedInv
<1>4. CASE /\ sync' = [sync EXCEPT ![s] = "uncover"] /\ running' = running
           /\ plan' = [plan EXCEPT !.undo = "here"]
  <2>1. plan' \in Sources!Plans /\ plan'.undo = "here" /\ Same(plan', plan)
    BY <1>1, <1>4, UndoneFacts
  <2>2. /\ plan' # Idle /\ PlanIsSound(plan') /\ Same(plan', journal)
    BY <1>1, <2>1, PlanFields, Zenon DEF PlanIsSound, Same
  <2>3. PlanIsSound(plan)' BY <2>2 DEF PlanIsSound
  <2>4. StageOK("uncover")' BY <1>1, <2>1, <2>2, <2>3 DEF StageOK, Changing, Back
  <2>5. "uncover" \in Holding BY DEF Holding, Changing
  <2> QED BY <1>1, <1>2, <1>4, <2>4, <2>5, WentInv
<1> QED BY <1>3, <1>4 DEF Sources!Fails, Sources!To

LEMMA StartSyncInv ==
  ASSUME SyncInv, NEW s \in Syncs,
         Sources!Begin(s) \/ Sources!Acquire(s) \/ Sources!Inspect(s) \/ Sources!Die(s)
  PROVE  SyncInv'
<1>1. CASE Sources!Begin(s)
  <2>1. /\ sync[s] \in {"done", "failed"} /\ runs < MaxRuns /\ runs' = runs + 1
        /\ sync' = [sync EXCEPT ![s] = "begin"]
        /\ UNCHANGED <<running, plan, journal, attached, detached, branch, tree, overlay,
                       gitBusy, owned, remote>>
    BY <1>1 DEF Sources!Begin, Sources!To, Sources!refs, Sources!files
  <2>2. PICK p \in BOOLEAN : pinned' = [pinned EXCEPT ![s] = p] BY <1>1 DEF Sources!Begin
  <2>3. sync' \in [Syncs -> Holding \cup Resting] BY <2>1, SyncFacts DEF Resting
  <2>4. RestTypes'
    <3>1. pinned' \in [Syncs -> BOOLEAN] BY <2>2, SyncFacts, Zenon DEF RestTypes
    <3>2. runs' \in 0 .. MaxRuns BY <2>1, SyncFacts, SuiteAssumption DEF RestTypes
    <3> QED BY <2>1, <3>1, <3>2, SyncFacts DEF RestTypes
  <2>5. \A q \in Syncs : sync'[q] = IF q = s THEN "begin" ELSE sync[q] BY <2>1, SyncFacts
  <2>6. running # Idle => running # s /\ running \in Syncs
    <3>1. sync[s] \notin Holding BY <2>1 DEF Holding, Changing
    <3> QED BY <3>1, SplitTypes DEF SyncInv, LockIsHeld
  <2>7. LockIsHeld' BY <2>1, <2>5, <2>6 DEF SyncInv, LockIsHeld, Holding, Changing
  <2>8. JournalIsSound' BY <2>1, SyncFacts DEF JournalIsSound, PlanIsSound
  <2>9. ASSUME running' # Idle PROVE StageOK(sync[running])'
    <3>1. sync'[running'] = sync[running] /\ StageOK(sync[running])
      BY <2>1, <2>5, <2>6, <2>9 DEF SyncInv
    <3> DEFINE st == sync[running]
    <3> HIDE DEF st
    <3>2. StageOK(st) BY <3>1 DEF st
    <3>3. PICK to : to = st OBVIOUS
    <3>4. StageOK(to)' BY <2>1, <3>2, <3>3 DEF StageOK, Onward, Back, PlanIsSound
    <3> QED BY <3>1, <3>3, <3>4 DEF st
  <2>10. Sources!SourceTypeOK' BY <2>1, <2>3, <2>4, SplitTypes DEF SyncInv
  <2> QED BY <2>7, <2>8, <2>9, <2>10 DEF SyncInv
<1>2. CASE Sources!Acquire(s)
  <2>1. /\ running = Idle /\ running' = s /\ sync' = [sync EXCEPT ![s] = "held"]
        /\ UNCHANGED <<plan, journal, attached, detached, branch, tree, overlay,
                       gitBusy, pinned, owned, remote, runs>>
    BY <1>2 DEF Sources!Acquire, Sources!To, Sources!refs, Sources!files, Sources!others
  <2>2. RestTypes' BY <2>1, SyncFacts DEF RestTypes
  <2>3. JournalIsSound' BY <2>1, SyncFacts DEF JournalIsSound, PlanIsSound
  <2>4. StageOK("held")' BY DEF StageOK, Changing
  <2>5. "held" \in Holding BY DEF Holding
  <2> QED BY <2>1, <2>2, <2>3, <2>4, <2>5, WentInv
<1>3. CASE Sources!Inspect(s)
  <2>1. /\ sync[s] = "held"
        /\ UNCHANGED <<journal, attached, detached, branch, tree, overlay,
                       gitBusy, pinned, owned, remote, runs>>
    BY <1>3 DEF Sources!Inspect, Sources!refs, Sources!files, Sources!others
  <2>2. running = s BY <2>1, StageFacts DEF Holding
  <2>3. JournalIsSound' BY <2>1, SyncFacts DEF JournalIsSound, PlanIsSound
  <2>4. CASE Sources!Release(s, "failed")
    <3>1. RestTypes' BY <2>1, <2>4, SyncFacts DEF RestTypes, Sources!Release
    <3> QED BY <2>2, <2>3, <2>4, <3>1, EndedInv
  <2>5. CASE journal = Idle /\ sync' = [sync EXCEPT ![s] = "check"] /\ UNCHANGED <<running, plan>>
    <3>1. RestTypes' BY <2>1, <2>5, SyncFacts DEF RestTypes
    <3>2. StageOK("check")' BY <2>1, <2>5 DEF StageOK, Changing
    <3>3. "check" \in Holding BY DEF Holding
    <3> QED BY <2>2, <2>3, <2>5, <3>1, <3>2, <3>3, WentInv
  <2>6. CASE /\ journal # Idle /\ sync' = [sync EXCEPT ![s] = "uncover"]
             /\ plan' = [journal EXCEPT !.undo = "earlier"] /\ running' = running
    <3>1. journal \in Sources!Plans BY <2>6, SyncFacts DEF RestTypes
    <3>2. plan' \in Sources!Plans /\ plan'.undo = "earlier" /\ Same(plan', journal)
      BY <2>6, <3>1, UndoneFacts
    <3>3. plan' # Idle /\ PlanIsSound(plan')
      BY <2>6, <3>2, PlanFields, SyncFacts DEF PlanIsSound, JournalIsSound, Same
    <3>4. RestTypes' BY <2>1, <3>2, SyncFacts DEF RestTypes
    <3>5. PlanIsSound(plan)' BY <2>1, <3>3 DEF PlanIsSound
    <3>6. StageOK("uncover")' BY <2>1, <2>6, <3>2, <3>3, <3>5 DEF StageOK, Changing, Back
    <3>7. "uncover" \in Holding BY DEF Holding, Changing
    <3> QED BY <2>2, <2>3, <2>6, <3>4, <3>6, <3>7, WentInv
  <2> QED BY <1>3, <2>4, <2>5, <2>6 DEF Sources!Inspect, Sources!To
<1>4. CASE Sources!Die(s)
  <2>1. /\ sync[s] \notin {"begin", "done", "failed"} /\ Sources!Release(s, "failed")
        /\ UNCHANGED <<journal, attached, detached, branch, pinned, owned, remote, runs>>
    BY <1>4 DEF Sources!Die, Sources!refs, Sources!others
  <2>2. sync[s] \in Holding BY <2>1, SyncFacts DEF Resting
  <2>3. running = s /\ StageOK(sync[s]) BY <2>2, StageFacts
  <2>4. /\ overlay' = overlay \/ sync[s] \in Changing
        /\ overlay' \in {overlay, Sources!Mixed} /\ tree' \in {tree, 0}
    BY <1>4 DEF Sources!Die, Sources!files, Changing
  <2>5. gitBusy' \in BOOLEAN
    <3>1. gitBusy \in BOOLEAN BY SyncFacts DEF RestTypes
    <3>2. (sync[s] = "uncover") \in BOOLEAN OBVIOUS
    <3> QED BY <1>4, <3>1, <3>2 DEF Sources!Die, Sources!files
  <2>6. plan' = Idle BY <2>1 DEF Sources!Release
  <2>7. /\ Sources!Mixed \in 0 .. Sources!Mixed /\ 0 \in 0 .. MaxCommit
    BY SuiteAssumption DEF Sources!Mixed
  <2>8. RestTypes' BY <2>1, <2>4, <2>5, <2>6, <2>7, SyncFacts DEF RestTypes
  <2>9. sync[s] \in Changing => journal # Idle BY <2>3 DEF StageOK
  <2>10. JournalIsSound' BY <2>1, <2>4, <2>9, SyncFacts DEF JournalIsSound, PlanIsSound
  <2> QED BY <2>1, <2>3, <2>8, <2>10, EndedInv
<1> QED BY <1>1, <1>2, <1>3, <1>4

LEMMA PlanInv ==
  ASSUME SyncInv, NEW s \in Syncs, Sources!Resolve(s) \/ Sources!SaveJournal(s)
  PROVE  SyncInv'
<1>1. CASE Sources!Resolve(s)
  <2>1. /\ sync[s] = "check"
        /\ UNCHANGED <<journal, attached, detached, branch, tree, overlay,
                       gitBusy, pinned, owned, remote, runs>>
    BY <1>1 DEF Sources!Resolve, Sources!refs, Sources!files, Sources!others
  <2>2. running = s /\ journal = Idle BY <2>1, StageFacts DEF Holding, StageOK
  <2>3. JournalIsSound' BY <2>1, <2>2, SyncFacts DEF JournalIsSound
  <2>4. ASSUME NEW to \in {"done", "failed"}, Sources!Release(s, to) PROVE SyncInv'
    <3>1. RestTypes' BY <2>1, <2>4, SyncFacts DEF RestTypes, Sources!Release
    <3> QED BY <2>2, <2>3, <2>4, <3>1, EndedInv
  <2>5. ASSUME NEW target \in Sources!Targets(s), sync' = [sync EXCEPT ![s] = "journal"],
               running' = running,
               plan' = [head |-> Sources!Head, target |-> target,
                        symbolic |-> attached, branch |-> branch,
                        files |-> overlay, attach |-> ~pinned[s], undo |-> "no"]
        PROVE  SyncInv'
    <3>1. target \in Sources!Commits
      BY SyncFacts, SuiteAssumption DEF RestTypes, Sources!Targets, Sources!Commits
    <3>2. pinned[s] \in BOOLEAN
      <4>1. pinned \in [Syncs -> BOOLEAN] BY SyncFacts DEF RestTypes
      <4> QED BY <4>1, Zenon
    <3>3. (~pinned[s]) \in BOOLEAN BY <3>2, Zenon
    <3>4. plan' \in Sources!Plans
      <4>1. /\ Sources!Head \in Sources!Commits /\ attached \in BOOLEAN
            /\ branch \in 0 .. MaxCommit /\ overlay \in 0 .. Sources!Mixed
        BY SyncFacts DEF RestTypes
      <4>2. "no" \in {"no", "here", "earlier"} OBVIOUS
      <4> QED BY <2>5, <3>1, <3>3, <4>1, <4>2, MakePlan
    <3>5. /\ plan'.files = overlay /\ plan'.symbolic = attached /\ plan'.branch = branch
          /\ plan'.head = Sources!Head /\ plan'.undo = "no"
      BY <2>5
    <3>6. overlay = owned BY <2>2, SyncFacts DEF JournalIsSound
    <3>7. PlanIsSound(plan)' BY <2>1, <3>5, <3>6 DEF PlanIsSound, Sources!Head
    <3>8. plan' # Idle BY <3>4, PlanFields
    <3>9. RestTypes' BY <2>1, <3>4, SyncFacts DEF RestTypes
    <3>10. StageOK("journal")' BY <2>1, <2>2, <3>5, <3>7, <3>8 DEF StageOK, Changing
    <3>11. "journal" \in Holding BY DEF Holding
    <3> QED BY <2>2, <2>3, <2>5, <3>9, <3>10, <3>11, WentInv
  <2> QED BY <1>1, <2>4, <2>5 DEF Sources!Resolve, Sources!To
<1>2. CASE Sources!SaveJournal(s)
  <2>1. /\ sync[s] = "journal"
        /\ UNCHANGED <<attached, detached, branch, tree, overlay,
                       gitBusy, pinned, owned, remote, runs>>
    BY <1>2 DEF Sources!SaveJournal, Sources!refs, Sources!files, Sources!others
  <2>2. /\ running = s /\ journal = Idle /\ plan # Idle /\ PlanIsSound(plan)
        /\ plan.undo = "no" /\ branch = plan.branch
    BY <2>1, StageFacts DEF Holding, StageOK
  <2>3. CASE Sources!Release(s, "failed") /\ journal' = journal
    <3>1. RestTypes' BY <2>1, <2>3, SyncFacts DEF RestTypes, Sources!Release
    <3>2. JournalIsSound' BY <2>1, <2>2, <2>3, SyncFacts DEF JournalIsSound
    <3> QED BY <2>2, <2>3, <3>1, <3>2, EndedInv
  <2>4. CASE /\ journal' = plan /\ sync' = [sync EXCEPT ![s] = "uncover"]
             /\ UNCHANGED <<running, plan>>
    <3>1. RestTypes' BY <2>1, <2>4, SyncFacts DEF RestTypes
    <3>2. JournalIsSound' BY <2>1, <2>2, <2>4, SyncFacts DEF JournalIsSound, PlanIsSound
    <3>3. Same(plan', journal') BY <2>4 DEF Same
    <3>4. StageOK("uncover")'
      BY <2>1, <2>2, <2>4, <3>3 DEF StageOK, Changing, Onward, PlanIsSound, Same
    <3>5. "uncover" \in Holding BY DEF Holding, Changing
    <3> QED BY <2>2, <2>4, <3>1, <3>2, <3>4, <3>5, WentInv
  <2> QED BY <1>2, <2>3, <2>4 DEF Sources!SaveJournal, Sources!To
<1> QED BY <1>1, <1>2

\* A run that changes the checkout goes one place further.
LEMMA GoneInv ==
  ASSUME SyncInv, NEW s \in Syncs, sync[s] \in Changing, NEW to \in Changing,
         sync' = [sync EXCEPT ![s] = to],
         \/ UNCHANGED <<running, plan, journal, tree, gitBusy, pinned, owned, remote, runs>>
         \/ /\ UNCHANGED <<running, plan, journal, gitBusy, pinned, owned, remote, runs>>
            /\ tree' \in 0 .. MaxCommit,
         overlay' \in 0 .. Sources!Mixed, attached' \in BOOLEAN,
         detached' \in Sources!Commits, branch' \in 0 .. MaxCommit, attached' => branch' # 0,
         plan.undo = "no" => Onward(to)', plan.undo # "no" => Back(to)'
  PROVE  SyncInv'
<1>1. /\ running = s /\ journal # Idle /\ plan # Idle /\ PlanIsSound(plan) /\ Same(plan, journal)
  BY StageFacts DEF Holding, StageOK
<1>2. /\ UNCHANGED <<running, plan, journal, gitBusy, pinned, owned, remote, runs>>
      /\ tree' \in 0 .. MaxCommit
  BY SyncFacts DEF RestTypes
<1>3. RestTypes' BY <1>2, SyncFacts DEF RestTypes
<1>4. JournalIsSound' BY <1>1, <1>2, SyncFacts DEF JournalIsSound, PlanIsSound
<1>5. StageOK(to)' BY <1>1, <1>2 DEF StageOK, Changing, PlanIsSound, Same
<1>6. to \in Holding BY DEF Holding
<1> QED BY <1>1, <1>2, <1>3, <1>4, <1>5, <1>6, WentInv

\* What is known of the plan of a run that changes the checkout.
LEMMA ChangingFacts ==
  ASSUME SyncInv, NEW s \in Syncs, sync[s] \in Changing
  PROVE  /\ running = s /\ plan \in Sources!Plans /\ PlanIsSound(plan) /\ Same(plan, journal)
         /\ IF plan.undo = "no" THEN Onward(sync[s]) ELSE Back(sync[s])
         /\ plan.head \in Sources!Commits /\ plan.target \in Sources!Commits
         /\ plan.branch \in 0 .. MaxCommit /\ plan.files \in 0 .. Sources!Mixed
         /\ 0 \notin Sources!Commits /\ Sources!Commits \subseteq 0 .. MaxCommit
<1>1. running = s /\ StageOK(sync[s]) BY StageFacts DEF Holding
<1>2. plan \in Sources!Plans BY <1>1, SyncFacts DEF StageOK, RestTypes
<1>3. MaxCommit \in Nat BY SuiteAssumption
<1>4. 0 \notin Sources!Commits /\ Sources!Commits \subseteq 0 .. MaxCommit
  BY <1>3 DEF Sources!Commits
<1> QED BY <1>1, <1>2, <1>4, PlanFields DEF StageOK

LEMMA UncoverInv ==
  ASSUME SyncInv, NEW s \in Syncs, Sources!Uncover(s) PROVE SyncInv'
<1>1. /\ sync[s] = "uncover" /\ sync[s] \in Changing
      /\ UNCHANGED <<journal, attached, detached, branch, tree, gitBusy, pinned, owned, remote, runs>>
  BY DEF Sources!Uncover, Sources!refs, Sources!others, Changing
<1>2. Sources!Base \in 0 .. Sources!Mixed /\ Sources!Mixed \in 0 .. Sources!Mixed
  BY SuiteAssumption DEF Sources!Base, Sources!Mixed
<1>3. CASE overlay' \in {overlay, Sources!Mixed} /\ Sources!Fails(s)
  <2>1. plan' \in Sources!Plans \cup {Idle}
    <3>1. plan \in Sources!Plans BY <1>1, ChangingFacts
    <3> QED BY <1>3, <3>1, UndoneFacts DEF Sources!Fails, Sources!Release
  <2>2. RestTypes' BY <1>1, <1>2, <1>3, <2>1, SyncFacts DEF RestTypes
  <2> QED BY <1>1, <1>3, <2>2, SyncFacts, FailsInv DEF JournalIsSound
<1>4. CASE overlay' = Sources!Base /\ Sources!To(s, "checkout") /\ UNCHANGED <<running, plan>>
  <2>1. plan.undo = "no" => Onward("checkout")'
    BY <1>1, <1>4, ChangingFacts DEF Onward
  <2>2. plan.undo # "no" => Back("checkout")' BY DEF Back
  <2> QED BY <1>1, <1>2, <1>4, <2>1, <2>2, SyncFacts, GoneInv
       DEF Sources!To, RestTypes, JournalIsSound, Changing
<1> QED BY <1>3, <1>4 DEF Sources!Uncover

LEMMA FailedTypes ==
  ASSUME SyncInv, NEW s \in Syncs, sync[s] \in Changing, Sources!Fails(s)
  PROVE  plan' \in Sources!Plans \cup {Idle}
<1>1. plan \in Sources!Plans BY ChangingFacts
<1> QED BY <1>1, UndoneFacts DEF Sources!Fails, Sources!Release

LEMMA CheckoutInv ==
  ASSUME SyncInv, NEW s \in Syncs, Sources!Checkout(s) PROVE SyncInv'
<1>1. /\ sync[s] = "checkout" /\ sync[s] \in Changing
      /\ UNCHANGED <<journal, branch, overlay, gitBusy, pinned, owned, remote, runs>>
  BY DEF Sources!Checkout, Sources!others, Changing
<1>2. CASE tree' \in {tree, 0} /\ Sources!Fails(s) /\ UNCHANGED <<attached, detached>>
  <2>1. RestTypes' BY <1>1, <1>2, FailedTypes, ChangingFacts, SyncFacts, SuiteAssumption DEF RestTypes
  <2> QED BY <1>1, <1>2, <2>1, SyncFacts, FailsInv DEF JournalIsSound
<1>3. CASE /\ attached' = FALSE /\ detached' = Sources!Goal
           /\ tree' = IF tree = Sources!Head THEN Sources!Goal ELSE 0
           /\ Sources!To(s, IF Sources!Undoing THEN "branch" ELSE "restore")
           /\ UNCHANGED <<running, plan>>
  <2>1. Sources!Goal \in Sources!Commits BY <1>1, ChangingFacts DEF Sources!Goal
  <2>2. tree' \in 0 .. MaxCommit BY <1>1, <1>3, <2>1, ChangingFacts, SuiteAssumption
  <2>3. CASE plan.undo = "no"
    <3>1. Sources!Goal = plan.target /\ Sources!To(s, "restore")
      BY <1>3, <2>3 DEF Sources!Goal, Sources!Undoing
    <3>2. Onward("restore")' BY <1>1, <1>3, <2>3, <3>1, ChangingFacts DEF Onward
    <3> QED BY <1>1, <1>3, <2>1, <2>2, <2>3, <3>1, <3>2, SyncFacts, GoneInv
         DEF Sources!To, RestTypes, Changing
  <2>4. CASE plan.undo # "no"
    <3>1. Sources!Goal = plan.head /\ Sources!To(s, "branch")
      BY <1>3, <2>4 DEF Sources!Goal, Sources!Undoing
    <3>2. Back("branch")' BY <1>3, <3>1 DEF Back
    <3> QED BY <1>1, <1>3, <2>1, <2>2, <2>4, <3>1, <3>2, SyncFacts, GoneInv
         DEF Sources!To, RestTypes, Changing
  <2> QED BY <2>3, <2>4
<1> QED BY <1>2, <1>3 DEF Sources!Checkout

LEMMA RestoreInv ==
  ASSUME SyncInv, NEW s \in Syncs, Sources!Restore(s) PROVE SyncInv'
<1>1. /\ sync[s] = "restore" /\ sync[s] \in Changing
      /\ UNCHANGED <<journal, attached, detached, branch, tree, gitBusy, pinned, owned, remote, runs>>
  BY DEF Sources!Restore, Sources!refs, Sources!others, Changing
<1>2. CASE overlay' \in {overlay, Sources!Mixed} /\ Sources!Fails(s)
  <2>1. Sources!Mixed \in 0 .. Sources!Mixed BY SuiteAssumption DEF Sources!Mixed
  <2>2. RestTypes' BY <1>1, <1>2, <2>1, FailedTypes, SyncFacts DEF RestTypes
  <2> QED BY <1>1, <1>2, <2>2, SyncFacts, FailsInv DEF JournalIsSound
<1>3. CASE /\ overlay' = plan.files
           /\ Sources!To(s, IF plan.attach /\ ~Sources!Undoing THEN "branch" ELSE "finish")
           /\ UNCHANGED <<running, plan>>
  <2>1. CASE plan.undo = "no" /\ plan.attach
    <3>1. Sources!To(s, "branch") BY <1>3, <2>1 DEF Sources!Undoing
    <3>2. Onward("branch")' BY <1>1, <1>3, <2>1, ChangingFacts DEF Onward
    <3> QED BY <1>1, <1>3, <2>1, <3>1, <3>2, SyncFacts, ChangingFacts, GoneInv
         DEF Sources!To, RestTypes, JournalIsSound, Changing
  <2>2. CASE plan.undo = "no" /\ ~plan.attach
    <3>1. Sources!To(s, "finish") BY <1>3, <2>2
    <3>2. Onward("finish")' BY <1>1, <1>3, <2>2, ChangingFacts DEF Onward
    <3> QED BY <1>1, <1>3, <2>2, <3>1, <3>2, SyncFacts, ChangingFacts, GoneInv
         DEF Sources!To, RestTypes, JournalIsSound, Changing
  <2>3. CASE plan.undo # "no"
    <3>1. Sources!To(s, "finish") BY <1>3, <2>3 DEF Sources!Undoing
    <3>2. Back("finish")' BY <1>1, <1>3, <2>3, ChangingFacts DEF Back
    <3> QED BY <1>1, <1>3, <2>3, <3>1, <3>2, SyncFacts, ChangingFacts, GoneInv
         DEF Sources!To, RestTypes, JournalIsSound, Changing
  <2> QED BY <2>1, <2>2, <2>3
<1> QED BY <1>2, <1>3 DEF Sources!Restore

LEMMA RefInv ==
  ASSUME SyncInv, NEW s \in Syncs, Sources!UpdateRef(s) PROVE SyncInv'
<1>1. /\ sync[s] = "branch" /\ sync[s] \in Changing
      /\ UNCHANGED <<journal, attached, detached, tree, overlay, gitBusy, pinned, owned, remote, runs>>
  BY DEF Sources!UpdateRef, Sources!files, Sources!others, Changing
<1>2. CASE Sources!Fails(s) /\ UNCHANGED branch
  <2>1. RestTypes' BY <1>1, <1>2, FailedTypes, SyncFacts DEF RestTypes
  <2> QED BY <1>1, <1>2, <2>1, SyncFacts, FailsInv DEF JournalIsSound
<1>3. CASE /\ branch' = IF Sources!Undoing THEN plan.branch ELSE plan.target
           /\ Sources!To(s, IF Sources!Undoing /\ ~plan.symbolic THEN "restore" ELSE "attach")
           /\ UNCHANGED <<running, plan>>
  <2>1. CASE plan.undo = "no"
    <3>1. Sources!To(s, "attach") /\ branch' = plan.target BY <1>3, <2>1 DEF Sources!Undoing
    <3>2. Onward("attach")' /\ ~attached BY <1>1, <1>3, <2>1, <3>1, ChangingFacts DEF Onward
    <3>3. branch' \in 0 .. MaxCommit BY <1>1, <3>1, ChangingFacts
    <3> QED BY <1>1, <1>3, <2>1, <3>1, <3>2, <3>3, SyncFacts, GoneInv
         DEF Sources!To, RestTypes, Changing
  <2>2. CASE plan.undo # "no" /\ plan.symbolic
    <3>1. Sources!To(s, "attach") /\ branch' = plan.branch BY <1>3, <2>2 DEF Sources!Undoing
    <3>2. Back("attach")' /\ ~attached BY <1>1, <1>3, <2>2, <3>1, ChangingFacts DEF Back
    <3>3. branch' \in 0 .. MaxCommit BY <1>1, <3>1, ChangingFacts
    <3> QED BY <1>1, <1>3, <2>2, <3>1, <3>2, <3>3, SyncFacts, GoneInv
         DEF Sources!To, RestTypes, Changing
  <2>3. CASE plan.undo # "no" /\ ~plan.symbolic
    <3>1. Sources!To(s, "restore") /\ branch' = plan.branch BY <1>3, <2>3 DEF Sources!Undoing
    <3>2. Back("restore")' /\ ~attached BY <1>1, <1>3, <2>3, <3>1, ChangingFacts DEF Back
    <3>3. branch' \in 0 .. MaxCommit BY <1>1, <3>1, ChangingFacts
    <3> QED BY <1>1, <1>3, <2>3, <3>1, <3>2, <3>3, SyncFacts, GoneInv
         DEF Sources!To, RestTypes, Changing
  <2> QED BY <2>1, <2>2, <2>3
<1> QED BY <1>2, <1>3 DEF Sources!UpdateRef

LEMMA AttachInv ==
  ASSUME SyncInv, NEW s \in Syncs, Sources!SymbolicRef(s) PROVE SyncInv'
<1>1. /\ sync[s] = "attach" /\ sync[s] \in Changing
      /\ UNCHANGED <<journal, detached, branch, tree, overlay, gitBusy, pinned, owned, remote, runs>>
  BY DEF Sources!SymbolicRef, Sources!files, Sources!others, Changing
<1>2. CASE Sources!Fails(s) /\ UNCHANGED attached
  <2>1. RestTypes' BY <1>1, <1>2, FailedTypes, SyncFacts DEF RestTypes
  <2> QED BY <1>1, <1>2, <2>1, SyncFacts, FailsInv DEF JournalIsSound
<1>3. CASE /\ attached' = TRUE /\ UNCHANGED <<running, plan>>
           /\ Sources!To(s, IF Sources!Undoing THEN "restore" ELSE "finish")
  <2>1. CASE plan.undo = "no"
    <3>1. Sources!To(s, "finish") BY <1>3, <2>1 DEF Sources!Undoing
    <3>2. Onward("finish")' /\ branch = plan.target
      BY <1>1, <1>3, <2>1, ChangingFacts DEF Onward
    <3>3. branch # 0 BY <1>1, <3>2, ChangingFacts
    <3> QED BY <1>1, <1>3, <2>1, <3>1, <3>2, <3>3, SyncFacts, GoneInv
         DEF Sources!To, RestTypes, Changing
  <2>2. CASE plan.undo # "no"
    <3>1. Sources!To(s, "restore") BY <1>3, <2>2 DEF Sources!Undoing
    <3>2. Back("restore")' /\ plan.symbolic /\ branch = plan.branch
      BY <1>1, <1>3, <2>2, ChangingFacts DEF Back
    <3>3. branch # 0 BY <1>1, <3>2, ChangingFacts DEF PlanIsSound
    <3> QED BY <1>1, <1>3, <2>2, <3>1, <3>2, <3>3, SyncFacts, GoneInv
         DEF Sources!To, RestTypes, Changing
  <2> QED BY <2>1, <2>2
<1> QED BY <1>2, <1>3 DEF Sources!SymbolicRef

LEMMA FinishInv ==
  ASSUME SyncInv, NEW s \in Syncs, Sources!Finish(s) PROVE SyncInv'
<1>1. /\ sync[s] = "finish" /\ sync[s] \in Changing /\ journal' = Idle
      /\ UNCHANGED <<attached, detached, branch, tree, overlay, gitBusy, pinned, owned, remote, runs>>
  BY DEF Sources!Finish, Sources!refs, Sources!files, Sources!others, Changing
<1>2. overlay = owned BY <1>1, ChangingFacts DEF Onward, Back, PlanIsSound
<1>3. JournalIsSound' BY <1>1, <1>2, SyncFacts DEF JournalIsSound
<1>4. plan' = Idle BY DEF Sources!Finish, Sources!Release
<1>5. RestTypes' BY <1>1, <1>4, SyncFacts DEF RestTypes
<1>6. ASSUME NEW to \in {"done", "failed"}, Sources!Release(s, to) PROVE SyncInv'
  BY <1>1, <1>3, <1>5, <1>6, ChangingFacts, EndedInv
<1>7. CASE Sources!To(s, "check") /\ plan' = Idle /\ UNCHANGED running
  <2>1. StageOK("check")' BY <1>1 DEF StageOK, Changing
  <2>2. "check" \in Holding BY DEF Holding
  <2> QED BY <1>1, <1>3, <1>5, <1>7, <2>1, <2>2, ChangingFacts, WentInv DEF Sources!To
<1> QED BY <1>6, <1>7 DEF Sources!Finish

\* What others do while no run holds the lock, and pushes at any time.
LEMMA OthersInv ==
  ASSUME SyncInv, Sources!Repair \/ Sources!Puppet \/ Sources!Push PROVE SyncInv'
<1>1. UNCHANGED <<sync, running, plan, journal, pinned, attached, detached, branch, runs>>
  BY DEF Sources!Repair, Sources!Puppet, Sources!Push, Sources!refs, Sources!files, Sources!others
<1>2. \/ running = Idle /\ journal = Idle /\ overlay' = owned'
      \/ running = Idle /\ UNCHANGED <<overlay, owned>>
      \/ UNCHANGED <<overlay, owned>>
  BY DEF Sources!Repair, Sources!Puppet, Sources!Push, Sources!files, Sources!others
<1>3. RestTypes'
  <2>1. tree' \in 0 .. MaxCommit /\ gitBusy' \in BOOLEAN
    <3>1. Sources!Head \in 0 .. MaxCommit BY SyncFacts, SuiteAssumption DEF Sources!Commits
    <3>2. tree \in 0 .. MaxCommit /\ gitBusy \in BOOLEAN BY SyncFacts DEF RestTypes
    <3> QED BY <3>1, <3>2 DEF Sources!Repair, Sources!Puppet, Sources!Push, Sources!files
  <2>2. overlay' \in 0 .. Sources!Mixed /\ owned' \in 0 .. MaxWrites
    BY SyncFacts, SuiteAssumption
    DEF RestTypes, Sources!Repair, Sources!Puppet, Sources!Push, Sources!files, Sources!others,
        Sources!Mixed
  <2>3. remote' \in Sources!Commits
    BY SyncFacts, SuiteAssumption
    DEF RestTypes, Sources!Repair, Sources!Puppet, Sources!Push, Sources!others, Sources!Commits
  <2> QED BY <1>1, <2>1, <2>2, <2>3, SyncFacts DEF RestTypes
<1>4. Sources!SourceTypeOK' BY <1>1, <1>3, SplitTypes DEF SyncInv
<1>5. JournalIsSound' BY <1>1, <1>2, SyncFacts DEF JournalIsSound, PlanIsSound
<1>6. LockIsHeld' BY <1>1 DEF SyncInv, LockIsHeld
<1>7. ASSUME running' # Idle PROVE StageOK(sync[running])'
  <2>1. UNCHANGED <<overlay, owned>> /\ StageOK(sync[running]) BY <1>1, <1>2, <1>7 DEF SyncInv
  <2>2. PICK st : st = sync[running] OBVIOUS
  <2>3. StageOK(st)' BY <1>1, <2>1, <2>2 DEF StageOK, Onward, Back, PlanIsSound
  <2> QED BY <1>1, <2>2, <2>3
<1> QED BY <1>4, <1>5, <1>6, <1>7 DEF SyncInv

LEMMA SourceStep == SyncInv /\ [Sources!SourceNext]_syncing => SyncInv'
<1> SUFFICES ASSUME SyncInv, [Sources!SourceNext]_syncing PROVE SyncInv' OBVIOUS
<1>1. CASE UNCHANGED syncing
  <2>1. Sources!SourceTypeOK' BY <1>1 DEF SyncInv, Sources!SourceTypeOK, syncing
  <2>2. LockIsHeld' BY <1>1 DEF SyncInv, LockIsHeld, syncing
  <2>3. JournalIsSound' BY <1>1 DEF SyncInv, JournalIsSound, PlanIsSound, syncing
  <2>4. running' # Idle => StageOK(sync[running])'
    BY <1>1 DEF SyncInv, StageOK, Onward, Back, PlanIsSound, syncing
  <2> QED BY <2>1, <2>2, <2>3, <2>4 DEF SyncInv
<1> QED BY <1>1, OthersInv, StartSyncInv, PlanInv, UncoverInv, CheckoutInv, RestoreInv, RefInv,
           AttachInv, FinishInv DEF Sources!SourceNext, Sources!SyncStep

\* The journal goes only at the end of a transition, or of its undoing.
LEMMA FinishIsWhole ==
  ASSUME SyncInv, [Sources!SourceNext]_syncing, journal # Idle, journal' = Idle
  PROVE  Sources!Whole(journal)
<1>1. PICK s \in Syncs : Sources!Finish(s)
  <2>1. CASE UNCHANGED syncing BY <2>1 DEF syncing
  <2>2. CASE Sources!Repair \/ Sources!Puppet \/ Sources!Push
    BY <2>2 DEF Sources!Repair, Sources!Puppet, Sources!Push
  <2>3. ASSUME NEW s \in Syncs,
               \/ Sources!Begin(s) \/ Sources!Acquire(s) \/ Sources!Inspect(s)
               \/ Sources!Resolve(s) \/ Sources!Uncover(s) \/ Sources!Checkout(s)
               \/ Sources!Restore(s) \/ Sources!UpdateRef(s) \/ Sources!SymbolicRef(s)
               \/ Sources!Die(s)
        PROVE  FALSE
    BY <2>3 DEF Sources!Begin, Sources!Acquire, Sources!Inspect, Sources!Resolve,
                Sources!Uncover, Sources!Checkout, Sources!Restore, Sources!UpdateRef,
                Sources!SymbolicRef, Sources!Die
  <2>4. ASSUME NEW s \in Syncs, Sources!SaveJournal(s) PROVE FALSE
    <3>1. sync[s] = "journal" BY <2>4 DEF Sources!SaveJournal
    <3>2. journal = Idle BY <3>1, StageFacts DEF Holding, StageOK
    <3> QED BY <3>2
  <2> QED BY <2>1, <2>2, <2>3, <2>4 DEF Sources!SourceNext, Sources!SyncStep
<1>2. /\ sync[s] = "finish" /\ sync[s] \in Changing
      /\ UNCHANGED <<attached, detached, branch, overlay>>
  BY <1>1 DEF Sources!Finish, Sources!refs, Sources!files, Changing
<1>3. /\ plan \in Sources!Plans /\ PlanIsSound(plan) /\ Same(plan, journal)
      /\ IF plan.undo = "no" THEN Onward("finish") ELSE Back("finish")
  BY <1>2, ChangingFacts
<1>4. journal \in Sources!Plans /\ attached \in BOOLEAN BY SyncFacts DEF RestTypes
<1>5. journal.symbolic \in BOOLEAN /\ journal.attach \in BOOLEAN BY <1>4, PlanFields
<1>6. overlay' = journal.files BY <1>2, <1>3 DEF Onward, Back, Same
<1>7. Sources!Head' = IF attached THEN branch ELSE detached BY <1>2 DEF Sources!Head
<1>8. CASE plan.undo = "no"
  <2>1. CASE journal.attach
    <3>1. attached /\ branch = journal.target BY <1>3, <1>8, <2>1 DEF Onward, Same
    <3> QED BY <1>2, <1>4, <1>6, <1>7, <2>1, <3>1, <1>5 DEF Sources!Whole
  <2>2. CASE ~journal.attach
    <3>1. ~attached /\ detached = journal.target /\ branch = journal.branch
      BY <1>3, <1>8, <2>2 DEF Onward, Same
    <3> QED BY <1>2, <1>4, <1>6, <1>7, <2>2, <3>1, <1>5 DEF Sources!Whole
  <2> QED BY <2>1, <2>2
<1>9. CASE plan.undo # "no"
  <2>1. branch = journal.branch BY <1>3, <1>9 DEF Back, Same
  <2>2. CASE journal.symbolic
    <3>1. attached /\ branch = journal.head BY <1>3, <1>9, <2>1, <2>2 DEF Back, Same, PlanIsSound
    <3> QED BY <1>2, <1>4, <1>5, <1>6, <1>7, <2>1, <2>2, <3>1 DEF Sources!Whole
  <2>3. CASE ~journal.symbolic
    <3>1. ~attached /\ detached = journal.head BY <1>3, <1>9, <2>3 DEF Back, Same
    <3> QED BY <1>2, <1>4, <1>5, <1>6, <1>7, <2>1, <2>3, <3>1 DEF Sources!Whole
  <2> QED BY <2>2, <2>3
<1> QED BY <1>8, <1>9

LEMMA SyncIsKept ==
  ASSUME SyncInv, [Sources!SourceNext]_syncing
  PROVE  /\ Sources!OverlaysSurvive'
         /\ journal # Idle /\ journal' = Idle => Sources!Whole(journal)
<1>1. SyncInv' BY SourceStep
<1>2. Sources!OverlaysSurvive'
  BY <1>1 DEF SyncInv, JournalIsSound, PlanIsSound, Sources!OverlaysSurvive
<1> QED BY <1>2, FinishIsWhole

-----------------------------------------------------------------------------
(***************************************************************************)
(* The suite: whichever part acts, the others rest, so each part's steps   *)
(* are steps of its own specification or leave it alone.                   *)
(***************************************************************************)
PartsInv == LedgerInv /\ MailInv /\ BenchInv /\ BenchPlaces /\ SyncInv

LEMMA PartsNext ==
  ASSUME [SuiteNext]_<<part, vars, ordering, mailing, working, syncing>>
  PROVE  /\ [Orders!LedgerNext]_ordering /\ [Mail!MailNext]_mailing
         /\ [Bench!BenchNext]_working /\ [Sources!SourceNext]_syncing
BY DEF SuiteNext

\* Rows of the ledger and what is held of them are true, messages have one owner
\* per key, operations one revision each and the checkout's run follows its plan.
THEOREM SuiteInvariant == SuiteSpec => []PartsInv
<1>1. SuiteInit => PartsInv
  BY LedgerInitInv, MailInitInv, BenchInitInv, BenchPlacesInit, SourceInitInv
     DEF SuiteInit, PartsInv
<1>2. PartsInv /\ [SuiteNext]_<<part, vars, ordering, mailing, working, syncing>> => PartsInv'
  BY PartsNext, LedgerStep, MailStep, BenchStep, BenchPlacesStep, SourceStep DEF PartsInv
<1> QED BY <1>1, <1>2, PTL DEF SuiteSpec

\* The rows, messages, operations, plans and journals of the four tools keep
\* their shape in every state of the suite.
THEOREM ToolTypes == SuiteSpec => []ToolTypesOK
<1>1. PartsInv => ToolTypesOK
  <2> SUFFICES ASSUME PartsInv PROVE ToolTypesOK OBVIOUS
  <2>1. Orders!LedgerTypeOK /\ Sources!SourceTypeOK BY DEF PartsInv, LedgerInv, SyncInv
  <2>2. Mail!MailTypeOK BY DEF PartsInv, MailInv, MailShape, Mail!MailTypeOK
  <2>3. Bench!BenchTypeOK
    <3>1. /\ BenchShape /\ BenchPlaces /\ MaxRevision \in Nat /\ MaxInputs \in Nat
          /\ inputs \in 0 .. MaxInputs
      BY SuiteAssumption DEF PartsInv, BenchInv, BenchShape
    <3>2. 1 .. inputs \subseteq Bench!Operations /\ Revs \subseteq Bench!Revisions
      BY <3>1 DEF Bench!Operations, Bench!Revisions, Revs
    <3>3. author \in [1 .. MaxRevision -> Bench!Operations \cup {Free}]
      BY <3>1, <3>2 DEF BenchShape, Revs
    <3>4. underway \subseteq Bench!Guarded
      <4>1. \A r \in [op : 1 .. inputs, revision : 0 .. MaxRevision, again : BOOLEAN] :
              r \in [op : Bench!Operations, revision : 0 .. MaxRevision, again : BOOLEAN]
        BY <3>2, Zenon
      <4> QED BY <3>1, <4>1 DEF BenchShape, Bench!Guarded, Bench!Revisions
    <3>5. confirmed \subseteq Bench!Operations \X Bench!Revisions BY <3>1, <3>2 DEF BenchShape
    <3> QED BY <3>1, <3>3, <3>4, <3>5
         DEF BenchShape, BenchPlaces, BenchStates, Bench!BenchTypeOK, Bench!Revisions
  <2> QED BY <2>1, <2>2, <2>3 DEF ToolTypesOK
<1> QED BY <1>1, SuiteInvariant, PTL

\* The backups of the suite are those of HermesBackups: whatever is proved of
\* them holds here.
THEOREM SuiteRunsBackups == SuiteSpec => Spec
<1>1. SuiteInit => Init BY DEF SuiteInit
<1>2. [SuiteNext]_<<part, vars, ordering, mailing, working, syncing>> => [Next]_vars
  BY DEF SuiteNext
<1> QED BY <1>1, <1>2, PTL DEF SuiteSpec, Spec

\* Archived, closed and delivered orders carry the time they became so, and a
\* notification the ledger suppresses is one a person was told of
\* (secure_browser_legacy_support.py:1910-1961, 2246-2283).
THEOREM LedgerSafety == SuiteSpec => []LedgerIsTrue
<1>1. PartsInv => LedgerIsTrue
  BY DEF PartsInv, LedgerInv, RowsAreTrue, RowIsTrue, LedgerIsTrue, Orders!ClosingIsRecorded,
         Orders!SuppressedWasAnnounced
<1> QED BY <1>1, SuiteInvariant, PTL

\* Gmail accepts at most one message per idempotency key, however often a send
\* is repeated, given up or answered late (google_workspace_tool.py:643-687).
THEOREM MailSafety == SuiteSpec => []OneMessagePerKey
<1>1. PartsInv => OneMessagePerKey
  BY DEF PartsInv, MailInv, Posted, OneMessagePerKey, Mail!OneMessagePerKey
<1> QED BY <1>1, SuiteInvariant, PTL

\* An operation makes at most one change of the session, and one that is reported
\* as done is the author of the revision it is reported with
\* (workbench_bridge.py:862-922).
THEOREM BenchSafety == SuiteSpec => []ConfirmedIsApplied
<1>1. PartsInv => ConfirmedIsApplied
  <2> SUFFICES ASSUME PartsInv PROVE ConfirmedIsApplied OBVIOUS
  <2>1. DOMAIN author = Revs BY DEF PartsInv, BenchInv, BenchShape
  <2> QED BY <2>1 DEF PartsInv, BenchInv, Authors, ConfirmedIsApplied, Bench!ConfirmedIsApplied
<1> QED BY <1>1, SuiteInvariant, PTL

\* Puppet's files are never lost from the checkout, and the journal goes only when
\* the transition is whole or wholly undone, whatever git was killed in
\* (hermes-source-sync.py:101-114, 157-176).
THEOREM SourceSafety == SuiteSpec => SyncIsWhole
<1> DEFINE Kept == /\ Sources!OverlaysSurvive'
                   /\ journal # Idle /\ journal' = Idle => Sources!Whole(journal)
<1>1. ASSUME PartsInv, [SuiteNext]_<<part, vars, ordering, mailing, working, syncing>>
      PROVE  [Kept]_Sources!sourceVars
  BY <1>1, PartsNext, SyncIsKept DEF PartsInv
<1>2. [][PartsInv /\ [SuiteNext]_<<part, vars, ordering, mailing, working, syncing>>
           => [Kept]_Sources!sourceVars]_Sources!sourceVars
  BY <1>1, PTL
<1> QED BY <1>1, SuiteInvariant, PTL DEF SuiteSpec, SyncIsWhole, Sources!SyncIsWhole
================================================================================
