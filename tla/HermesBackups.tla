---------------------------- MODULE HermesBackups ----------------------------
(***************************************************************************)
(* The full-home backup generations of src/files/hermes-backup-generation: *)
(* capture, pruning, retention holds and the cleanup of legacy archives,   *)
(* by processes that share one directory and its .generation.lock and may  *)
(* be killed anywhere.                                                     *)
(*                                                                         *)
(* A generation is an archive and a receipt (its metadata file), linked in *)
(* that order.  An archive is the number of its capture: the bytes, their  *)
(* digest and the modification time the helper sorts by all follow it.     *)
(* verify and check-hold write nothing and are not actions; freshness and  *)
(* profile coverage only refuse, so they are left to a step not taken.     *)
(*                                                                         *)
(* flock is released by the kernel when its holder dies.  Temporary files  *)
(* other than a hold's second link are never looked at again.              *)
(***************************************************************************)
EXTENDS Integers, FiniteSets

CONSTANTS
  Checkpoints,    \* checkpoint names, one archive each
  HoldIds,        \* retention hold ids
  Processes,      \* invocations of the helper that may overlap
  Retains,        \* values of --retain in use
  Legacies,       \* archives of the retired naming scheme, oldest first
  MaxCaptures,    \* bound on captures
  None            \* no checkpoint, hold id or process

ASSUME BackupAssumption ==
  /\ Retains \subseteq Nat \ {0}
  /\ Legacies \subseteq Nat
  /\ IsFiniteSet(Checkpoints)
  /\ None \notin Checkpoints \cup HoldIds \cup Processes
  /\ MaxCaptures \in Nat

VARIABLES
  archive,    \* archive[c]: the capture published for checkpoint c, 0 if none
  receipt,    \* receipt[c]: the capture its metadata describes, 0 if none
  hold,       \* hold[i]: the hold file of id i
  legacy,     \* the legacy archives left
  lock,       \* the exclusive holder of .generation.lock
  pc,         \* pc[p]: where process p is inside the lock
  job,        \* job[p]: the checkpoint, hold and deletions p works on
  captures,   \* captures published so far
  proven      \* a receipt has been published (history)

files == <<archive, receipt, hold, legacy, captures, proven>>
vars  == <<files, lock, pc, job>>

Captures == 0 .. MaxCaptures

\* A hold names the generation it protects.  Its file has two links between
\* the no-clobber link and the unlink of the temporary, and is then unreadable.
NoHold == [links |-> 0, checkpoint |-> None, capture |-> 0]
HoldFiles == [links : {1, 2}, checkpoint : Checkpoints, capture : 1 .. MaxCaptures]

NoJob == [checkpoint |-> None, holdId |-> None, victims |-> {}]

TypeOK ==
  /\ archive \in [Checkpoints -> Captures]
  /\ receipt \in [Checkpoints -> Captures]
  /\ hold \in [HoldIds -> HoldFiles \cup {NoHold}]
  /\ legacy \subseteq Legacies
  /\ lock \in Processes \cup {None}
  /\ pc \in [Processes -> {"idle", "capture", "receipt", "plan", "remove",
                           "removeReceipt", "link", "unlink", "legacy"}]
  /\ job \in [Processes -> [checkpoint : Checkpoints \cup {None},
                            holdId : HoldIds \cup {None},
                            victims : SUBSET Checkpoints]]
  /\ \A p \in Processes :
       /\ pc[p] # "idle" => lock = p
       /\ pc[p] \in {"capture", "receipt", "removeReceipt", "link", "unlink"}
            => job[p].checkpoint \in Checkpoints
       /\ pc[p] \in {"link", "unlink"} => job[p].holdId \in HoldIds
  /\ captures \in Captures
  /\ proven \in BOOLEAN

Init ==
  /\ archive = [c \in Checkpoints |-> 0]
  /\ receipt = [c \in Checkpoints |-> 0]
  /\ hold = [i \in HoldIds |-> NoHold]
  /\ legacy = Legacies
  /\ lock = None
  /\ pc = [p \in Processes |-> "idle"]
  /\ job = [p \in Processes |-> NoJob]
  /\ captures = 0
  /\ proven = FALSE
------------------------------------------------------------------------------
Archives == {c \in Checkpoints : archive[c] # 0}

\* _read_completed_metadata: a receipt that matches the archive beside it.
Completed(c) == archive[c] # 0 /\ receipt[c] = archive[c]

\* The archives with fewer than n newer ones.
Newest(n) ==
  {c \in Archives : Cardinality({d \in Archives : archive[d] > archive[c]}) < n}

Go(p, l) == pc' = [pc EXCEPT ![p] = l]

Lock(p) == pc[p] = "idle" /\ lock = None /\ lock' = p

Finish(p) ==
  /\ Go(p, "idle")
  /\ job' = [job EXCEPT ![p] = NoJob]
  /\ lock' = IF lock = p THEN None ELSE lock

\* The process is killed, or an error ends it.
Stop(p) ==
  /\ pc[p] # "idle"
  /\ Finish(p)
  /\ UNCHANGED files
------------------------------------------------------------------------------
(* backup: create_generation.                                              *)

\* Mutant: only the archive counts as an artifact of an earlier attempt.
BeginBackupOverReceipt(p, c) ==
  /\ Lock(p)
  /\ archive[c] = 0
  /\ Go(p, "capture")
  /\ job' = [job EXCEPT ![p].checkpoint = c]
  /\ UNCHANGED files

\* A completed generation is reused and any other artifact refused; neither
\* changes anything.
BeginBackup(p, c) ==
  /\ Lock(p)
  /\ archive[c] = 0
  /\ receipt[c] = 0
  /\ Go(p, "capture")
  /\ job' = [job EXCEPT ![p].checkpoint = c]
  /\ UNCHANGED files

\* Captured and verified in local staging, transferred, linked no-clobber.
PublishArchive(p) ==
  LET c == job[p].checkpoint IN
  /\ pc[p] = "capture"
  /\ archive[c] = 0
  /\ captures < MaxCaptures
  /\ captures' = captures + 1
  /\ archive' = [archive EXCEPT ![c] = captures + 1]
  /\ Go(p, "receipt")
  /\ UNCHANGED <<receipt, hold, legacy, proven, lock, job>>

\* The receipt comes last; pruning follows unless --no-prune.
PublishReceipt(p) ==
  LET c == job[p].checkpoint IN
  /\ pc[p] = "receipt"
  /\ receipt' = [receipt EXCEPT ![c] = archive[c]]
  /\ proven' = TRUE
  /\ \/ Go(p, "plan") /\ UNCHANGED <<job, lock>>
     \/ Finish(p)
  /\ UNCHANGED <<archive, hold, legacy, captures>>
------------------------------------------------------------------------------
(* prune, alone or after a backup: _prune.                                 *)

BeginPrune(p) ==
  /\ Lock(p)
  /\ Go(p, "plan")
  /\ UNCHANGED <<files, job>>

\* _held_archives accepts a hold: readable, and its generation is there.
Sound(i) ==
  hold[i] # NoHold =>
    hold[i].links = 1 /\ Completed(hold[i].checkpoint)
      /\ archive[hold[i].checkpoint] = hold[i].capture

Held == {hold[i].checkpoint : i \in {j \in HoldIds : hold[j] # NoHold}}

\* The archives to delete: neither among the n newest, nor held, nor the one
\* just created.
Victims(p, n) == Archives \ (Newest(n) \cup Held \cup {job[p].checkpoint})

\* Mutant: one archive too few is kept.
PlanRemovalOneFewer(p, n) ==
  /\ pc[p] = "plan"
  /\ \A i \in HoldIds : Sound(i)
  /\ job' = [job EXCEPT ![p].victims = Victims(p, n - 1)]
  /\ Go(p, "remove")
  /\ UNCHANGED <<files, lock>>

\* Mutant: a damaged hold is passed over.
PlanRemovalDespiteDamage(p, n) ==
  /\ pc[p] = "plan"
  /\ job' = [job EXCEPT ![p].victims = Victims(p, n)]
  /\ Go(p, "remove")
  /\ UNCHANGED <<files, lock>>

\* Every hold is validated before anything is deleted.
PlanRemoval(p, n) ==
  /\ pc[p] = "plan"
  /\ \A i \in HoldIds : Sound(i)
  /\ job' = [job EXCEPT ![p].victims = Victims(p, n)]
  /\ Go(p, "remove")
  /\ UNCHANGED <<files, lock>>

\* Newest first: the archive, then its receipt.
RemoveArchive(p, c) ==
  /\ pc[p] = "remove"
  /\ c \in job[p].victims
  /\ \A d \in job[p].victims : archive[d] <= archive[c]
  /\ archive' = [archive EXCEPT ![c] = 0]
  /\ job' = [job EXCEPT ![p].checkpoint = c]
  /\ Go(p, "removeReceipt")
  /\ UNCHANGED <<receipt, hold, legacy, captures, proven, lock>>

RemoveReceipt(p) ==
  LET c == job[p].checkpoint IN
  /\ pc[p] = "removeReceipt"
  /\ receipt' = [receipt EXCEPT ![c] = 0]
  /\ job' = [job EXCEPT ![p].victims = @ \ {c}]
  /\ Go(p, "remove")
  /\ UNCHANGED <<archive, hold, legacy, captures, proven, lock>>

FinishPrune(p) ==
  /\ pc[p] = "remove"
  /\ job[p].victims = {}
  /\ Finish(p)
  /\ UNCHANGED files
------------------------------------------------------------------------------
(* hold and release-hold: retain_generation.                               *)

\* Mutant: the hold is created under a shared lock, like a check.
BeginHoldShared(p, i, c) ==
  /\ pc[p] = "idle"
  /\ Completed(c)
  /\ hold[i] = NoHold
  /\ job' = [job EXCEPT ![p].checkpoint = c, ![p].holdId = i]
  /\ Go(p, "link")
  /\ UNCHANGED <<files, lock>>

\* The generation is verified under the lock.  An id that is taken is either
\* the same hold again or refused.
BeginHold(p, i, c) ==
  /\ Lock(p)
  /\ Completed(c)
  /\ hold[i] = NoHold
  /\ job' = [job EXCEPT ![p].checkpoint = c, ![p].holdId = i]
  /\ Go(p, "link")
  /\ UNCHANGED files

LinkHold(p) ==
  LET i == job[p].holdId
      c == job[p].checkpoint IN
  /\ pc[p] = "link"
  /\ hold[i] = NoHold
  /\ hold' = [hold EXCEPT ![i] = [links |-> 2, checkpoint |-> c, capture |-> receipt[c]]]
  /\ Go(p, "unlink")
  /\ UNCHANGED <<archive, receipt, legacy, captures, proven, lock, job>>

UnlinkTemporary(p) ==
  /\ pc[p] = "unlink"
  /\ hold' = [hold EXCEPT ![job[p].holdId].links = 1]
  /\ Finish(p)
  /\ UNCHANGED <<archive, receipt, legacy, captures, proven>>

\* Only a readable hold of this exact generation, whose files are there.
ReleaseHold(p, i) ==
  /\ pc[p] = "idle" /\ lock = None
  /\ hold[i].links = 1
  /\ archive[hold[i].checkpoint] # 0 /\ receipt[hold[i].checkpoint] # 0
  /\ hold' = [hold EXCEPT ![i] = NoHold]
  /\ UNCHANGED <<archive, receipt, legacy, captures, proven, lock, pc, job>>
------------------------------------------------------------------------------
(* legacy-cleanup --apply: _cleanup_legacy_locked.                         *)

\* The newest generation has to be completed; it is verified in full.
BeginLegacyCleanup(p) ==
  /\ Lock(p)
  /\ Archives # {}
  /\ \A c \in Newest(1) : Completed(c)
  /\ Go(p, "legacy")
  /\ UNCHANGED <<files, job>>

\* All but the newest legacy archive go.
RemoveLegacy(p, l) ==
  /\ pc[p] = "legacy"
  /\ l \in legacy
  /\ \E k \in legacy : k > l
  /\ legacy' = legacy \ {l}
  /\ UNCHANGED <<archive, receipt, hold, captures, proven, lock, pc, job>>

FinishLegacyCleanup(p) ==
  /\ pc[p] = "legacy"
  /\ \A l \in legacy : ~ \E k \in legacy : k > l
  /\ Finish(p)
  /\ UNCHANGED files
------------------------------------------------------------------------------
Backup(p) ==
  \/ \E c \in Checkpoints : BeginBackup(p, c)
  \/ PublishArchive(p) \/ PublishReceipt(p)

Prune(p) ==
  \/ BeginPrune(p) \/ FinishPrune(p) \/ RemoveReceipt(p)
  \/ \E n \in Retains : PlanRemoval(p, n)
  \/ \E c \in Checkpoints : RemoveArchive(p, c)

Retain(p) ==
  \/ \E i \in HoldIds, c \in Checkpoints : BeginHold(p, i, c)
  \/ LinkHold(p) \/ UnlinkTemporary(p)
  \/ \E i \in HoldIds : ReleaseHold(p, i)

CleanupLegacy(p) ==
  \/ BeginLegacyCleanup(p) \/ FinishLegacyCleanup(p)
  \/ \E l \in Legacies : RemoveLegacy(p, l)

Next ==
  \E p \in Processes : Stop(p) \/ Backup(p) \/ Prune(p) \/ Retain(p) \/ CleanupLegacy(p)

Spec == Init /\ [][Next]_vars
------------------------------------------------------------------------------
(* Properties.                                                             *)

\* A published hold, even one its writer died on, keeps its exact archive and
\* receipt, whatever backups, prunes and other holds overlap and die
\* (docs/hermes-backup-retention.md: "pruning cannot run in the
\* verification/publication gap").
HeldGenerationsSurvive ==
  \A i \in HoldIds : hold[i] # NoHold =>
    /\ archive[hold[i].checkpoint] = hold[i].capture
    /\ receipt[hold[i].checkpoint] = hold[i].capture

\* A receipt beside an archive describes that archive: no sequence of killed
\* prunes and repeated backups pairs a receipt with the bytes of another
\* capture, which the size alone would not tell.
ReceiptDescribesArchive ==
  \A c \in Checkpoints :
    archive[c] # 0 /\ receipt[c] # 0 => receipt[c] = archive[c]

\* Once a receipt has been published or a legacy archive deleted, a completed
\* generation is left; only as many killed captures as a prune keeps can take
\* its place, for _prune counts archives and not generations.
UsableGenerationRemains ==
  proven \/ legacy # Legacies =>
    \/ \E c \in Checkpoints : Completed(c)
    \/ \E n \in Retains : Cardinality({c \in Archives : ~ Completed(c)}) >= n

\* Nothing is deleted while any hold is damaged: one bad record refuses the
\* entire prune (docs/hermes-backup-retention.md, "Pruning and failures").
DamagedHoldStopsPruning ==
  [][(\E c \in Checkpoints : archive[c] # 0 /\ archive'[c] = 0)
       => \A i \in HoldIds : Sound(i)]_vars
==============================================================================
