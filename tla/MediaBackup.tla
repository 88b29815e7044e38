------------------------------ MODULE MediaBackup ------------------------------
(***************************************************************************)
(* The backup of the media applications' datasets:                         *)
(* src/tasks/media_backup.py.  One atomic snapshot of all, one archive of  *)
(* it, published whole and verified, then the snapshots destroyed one by   *)
(* one and all archives but the newest two removed.                        *)
(*                                                                         *)
(* A run may fail or die between any two steps, the applications write     *)
(* meanwhile, and an operator destroys the snapshots that a failed run     *)
(* leaves.  Calls that find the lock held change nothing.  Names follow    *)
(* the clock: a run is its stamp.  External: the applications, ZFS, rsync, *)
(* which renames a whole copy into place.  Capacity is abstracted.         *)
(***************************************************************************)
EXTENDS Naturals

CONSTANTS
  Apps,         \* the applications, a dataset each
  MaxBackups,   \* bound: runs
  MaxWrites     \* bound: writes of the applications

ASSUME MediaAssumption == MaxBackups \in Nat /\ MaxWrites \in Nat

VARIABLES
  live,       \* live[a]: the writes that a's dataset holds
  stamp,      \* runs so far; the one under way, if any, is the last
  snapshots,  \* datasets that have a snapshot of a backup
  captured,   \* captured[a]: what the last snapshot of a holds
  doing,      \* where the run under way is
  copied,     \* applications copied for the archive
  staged,     \* staged[a]: what was copied of a
  kept,       \* runs whose archive is there
  archives,   \* archives[n]: what it holds
  instants,   \* instants[n]: live when run n took its snapshots (history)
  succeeded   \* runs that reported success (history)

mediaVars == <<live, stamp, snapshots, captured, doing, copied, staged, kept, archives,
               instants, succeeded>>

Stamps == 1 .. MaxBackups
Whole == [Apps -> Nat]

MediaTypeOK ==
  /\ live \in Whole /\ stamp \in 0 .. MaxBackups /\ snapshots \subseteq Apps
  /\ captured \in Whole
  /\ doing \in {"nothing", "snapshot", "stage", "publish", "destroy", "expire"}
  /\ copied \subseteq Apps /\ staged \in Whole
  /\ kept \subseteq Stamps /\ archives \in [Stamps -> Whole]
  /\ instants \in [Stamps -> Whole] /\ succeeded \subseteq Stamps

Empty == [a \in Apps |-> 0]

MediaInit ==
  /\ live = Empty /\ stamp = 0 /\ snapshots = {} /\ captured = Empty
  /\ doing = "nothing" /\ copied = {} /\ staged = Empty
  /\ kept = {} /\ archives = [n \in Stamps |-> Empty]
  /\ instants = [n \in Stamps |-> Empty] /\ succeeded = {}
-------------------------------------------------------------------------------
\* Snapshots that an earlier run left are reconciled first.
NonePending == snapshots = {}

TakeLock ==
  /\ doing = "nothing" /\ stamp < MaxBackups /\ NonePending
  /\ stamp' = stamp + 1 /\ doing' = "snapshot" /\ copied' = {}
  /\ UNCHANGED <<live, snapshots, captured, staged, kept, archives, instants, succeeded>>

TakeSnapshots ==
  /\ doing = "snapshot" /\ doing' = "stage"
  /\ snapshots' = Apps /\ captured' = live
  /\ instants' = [instants EXCEPT ![stamp] = live]
  /\ UNCHANGED <<live, stamp, copied, staged, kept, archives, succeeded>>

\* Mutant: the dataset is copied as it is mounted.
Mounted(a) == live[a]

\* The snapshot's directory.
Root(a) == captured[a]

StageApp(a) ==
  /\ doing = "stage" /\ a \in snapshots \ copied
  /\ copied' = copied \cup {a} /\ staged' = [staged EXCEPT ![a] = Root(a)]
  /\ UNCHANGED <<live, stamp, snapshots, captured, doing, kept, archives, instants, succeeded>>

Compress ==
  /\ doing = "stage" /\ copied = Apps /\ doing' = "publish"
  /\ UNCHANGED <<live, stamp, snapshots, captured, copied, staged, kept, archives, instants, succeeded>>

\* The archive appears whole, and is read there.
Appear == kept' = kept \cup {stamp} /\ archives' = [archives EXCEPT ![stamp] = staged]

Publish ==
  /\ doing = "publish" /\ doing' = "destroy" /\ Appear
  /\ UNCHANGED <<live, stamp, snapshots, captured, copied, staged, instants, succeeded>>

DestroySnapshot(a) ==
  /\ doing = "destroy" /\ a \in snapshots /\ snapshots' = snapshots \ {a}
  /\ UNCHANGED <<live, stamp, captured, doing, copied, staged, kept, archives, instants, succeeded>>

DestroyedAll ==
  /\ doing = "destroy" /\ snapshots = {} /\ doing' = "expire"
  /\ UNCHANGED <<live, stamp, snapshots, captured, copied, staged, kept, archives, instants, succeeded>>

\* Two archives are newer than any that expires, the oldest first.
NewestTwo(n) == \A m, l \in kept : ~ (n < m /\ m < l)

ExpireArchive(n) ==
  /\ doing = "expire" /\ n \in kept /\ ~ NewestTwo(n) /\ \A m \in kept : n <= m
  /\ kept' = kept \ {n}
  /\ UNCHANGED <<live, stamp, snapshots, captured, doing, copied, staged, archives, instants,
                 succeeded>>

Succeed ==
  /\ doing = "expire" /\ \A n \in kept : NewestTwo(n)
  /\ doing' = "nothing" /\ succeeded' = succeeded \cup {stamp}
  /\ UNCHANGED <<live, stamp, snapshots, captured, copied, staged, kept, archives, instants>>

\* A command fails or the process dies, perhaps after the archive appeared;
\* the staging is gone, no snapshot is.
FailBackup ==
  /\ doing # "nothing" /\ doing' = "nothing"
  /\ \/ UNCHANGED <<kept, archives>>
     \/ doing = "publish" /\ Appear
  /\ UNCHANGED <<live, stamp, snapshots, captured, copied, staged, instants, succeeded>>

\* External: an application writes; an operator reconciles what is left.
AppWrites(a) ==
  /\ live[a] < MaxWrites /\ live' = [live EXCEPT ![a] = @ + 1]
  /\ UNCHANGED <<stamp, snapshots, captured, doing, copied, staged, kept, archives, instants, succeeded>>

SnapshotsReconciled ==
  /\ doing = "nothing" /\ snapshots # {} /\ snapshots' = {}
  /\ UNCHANGED <<live, stamp, captured, doing, copied, staged, kept, archives, instants, succeeded>>

MediaNext ==
  \/ TakeLock \/ TakeSnapshots \/ Compress \/ Publish \/ DestroyedAll \/ Succeed
  \/ FailBackup \/ SnapshotsReconciled
  \/ \E a \in Apps : StageApp(a) \/ DestroySnapshot(a) \/ AppWrites(a)
  \/ \E n \in Stamps : ExpireArchive(n)

MediaSpec == MediaInit /\ [][MediaNext]_mediaVars
-------------------------------------------------------------------------------
\* Every archive holds all applications as they were at one instant, the one
\* of its run's snapshots, wherever runs fail (media_backup.py:57-82).
ArchivesAreOfOneInstant == \A n \in kept : archives[n] = instants[n]

\* The archive of a successful run goes only when two newer ones are there
\* (media_backup.py:83-88).
TwoNewerFirst ==
  \A n \in succeeded : n \in kept \/ \E m, l \in kept : n < m /\ m < l

\* An archive can be restored from, and stays until two others can.
ArchivesAreKept == ArchivesAreOfOneInstant /\ TwoNewerFirst
===============================================================================
