------------------------- MODULE GenerationTransfer -------------------------
(***************************************************************************)
(* The transfer of one root generation into a fresh ZFS dataset, and its   *)
(* later verification: src/files/cli/transfer-generation.py.  Transfers    *)
(* overlap and die anywhere; they share the destination, the two receipts  *)
(* and the lock of /var/lib/nest/updates.  The exported source may be      *)
(* replaced at any moment and, while the dataset is writable, anyone may   *)
(* write to it.                                                            *)
(*                                                                         *)
(* External: ZFS, the copy program and whoever else has root on the host.  *)
(***************************************************************************)
EXTENDS Naturals, FiniteSets

CONSTANTS
  Transfers,     \* invocations that may overlap
  MaxChanges,    \* bound: writes of others to the source or the destination
  Nobody

\* What `zfs set` writes at the end: four names and the seal.
Names == {"host", "release", "build", "content"}
Seals == Names \cup {"readonly"}

VARIABLES
  pc,           \* pc[t]: where transfer t is
  source,       \* the exported root: "right" is what the policy's digest says
  dataset,      \* FALSE: destroyed and made anew, with another guid
  content,      \* the destination: "none", "part", "right", "wrong"
  properties,   \* which of Seals the destination carries
  started,      \* the reservation is on disk
  completed,    \* the receipt of a sealed generation is on disk
  lock,         \* the transfer that holds the transaction lock, or Nobody
  copies,       \* how many copies were begun into the destination (history)
  verified,     \* what the last --verify run answered
  changes       \* how much others have written

moveVars == <<pc, source, dataset, content, properties, started, completed,
              lock, copies, verified, changes>>

disk == <<source, dataset, content, properties>>
paper == <<started, completed>>

MoveTypeOK ==
  /\ pc \in [Transfers -> {"begin", "lock", "held", "reserve", "copy", "rest",
                           "check", "publish", "sealed", "record",
                           "done", "refused"}]
  /\ source \in {"right", "wrong"}
  /\ dataset \in BOOLEAN
  /\ content \in {"none", "part", "right", "wrong"}
  /\ properties \subseteq Seals
  /\ started \in BOOLEAN /\ completed \in BOOLEAN
  /\ lock \in Transfers \cup {Nobody}
  /\ copies \in 0 .. Cardinality(Transfers)
  /\ verified \in {"unknown", "sealed", "refused"}
  /\ changes \in 0 .. MaxChanges

MoveInit ==
  /\ pc = [t \in Transfers |-> "begin"]
  /\ source \in {"right", "wrong"}
  /\ dataset = TRUE
  /\ content = "none"
  /\ properties = {}
  /\ started = FALSE /\ completed = FALSE
  /\ lock = Nobody
  /\ copies = 0
  /\ verified = "unknown"
  /\ changes = 0

Go(t, to) == pc' = [pc EXCEPT ![t] = to]

\* Every failure is final, and gives the lock back.
Refuse(t) ==
  /\ Go(t, "refused")
  /\ lock' = IF lock = t THEN Nobody ELSE lock

\* identity(value, True): the dataset of the policy, writable and unnamed.
Fresh == dataset /\ properties = {}

\* identity(value, False): the same dataset, named and sealed.
Sealed == dataset /\ properties = Seals

\* Read-only admission; --check ends here.  Room may be missing.
Examine(t) ==
  /\ pc[t] = "begin"
  /\ \/ /\ Fresh /\ content = "none" /\ ~started /\ ~completed
        /\ source = "right"
        /\ Go(t, "lock") /\ UNCHANGED lock
     \/ Refuse(t)
  /\ UNCHANGED <<disk, paper, copies, verified, changes>>

\* The lock is never waited for.
Lock(t) ==
  /\ pc[t] = "lock"
  /\ IF lock = Nobody
     THEN Go(t, "held") /\ lock' = t
     ELSE Refuse(t)
  /\ UNCHANGED <<disk, paper, copies, verified, changes>>

Admit(t) ==
  /\ pc[t] = "held"
  /\ \/ Fresh /\ content = "none" /\ Go(t, "reserve") /\ UNCHANGED lock
     \/ Refuse(t)
  /\ UNCHANGED <<disk, paper, copies, verified, changes>>

ReserveAgain(t) ==
  /\ pc[t] = "reserve"
  /\ \/ started' = TRUE /\ Go(t, "copy") /\ UNCHANGED lock
     \/ started' \in BOOLEAN /\ Refuse(t)
  /\ UNCHANGED <<disk, completed, copies, verified, changes>>

\* A link that never replaces a file; the sync after it may still fail.
Reserve(t) ==
  /\ pc[t] = "reserve"
  /\ IF started
     THEN Refuse(t) /\ UNCHANGED started
     ELSE \/ started' = TRUE /\ Go(t, "copy") /\ UNCHANGED lock
          \/ started' \in BOOLEAN /\ Refuse(t)
  /\ UNCHANGED <<disk, completed, copies, verified, changes>>

\* The copy takes hours: the source may be replaced half way.  It may also
\* fail before the first file or after some of them.
Copy(t) ==
  /\ pc[t] = "copy"
  /\ copies' = copies + 1
  /\ \/ /\ content' = IF source = "right" /\ content = "none"
                      THEN "part" ELSE "wrong"
        /\ Go(t, "rest") /\ UNCHANGED lock
     \/ content' \in {content, "part"} /\ Refuse(t)
  /\ UNCHANGED <<source, dataset, properties, paper, verified, changes>>

CopyRest(t) ==
  /\ pc[t] = "rest"
  /\ \/ /\ content' = IF source = "right" /\ content = "part"
                      THEN "right" ELSE "wrong"
        /\ Go(t, "check") /\ UNCHANGED lock
     \/ Refuse(t) /\ UNCHANGED content
  /\ UNCHANGED <<source, dataset, properties, paper, copies, verified, changes>>

CheckCopy(t) ==
  /\ pc[t] = "check"
  /\ \/ /\ Fresh /\ source = "right" /\ content = "right"
        /\ Go(t, "publish") /\ UNCHANGED lock
     \/ Refuse(t)
  /\ UNCHANGED <<disk, paper, copies, verified, changes>>

\* One command writes all properties, one after the other.
Publish(t) ==
  /\ pc[t] = "publish"
  /\ IF properties = Seals
     THEN Go(t, "sealed") /\ UNCHANGED <<properties, lock>>
     ELSE \/ /\ \E p \in Seals \ properties : properties' = properties \cup {p}
             /\ UNCHANGED <<pc, lock>>
          \/ Refuse(t) /\ UNCHANGED properties
  /\ UNCHANGED <<source, dataset, content, paper, copies, verified, changes>>

StillWhole == Sealed /\ content = "right"

CheckSeal(t) ==
  /\ pc[t] = "sealed"
  /\ \/ StillWhole /\ Go(t, "record") /\ UNCHANGED lock
     \/ Refuse(t)
  /\ UNCHANGED <<disk, paper, copies, verified, changes>>

Record(t) ==
  /\ pc[t] = "record"
  /\ \/ ~completed /\ completed' = TRUE /\ Go(t, "done") /\ lock' = Nobody
     \/ completed' \in {completed, TRUE} /\ Refuse(t)
  /\ UNCHANGED <<disk, started, copies, verified, changes>>

\* Killed: the kernel gives the lock back, everything on disk stays.
Die(t) ==
  /\ pc[t] \notin {"begin", "done", "refused"}
  /\ Refuse(t)
  /\ UNCHANGED <<disk, paper, copies, verified, changes>>

\* Identity, receipts and content are read twice around the long digest; both
\* receipts have to belong together.  Nothing is repaired and no lock taken.
Verify ==
  /\ verified' = IF StillWhole /\ started /\ completed
                 THEN "sealed" ELSE "refused"
  /\ UNCHANGED <<pc, disk, paper, lock, copies, changes>>

-----------------------------------------------------------------------------
(* The others.  A sealed dataset cannot be written to.                     *)

Changes ==
  /\ changes < MaxChanges /\ changes' = changes + 1
  /\ \/ /\ source' = IF source = "right" THEN "wrong" ELSE "right"
        /\ UNCHANGED <<dataset, content, properties>>
     \/ /\ "readonly" \notin properties /\ content # "wrong"
        /\ content' = "wrong"
        /\ UNCHANGED <<source, dataset, properties>>
     \/ /\ dataset
        /\ dataset' = FALSE /\ content' = "none" /\ properties' = {}
        /\ UNCHANGED source
  /\ UNCHANGED <<pc, paper, lock, copies, verified>>

Step(t) ==
  \/ Examine(t) \/ Lock(t) \/ Admit(t) \/ Reserve(t) \/ Copy(t) \/ CopyRest(t)
  \/ CheckCopy(t) \/ Publish(t) \/ CheckSeal(t) \/ Record(t) \/ Die(t)

MoveNext == (\E t \in Transfers : Step(t)) \/ Verify \/ Changes

MoveSpec == MoveInit /\ [][MoveNext]_moveVars

-----------------------------------------------------------------------------
(* A generation with a completed receipt, or that --verify called sealed,  *)
(* is sealed, carries all its names and holds exactly the content of its   *)
(* policy for as long as its dataset exists, whatever was written to the   *)
(* source or the destination while it was copied and named: preparation    *)
(* relies on that answer long after it was given                           *)
(* (transfer-generation.py:253-281, 308-340).                              *)
CompleteIsWhole ==
  completed \/ verified = "sealed" =>
    /\ started /\ completed
    /\ dataset => Sealed /\ content = "right"

(* Into one destination a copy is begun at most once, over any number of   *)
(* overlapping, refused and killed transfers (transfer-generation.py:224,  *)
(* 250-256).                                                               *)
CopiedOnce == copies <= 1
=============================================================================
