---------------------------- MODULE Releases_proofs ----------------------------
(***************************************************************************)
(* Proofs about how a release reaches a host: the promotion of its         *)
(* aliases, the transfer of a root generation, the publication of a        *)
(* release's root and its manifest, the identities roots get, and the      *)
(* preparation of the hosts in waves, for any number of operators,         *)
(* invocations, jobs, stagings, hosts and acts of others; and about the    *)
(* graph that a release is built and accepted as.                          *)
(***************************************************************************)
EXTENDS MCReleases, FiniteSetTheorems, SequenceTheorems, TLAPS

(***************************************************************************)
(* The promotion: for every set of releases, aliases and operators, any    *)
(* images, and any number of writes by others.                             *)
(***************************************************************************)

\* What an operator in the middle of a promotion relies on.  The pointer is the
\* one it started from, for the lock is its own; its plan is retained before the
\* first copy; and what it has read again still names the new image, except
\* where another writer came after the reading.
Promising(p) ==
  /\ pc[p] # "idle" => pointer = Old(p)
  /\ pc[p] \notin {"idle", "admit"} => plan[p] \in retained
  /\ pc[p] \in {"recheck", "publish"} =>
       \A a \in Aliases \ (todo[p] \cup unseen) : alias[a] = Image[New(p)][a]
  /\ pc[p] = "publish" => todo[p] = {}

\* The inductive invariant.  PartialCopiesDescribed survives the advance of the
\* pointer only because every alias that no other writer touched was read again.
PromotionInv ==
  /\ TypeOK
  /\ unseen \subseteq touched
  /\ PartialCopiesDescribed
  /\ \A p \in Operators : Promising(p)
------------------------------------------------------------------------------
\* The lock's holder is the only operator with a promotion under way.
LEMMA OnlyHolder ==
  ASSUME TypeOK, NEW p \in Operators, NEW q \in Operators, pc[p] # "idle", pc[q] # "idle"
  PROVE  p = q
BY DEF TypeOK

LEMMA PlanFacts ==
  ASSUME TypeOK, NEW p \in Operators, pc[p] # "idle"
  PROVE  New(p) \in Releases /\ Old(p) \in Releases /\ plan[p] = <<New(p), Old(p)>>
BY DEF TypeOK, Plans, New, Old

LEMMA ImageType ==
  ASSUME NEW r \in Releases, NEW a \in Aliases
  PROVE  Image[r][a] \in Images
BY PromotionAssumption

LEMMA InitInv == Init => PromotionInv
<1> SUFFICES ASSUME Init PROVE PromotionInv OBVIOUS
<1>1. TypeOK BY PromotionAssumption DEF Init, TypeOK
<1>2. PartialCopiesDescribed BY DEF Init, PartialCopiesDescribed
<1> QED BY <1>1, <1>2 DEF Init, PromotionInv, Promising
------------------------------------------------------------------------------
(* Types: the operator that moves holds the lock, or takes it.             *)

LEMMA LeaveTypeOK ==
  ASSUME TypeOK, NEW p \in Operators, pc[p] # "idle", Leave(p), pointer' \in Releases,
         UNCHANGED <<alias, retained, others>>
  PROVE  TypeOK' /\ \A q \in Operators : pc'[q] = "idle"
<1>1. \A q \in Operators : q # p => pc[q] = "idle" BY OnlyHolder
<1>2. lock' = None BY DEF Leave, TypeOK
<1>3. pc' = [pc EXCEPT ![p] = "idle"] BY DEF Leave, Go
<1>4. \A q \in Operators : pc'[q] = "idle" BY <1>1, <1>3 DEF TypeOK
<1> QED BY <1>2, <1>3, <1>4 DEF Leave, TypeOK, others

LEMMA PromoteTypeOK ==
  ASSUME TypeOK, NEW p \in Operators, Promote(p)
  PROVE  TypeOK'
<1>1. ASSUME NEW new \in Releases, NEW old \in Releases, Start(p, new, old) PROVE TypeOK'
  <2>1. <<new, old>> \in Plans BY DEF Plans
  <2>2. \A q \in Operators : pc[q] = "idle" BY <1>1, PromotionAssumption DEF Start, TypeOK
  <2> QED BY <1>1, <2>1, <2>2 DEF Start, Go, TypeOK, registry, others
<1>2. CASE Admit(p) BY <1>2 DEF Admit, Go, TypeOK, others
<1>3. CASE Copy(p)
  <2>1. at[p] \in Aliases BY <1>3 DEF Copy, TypeOK
  <2>2. Image[New(p)][at[p]] \in Images BY <1>3, <2>1, PlanFacts, ImageType DEF Copy
  <2> QED BY <1>3, <2>1, <2>2 DEF Copy, Go, TypeOK, others
<1>4. CASE ReadBack(p) BY <1>4 DEF ReadBack, Go, TypeOK, registry, others
<1>5. CASE Publish(p)
  <2>1. pc[p] # "idle" /\ pointer' \in Releases BY <1>5, PlanFacts DEF Publish
  <2> QED BY <1>5, <2>1, LeaveTypeOK DEF Publish
<1>6. CASE Stop(p) BY <1>6, LeaveTypeOK DEF Stop, registry, TypeOK
<1>7. ASSUME NEW a \in Aliases, Compare(p, a) PROVE TypeOK'
  BY <1>7 DEF Compare, Go, TypeOK, registry, others
<1>8. ASSUME NEW a \in Aliases, Recheck(p, a) PROVE TypeOK'
  BY <1>8 DEF Recheck, Go, TypeOK, registry, others
<1> QED BY <1>1, <1>2, <1>3, <1>4, <1>5, <1>6, <1>7, <1>8 DEF Promote

LEMMA ForeignTypeOK ==
  ASSUME TypeOK, NEW a \in Aliases, ForeignWrite(a)
  PROVE  TypeOK'
BY PromotionAssumption DEF ForeignWrite, TypeOK

\* Every step keeps the types.
LEMMA StepTypeOK == TypeOK /\ [Next]_vars => TypeOK'
<1> SUFFICES ASSUME TypeOK, [Next]_vars PROVE TypeOK' OBVIOUS
<1>1. CASE UNCHANGED vars BY <1>1 DEF vars, registry, others, TypeOK
<1> QED BY <1>1, PromoteTypeOK, ForeignTypeOK DEF Next
------------------------------------------------------------------------------
(* The other parts of the invariant, action by action.                     *)

\* A step that leaves the registry alone leaves described what was.
LEMMA DescribedUnchanged ==
  ASSUME PartialCopiesDescribed, UNCHANGED <<pointer, alias, touched>>, retained \subseteq retained'
  PROVE  PartialCopiesDescribed'
BY DEF PartialCopiesDescribed

\* Only the operator that moves has promises to keep.
LEMMA OnlyMover ==
  ASSUME TypeOK, TypeOK', NEW p \in Operators, pc'[p] # "idle", Promising(p)'
  PROVE  \A q \in Operators : Promising(q)'
<1>1. \A q \in Operators : q # p => pc'[q] = "idle" BY DEF TypeOK
<1> QED BY <1>1 DEF Promising

LEMMA PromoteInv ==
  ASSUME PromotionInv, NEW p \in Operators, Promote(p)
  PROVE  PromotionInv'
<1> USE DEF PromotionInv
<1>0. TypeOK' BY PromoteTypeOK
<1>1. ASSUME NEW new \in Releases, NEW old \in Releases, Start(p, new, old) PROVE PromotionInv'
  <2>1. Promising(p)' BY <1>1 DEF Start, Go, TypeOK, Promising, Old, registry
  <2>2. pc'[p] # "idle" BY <1>1 DEF Start, Go, TypeOK
  <2> QED BY <1>0, <1>1, <2>1, <2>2, DescribedUnchanged, OnlyMover DEF Start, registry, others
<1>2. CASE Admit(p)
  <2>1. Promising(p)' BY <1>2 DEF Admit, Go, TypeOK, Promising, Old
  <2>2. pc'[p] # "idle" BY <1>2 DEF Admit, Go, TypeOK
  <2> QED BY <1>0, <1>2, <2>1, <2>2, DescribedUnchanged, OnlyMover DEF Admit, others
<1>3. CASE Copy(p)
  <2>1. at[p] \in Aliases /\ pc'[p] = "read" BY <1>3 DEF Copy, Go, TypeOK
  <2>2. Promising(p)' BY <1>3, <2>1 DEF Copy, Promising, Old
  <2>3. /\ alias' = [alias EXCEPT ![at[p]] = Image[New(p)][at[p]]]
        /\ <<New(p), pointer>> \in retained /\ New(p) \in Releases
    BY <1>3, PlanFacts DEF Copy, Promising
  <2>4. PartialCopiesDescribed'
    <3>1. /\ UNCHANGED <<pointer, retained, touched>> /\ alias \in [Aliases -> Images]
          /\ pointer \in Releases
      BY <1>3 DEF Copy, others, TypeOK
    <3>2. \A a \in Aliases : a # at[p] => alias'[a] = alias[a]
      BY <2>3, <3>1
    <3>3. alias'[at[p]] = Image[New(p)][at[p]] BY <2>1, <2>3, <3>1
    <3> SUFFICES ASSUME NEW a \in Aliases \ touched
                 PROVE  \/ alias'[a] = Image[pointer][a]
                        \/ \E r \in Releases :
                             <<r, pointer>> \in retained /\ alias'[a] = Image[r][a]
      BY <3>1 DEF PartialCopiesDescribed
    <3>4. CASE a = at[p] BY <2>3, <3>3, <3>4
    <3>5. CASE a # at[p] BY <3>2, <3>5 DEF PartialCopiesDescribed
    <3> QED BY <3>4, <3>5
  <2> QED BY <1>0, <1>3, <2>1, <2>2, <2>4, OnlyMover DEF Copy, others
<1>4. CASE ReadBack(p)
  <2>1. pc'[p] \in {"compare", "recheck"} BY <1>4 DEF ReadBack, Go, TypeOK
  <2>2. pc'[p] = "recheck" => todo'[p] = Aliases BY <1>4 DEF ReadBack, Go, TypeOK
  <2>3. Promising(p)' BY <1>4, <2>1, <2>2 DEF ReadBack, Promising, Old, registry
  <2>4. (unseen \subseteq touched)' BY <1>4 DEF ReadBack, others
  <2> QED BY <1>0, <1>4, <2>1, <2>3, <2>4, DescribedUnchanged, OnlyMover DEF ReadBack, registry
<1>5. CASE Publish(p)
  <2>1. \A a \in Aliases \ unseen : alias[a] = Image[New(p)][a] BY <1>5 DEF Publish, Promising
  <2>2. PartialCopiesDescribed' BY <1>5, <2>1 DEF Publish, PartialCopiesDescribed, others
  <2>3. pc[p] # "idle" /\ pointer' \in Releases BY <1>5, PlanFacts DEF Publish
  <2>4. \A q \in Operators : pc'[q] = "idle" BY <1>5, <2>3, LeaveTypeOK DEF Publish
  <2> QED BY <1>0, <1>5, <2>2, <2>4 DEF Publish, others, Promising
<1>6. CASE Stop(p)
  <2>1. \A q \in Operators : pc'[q] = "idle" BY <1>6, LeaveTypeOK DEF Stop, registry, TypeOK
  <2> QED BY <1>0, <1>6, <2>1, DescribedUnchanged DEF Stop, registry, others, Promising
<1>7. ASSUME NEW a \in Aliases, Compare(p, a) PROVE PromotionInv'
  <2>1. pc'[p] = "copy" BY <1>7 DEF Compare, Go, TypeOK
  <2>2. Promising(p)' BY <1>7, <2>1 DEF Compare, Promising, Old, registry
  <2> QED BY <1>0, <1>7, <2>1, <2>2, DescribedUnchanged, OnlyMover DEF Compare, registry, others
<1>8. ASSUME NEW a \in Aliases, Recheck(p, a) PROVE PromotionInv'
  <2>1. /\ pc'[p] = IF todo[p] = {a} THEN "publish" ELSE "recheck"
        /\ todo'[p] = todo[p] \ {a}
    BY <1>8 DEF Recheck, Go, TypeOK
  <2>2. Promising(p)' BY <1>8, <2>1 DEF Recheck, Promising, Old, New, registry, others
  <2> QED BY <1>0, <1>8, <2>1, <2>2, DescribedUnchanged, OnlyMover DEF Recheck, registry, others
<1> QED BY <1>1, <1>2, <1>3, <1>4, <1>5, <1>6, <1>7, <1>8 DEF Promote

\* A foreign write is outside the description, and unseen by whoever read before.
LEMMA ForeignInv ==
  ASSUME PromotionInv, NEW a \in Aliases, ForeignWrite(a)
  PROVE  PromotionInv'
<1> USE DEF PromotionInv
<1>1. TypeOK' BY ForeignTypeOK
<1>2. \A b \in Aliases : b # a => alias'[b] = alias[b] BY DEF ForeignWrite, TypeOK
<1>3. PartialCopiesDescribed' BY <1>2 DEF ForeignWrite, PartialCopiesDescribed
<1>4. (unseen \subseteq touched)' BY DEF ForeignWrite
<1>5. ASSUME NEW p \in Operators PROVE Promising(p)'
  <2>1. pc[p] \in {"recheck", "publish"} => a \in todo[p] \cup unseen' BY DEF ForeignWrite
  <2>2. unseen \subseteq unseen' BY DEF ForeignWrite
  <2> QED BY <1>2, <2>1, <2>2 DEF ForeignWrite, Promising, Old, New
<1> QED BY <1>1, <1>3, <1>4, <1>5

LEMMA StepInv == PromotionInv /\ [Next]_vars => PromotionInv'
<1> SUFFICES ASSUME PromotionInv, [Next]_vars PROVE PromotionInv' OBVIOUS
<1>1. CASE UNCHANGED vars
  BY <1>1 DEF vars, registry, others, PromotionInv, TypeOK, PartialCopiesDescribed, Promising, New, Old
<1> QED BY <1>1, PromoteInv, ForeignInv DEF Next
\* PromotionInv is an invariant (nest-release-promote.py, apply_plan).
THEOREM PromotionInvariant == Spec => []PromotionInv
BY InitInv, StepInv, PTL DEF Spec

\* The lock, the plans and the aliases keep their types, and every operator with
\* a promotion under way holds the lock (nest-release-promote.py, the flock on
\* the pointer).
THEOREM PromotionTypes == Spec => []TypeOK
<1>1. PromotionInv => TypeOK BY DEF PromotionInv
<1> QED BY <1>1, PromotionInvariant, PTL

\* Wherever promotions stopped, an alias that no other writer touched names the
\* image of the current release or one that a retained plan explains.
THEOREM CopiesDescribed == Spec => []PartialCopiesDescribed
<1>1. PromotionInv => PartialCopiesDescribed BY DEF PromotionInv
<1> QED BY <1>1, PromotionInvariant, PTL

\* The pointer only ever advances to a release that every alias serves, but for
\* aliases another writer moved after they had been read again.
THEOREM PointerSafety == Spec => PointerFollowsAliases
<1> DEFINE Follows == pointer' # pointer =>
                        \A a \in Aliases : alias[a] = Image[pointer'][a] \/ a \in unseen
<1>1. ASSUME PromotionInv, [Next]_vars PROVE [Follows]_vars
  <2> SUFFICES ASSUME pointer' # pointer, NEW a \in Aliases, a \notin unseen
               PROVE  alias[a] = Image[pointer'][a]
    OBVIOUS
  <2>1. \E p \in Operators : Publish(p)
    BY <1>1 DEF Next, Promote, Start, Admit, Copy, ReadBack, Stop, Compare, Recheck, ForeignWrite,
                vars, registry
  <2>2. PICK p \in Operators : Publish(p) BY <2>1
  <2> QED BY <1>1, <2>2 DEF Publish, PromotionInv, Promising
<1>2. [][PromotionInv /\ [Next]_vars => [Follows]_vars]_vars BY <1>1, PTL
<1> QED BY <1>1, PromotionInvariant, PTL DEF Spec, PointerFollowsAliases

-----------------------------------------------------------------------------
(***************************************************************************)
(* The transfer.  Between taking the lock and giving it back a transfer is *)
(* alone; the reservation is never withdrawn, so after the first one       *)
(* nobody comes to copy again, and what CheckSeal found whole stays whole  *)
(* for as long as the dataset exists.                                      *)
(***************************************************************************)
Moving == {"held", "reserve", "copy", "rest", "check", "publish", "sealed", "record"}

WholeOrGone == dataset => properties = Transfer!Seals /\ content = "right"

MoveShape ==
  /\ movePc \in [Transfers -> {"begin", "lock", "done", "refused"} \cup Moving]
  /\ properties \subseteq Transfer!Seals
  /\ dataset \in BOOLEAN /\ started \in BOOLEAN /\ completed \in BOOLEAN
  /\ moveLock \in Transfers \cup {Nobody}

MoveAlone == \A t \in Transfers : movePc[t] \in Moving => moveLock = t

OneAttempt ==
  /\ \A t \in Transfers :
       movePc[t] \in {"copy", "rest", "check", "publish", "sealed", "record"} => started
  /\ copies \in {0, 1}
  /\ copies = 1 => started /\ \A t \in Transfers : movePc[t] # "copy"

SealHolds ==
  /\ \A t \in Transfers : movePc[t] = "record" => WholeOrGone
  /\ completed =>
       /\ started /\ WholeOrGone
       /\ \A t \in Transfers : movePc[t] \notin {"copy", "rest"}
  /\ verified = "sealed" => completed

\* The inductive invariant.
MoveInv == MoveShape /\ MoveAlone /\ OneAttempt /\ SealHolds

LEMMA MoveInitInv == Transfer!MoveInit => MoveInv
<1> SUFFICES ASSUME Transfer!MoveInit PROVE MoveInv OBVIOUS
<1>1. MoveShape BY DEF Transfer!MoveInit, MoveShape
<1> QED
  BY <1>1 DEF Transfer!MoveInit, MoveInv, MoveAlone, OneAttempt, SealHolds, Moving

\* What every step of a transfer does to where it is and to the lock.
LEMMA Moves ==
  ASSUME NEW t \in Transfers, MoveInv, Transfer!Step(t)
  PROVE  /\ movePc' = [movePc EXCEPT ![t] = movePc'[t]]
         /\ movePc[t] \notin Moving /\ movePc'[t] \in Moving =>
              moveLock = Nobody /\ moveLock' = t /\ movePc'[t] = "held"
         /\ movePc[t] \in Moving /\ movePc'[t] \in Moving => moveLock' = moveLock
         /\ movePc[t] \notin Moving /\ movePc'[t] \notin Moving => moveLock' = moveLock \/ moveLock = t
BY DEF MoveInv, MoveShape, Transfer!Step, Moving, Transfer!Go, Transfer!Refuse,
       Transfer!Examine, Transfer!Lock, Transfer!Admit, Transfer!Reserve, Transfer!Copy,
       Transfer!CopyRest, Transfer!CheckCopy, Transfer!Publish, Transfer!CheckSeal,
       Transfer!Record, Transfer!Die

LEMMA MoveAloneStep ==
  ASSUME NEW t \in Transfers, MoveInv, Transfer!Step(t)
  PROVE  MoveShape' /\ MoveAlone'
<1>1. MoveShape'
  BY DEF MoveInv, MoveShape, Transfer!Step, Moving, Transfer!Go, Transfer!Refuse,
         Transfer!Examine, Transfer!Lock, Transfer!Admit, Transfer!Reserve, Transfer!Copy,
         Transfer!CopyRest, Transfer!CheckCopy, Transfer!Publish, Transfer!CheckSeal,
         Transfer!Record, Transfer!Die, Transfer!disk, Transfer!paper
<1>2. MoveAlone'
  BY Moves, SuiteAssumption DEF MoveInv, MoveShape, MoveAlone
<1> QED BY <1>1, <1>2

LEMMA OneAttemptStep ==
  ASSUME NEW t \in Transfers, MoveInv, Transfer!Step(t)
  PROVE  OneAttempt'
<1> USE DEF MoveInv, MoveShape, MoveAlone, OneAttempt, Moving, Transfer!Go, Transfer!Refuse,
            Transfer!disk, Transfer!paper
<1>1. CASE Transfer!Reserve(t) BY <1>1 DEF Transfer!Reserve
<1>2. CASE Transfer!Copy(t) BY <1>2 DEF Transfer!Copy
<1>3. CASE Transfer!Examine(t) \/ Transfer!Lock(t) \/ Transfer!Admit(t)
  BY <1>3 DEF Transfer!Examine, Transfer!Lock, Transfer!Admit
<1>4. CASE Transfer!CopyRest(t) \/ Transfer!CheckCopy(t) \/ Transfer!Publish(t)
  BY <1>4 DEF Transfer!CopyRest, Transfer!CheckCopy, Transfer!Publish
<1>5. CASE Transfer!CheckSeal(t) \/ Transfer!Record(t) \/ Transfer!Die(t)
  BY <1>5 DEF Transfer!CheckSeal, Transfer!Record, Transfer!Die
<1> QED BY <1>1, <1>2, <1>3, <1>4, <1>5 DEF Transfer!Step

\* Only the one that records was let through by CheckSeal; nobody else moves then.
LEMMA SealHoldsStep ==
  ASSUME NEW t \in Transfers, MoveInv, Transfer!Step(t)
  PROVE  SealHolds'
<1> USE DEF MoveInv, MoveShape, MoveAlone, OneAttempt, SealHolds, WholeOrGone, Moving,
            Transfer!Go, Transfer!Refuse, Transfer!disk, Transfer!paper
<1>1. CASE Transfer!Reserve(t) BY <1>1 DEF Transfer!Reserve
<1>2. CASE Transfer!Copy(t) BY <1>2, SuiteAssumption DEF Transfer!Copy
<1>3. CASE Transfer!Examine(t) \/ Transfer!Lock(t) \/ Transfer!Admit(t)
  BY <1>3 DEF Transfer!Examine, Transfer!Lock, Transfer!Admit
<1>4. CASE Transfer!CopyRest(t) \/ Transfer!CheckCopy(t)
  BY <1>4, SuiteAssumption DEF Transfer!CopyRest, Transfer!CheckCopy
<1>5. CASE Transfer!Publish(t) BY <1>5, SuiteAssumption DEF Transfer!Publish
<1>6. CASE Transfer!CheckSeal(t)
  BY <1>6 DEF Transfer!CheckSeal, Transfer!StillWhole, Transfer!Sealed
<1>7. CASE Transfer!Record(t) BY <1>7, SuiteAssumption DEF Transfer!Record
<1>8. CASE Transfer!Die(t) BY <1>8 DEF Transfer!Die
<1> QED BY <1>1, <1>2, <1>3, <1>4, <1>5, <1>6, <1>7, <1>8 DEF Transfer!Step

LEMMA MoveStep ==
  ASSUME MoveInv, [Transfer!MoveNext]_moving
  PROVE  MoveInv'
<1>1. CASE UNCHANGED moving
  BY <1>1 DEF moving, MoveInv, MoveShape, MoveAlone, OneAttempt, SealHolds, WholeOrGone
<1>2. ASSUME NEW t \in Transfers, Transfer!Step(t) PROVE MoveInv'
  BY <1>2, MoveAloneStep, OneAttemptStep, SealHoldsStep DEF MoveInv
<1>3. CASE Transfer!Verify
  BY <1>3 DEF Transfer!Verify, Transfer!disk, Transfer!paper, MoveInv, MoveShape, MoveAlone,
              OneAttempt, SealHolds, WholeOrGone
<1>4. CASE Transfer!Changes
  <2>1. WholeOrGone => WholeOrGone'
    <3>1. "readonly" \in Transfer!Seals BY DEF Transfer!Seals
    <3>2. \/ UNCHANGED <<dataset, content, properties>>
          \/ "readonly" \notin properties /\ UNCHANGED <<dataset, properties>>
          \/ dataset' = FALSE
      BY <1>4 DEF Transfer!Changes
    <3> QED BY <3>1, <3>2 DEF WholeOrGone
  <2>2. UNCHANGED <<movePc, started, completed, moveLock, copies, verified>>
    BY <1>4 DEF Transfer!Changes, Transfer!paper
  <2>3. MoveShape'
    BY <1>4, <2>2 DEF Transfer!Changes, MoveInv, MoveShape
  <2> QED BY <2>1, <2>2, <2>3 DEF MoveInv, MoveAlone, OneAttempt, SealHolds
<1> QED BY <1>1, <1>2, <1>3, <1>4 DEF Transfer!MoveNext

LEMMA MoveIsWhole == MoveInv => Transfer!CompleteIsWhole /\ Transfer!CopiedOnce
BY DEF MoveInv, OneAttempt, SealHolds, WholeOrGone, Transfer!CompleteIsWhole,
       Transfer!CopiedOnce, Transfer!Sealed

-----------------------------------------------------------------------------
(***************************************************************************)
(* The published root.  The intent to finish is created exclusively and    *)
(* never removed, so a staging dataset belongs to one job for good; a      *)
(* destroyed staging is never made again, and a root made anew has another *)
(* identity.  What was sealed can only be destroyed: so what a job saw     *)
(* whole behind a seal stays so, and with it what the job records.         *)
(***************************************************************************)
Finishing == {"materialize", "repos", "extract", "compare", "seal", "sealed", "receipt",
              "publish", "create", "fill", "match", "close", "check", "record"}
Passed == {"receipt", "publish", "create", "fill", "match", "close", "check", "record"}
Noting == {"fill", "match", "close", "check", "record"}

Words == Versions \cup {"none", "foreign"}
Pairs == Words \X Words
States == {"absent", "made", "gone"}

StagingRows == [state : States, content : Pairs,
                sealed : BOOLEAN, placed : BOOLEAN]
StagingRow(s, c, x, y) == [state |-> s, content |-> c, sealed |-> x, placed |-> y]

RootRows == [id : Nat, reserved : BOOLEAN, made : BOOLEAN, sealed : BOOLEAN,
             content : Pairs]
RootRow(i, r, m, x, c) ==
  [id |-> i, reserved |-> r, made |-> m, sealed |-> x, content |-> c]

RootShape ==
  /\ jobAt = [j \in Jobs |-> jobAt[j]]
  /\ task = [j \in Jobs |-> task[j]] /\ \A j \in Jobs : task[j].place \in Stagings
  /\ saw = [j \in Jobs |-> saw[j]]
  /\ noted \in [Jobs -> Nat] /\ ancestors \in Nat
  /\ begun \in [Stagings -> SUBSET {"finish", "materialize"}]
  /\ finished = [p \in Stagings |-> finished[p]]
  /\ fills \in [Stagings -> Nat]
  /\ staging \in [Stagings -> StagingRows] /\ root \in RootRows
  /\ layer \in Versions /\ repos \in Versions

\* A staging, and the root with this identity, if it still exists.
StagedAs(p, what) ==
  staging[p].state = "made" => staging[p].sealed /\ staging[p].content = what
RootedAs(id, what) ==
  root.made /\ root.id = id => root.sealed /\ root.content = what

JobIsSound(j) ==
  /\ jobAt[j] = "reserve" => staging[task[j].place].state # "absent"
  /\ jobAt[j] \in Finishing => "finish" \in begun[task[j].place]
  /\ jobAt[j] \in Passed => StagedAs(task[j].place, saw[j])
  /\ jobAt[j] \in Noting => noted[j] <= root.id
  /\ jobAt[j] = "record" => RootedAs(noted[j], saw[j])

OneJobEach ==
  \A j, k \in Jobs : /\ jobAt[j] \in Finishing /\ jobAt[k] \in Finishing
                     /\ task[j].place = task[k].place
                     => j = k

PlaceIsSound(p) ==
  /\ "finish" \in begun[p] => staging[p].state # "absent"
  /\ fills[p] \in {0, 1}
  /\ fills[p] = 1 =>
       /\ "finish" \in begun[p]
       /\ \A j \in Jobs : task[j].place = p => jobAt[j] \notin {"materialize", "extract"}
  /\ finished[p] \notin {Missing, Torn} =>
       /\ "finish" \in begun[p] /\ finished[p].id \in Nat /\ finished[p].id <= root.id
       /\ StagedAs(p, finished[p].content)
       /\ RootedAs(finished[p].id, finished[p].content)

\* The inductive invariant.
RootInv ==
  /\ RootShape /\ OneJobEach
  /\ \A j \in Jobs : JobIsSound(j)
  /\ \A p \in Stagings : PlaceIsSound(p)

StagingKept ==
  \A p \in Stagings :
    /\ staging[p].state # "absent" => staging'[p].state # "absent"
    /\ staging[p].state # "absent" /\ staging'[p].state = "made" =>
         /\ staging[p].state = "made"
         /\ staging[p].sealed => /\ staging'[p].sealed
                                 /\ staging'[p].content = staging[p].content
RootKept ==
  /\ root.id <= root'.id
  /\ root'.made /\ root'.id = root.id =>
       root.made /\ (root.sealed => root'.sealed /\ root'.content = root.content)

LEMMA StagingFields ==
  ASSUME NEW r \in StagingRows
  PROVE  /\ r.state \in States /\ r.content \in Pairs
         /\ r.sealed \in BOOLEAN /\ r.placed \in BOOLEAN
BY Zenon DEF StagingRows

LEMMA StagingRowFields ==
  ASSUME NEW s \in States, NEW c \in Pairs, NEW x \in BOOLEAN, NEW y \in BOOLEAN
  PROVE  /\ StagingRow(s, c, x, y) \in StagingRows
         /\ StagingRow(s, c, x, y).state = s /\ StagingRow(s, c, x, y).content = c
         /\ StagingRow(s, c, x, y).sealed = x /\ StagingRow(s, c, x, y).placed = y
BY Zenon DEF StagingRow, StagingRows

LEMMA StagingExcept ==
  ASSUME NEW r \in StagingRows, NEW v
  PROVE  /\ [r EXCEPT !.state = v] = StagingRow(v, r.content, r.sealed, r.placed)
         /\ [r EXCEPT !.content = v] = StagingRow(r.state, v, r.sealed, r.placed)
         /\ [r EXCEPT !.sealed = v] = StagingRow(r.state, r.content, v, r.placed)
         /\ [r EXCEPT !.placed = v] = StagingRow(r.state, r.content, r.sealed, v)
<1>1. [r EXCEPT !.state = v] = [state |-> v, content |-> r.content,
                                sealed |-> r.sealed, placed |-> r.placed]
  BY DEF StagingRows
<1>2. [r EXCEPT !.content = v] = [state |-> r.state, content |-> v,
                                  sealed |-> r.sealed, placed |-> r.placed]
  BY DEF StagingRows
<1>3. [r EXCEPT !.sealed = v] = [state |-> r.state, content |-> r.content,
                                 sealed |-> v, placed |-> r.placed]
  BY DEF StagingRows
<1>4. [r EXCEPT !.placed = v] = [state |-> r.state, content |-> r.content,
                                 sealed |-> r.sealed, placed |-> v]
  BY DEF StagingRows
<1> QED BY <1>1, <1>2, <1>3, <1>4, Zenon DEF StagingRow

LEMMA SetState ==
  ASSUME NEW r \in StagingRows, NEW v \in States
  PROVE  /\ [r EXCEPT !.state = v] \in StagingRows
         /\ [r EXCEPT !.state = v].state = v
         /\ [r EXCEPT !.state = v].content = r.content
         /\ [r EXCEPT !.state = v].sealed = r.sealed
<1>0. /\ r.state \in States /\ r.content \in Pairs
      /\ r.sealed \in BOOLEAN /\ r.placed \in BOOLEAN
  BY StagingFields
<1>1. [r EXCEPT !.state = v] = StagingRow(v, r.content, r.sealed, r.placed)
  BY StagingExcept, Zenon
<1>2. /\ StagingRow(v, r.content, r.sealed, r.placed) \in StagingRows
      /\ StagingRow(v, r.content, r.sealed, r.placed).state = v
      /\ StagingRow(v, r.content, r.sealed, r.placed).content = r.content
      /\ StagingRow(v, r.content, r.sealed, r.placed).sealed = r.sealed
  BY <1>0, StagingRowFields
<1> QED BY <1>1, <1>2, Zenon

LEMMA SetContent ==
  ASSUME NEW r \in StagingRows, NEW v \in Pairs
  PROVE  /\ [r EXCEPT !.content = v] \in StagingRows
         /\ [r EXCEPT !.content = v].state = r.state
         /\ [r EXCEPT !.content = v].content = v
         /\ [r EXCEPT !.content = v].sealed = r.sealed
<1>0. /\ r.state \in States /\ r.content \in Pairs
      /\ r.sealed \in BOOLEAN /\ r.placed \in BOOLEAN
  BY StagingFields
<1>1. [r EXCEPT !.content = v] = StagingRow(r.state, v, r.sealed, r.placed)
  BY StagingExcept, Zenon
<1>2. /\ StagingRow(r.state, v, r.sealed, r.placed) \in StagingRows
      /\ StagingRow(r.state, v, r.sealed, r.placed).state = r.state
      /\ StagingRow(r.state, v, r.sealed, r.placed).content = v
      /\ StagingRow(r.state, v, r.sealed, r.placed).sealed = r.sealed
  BY <1>0, StagingRowFields
<1> QED BY <1>1, <1>2, Zenon

LEMMA SetSealed ==
  ASSUME NEW r \in StagingRows, NEW v \in BOOLEAN
  PROVE  /\ [r EXCEPT !.sealed = v] \in StagingRows
         /\ [r EXCEPT !.sealed = v].state = r.state
         /\ [r EXCEPT !.sealed = v].content = r.content
         /\ [r EXCEPT !.sealed = v].sealed = v
<1>0. /\ r.state \in States /\ r.content \in Pairs
      /\ r.sealed \in BOOLEAN /\ r.placed \in BOOLEAN
  BY StagingFields
<1>1. [r EXCEPT !.sealed = v] = StagingRow(r.state, r.content, v, r.placed)
  BY StagingExcept, Zenon
<1>2. /\ StagingRow(r.state, r.content, v, r.placed) \in StagingRows
      /\ StagingRow(r.state, r.content, v, r.placed).state = r.state
      /\ StagingRow(r.state, r.content, v, r.placed).content = r.content
      /\ StagingRow(r.state, r.content, v, r.placed).sealed = v
  BY <1>0, StagingRowFields
<1> QED BY <1>1, <1>2, Zenon

LEMMA SetPlaced ==
  ASSUME NEW r \in StagingRows, NEW v \in BOOLEAN
  PROVE  /\ [r EXCEPT !.placed = v] \in StagingRows
         /\ [r EXCEPT !.placed = v].state = r.state
         /\ [r EXCEPT !.placed = v].content = r.content
         /\ [r EXCEPT !.placed = v].sealed = r.sealed
<1>0. /\ r.state \in States /\ r.content \in Pairs
      /\ r.sealed \in BOOLEAN /\ r.placed \in BOOLEAN
  BY StagingFields
<1>1. [r EXCEPT !.placed = v] = StagingRow(r.state, r.content, r.sealed, v)
  BY StagingExcept, Zenon
<1>2. /\ StagingRow(r.state, r.content, r.sealed, v) \in StagingRows
      /\ StagingRow(r.state, r.content, r.sealed, v).state = r.state
      /\ StagingRow(r.state, r.content, r.sealed, v).content = r.content
      /\ StagingRow(r.state, r.content, r.sealed, v).sealed = r.sealed
  BY <1>0, StagingRowFields
<1> QED BY <1>1, <1>2, Zenon

LEMMA RootFields ==
  ASSUME NEW r \in RootRows
  PROVE  /\ r.id \in Nat /\ r.reserved \in BOOLEAN /\ r.made \in BOOLEAN
         /\ r.sealed \in BOOLEAN /\ r.content \in Pairs
BY Zenon DEF RootRows

LEMMA RootRowFields ==
  ASSUME NEW i \in Nat, NEW r \in BOOLEAN, NEW m \in BOOLEAN, NEW x \in BOOLEAN,
         NEW c \in Pairs
  PROVE  /\ RootRow(i, r, m, x, c) \in RootRows
         /\ RootRow(i, r, m, x, c).id = i /\ RootRow(i, r, m, x, c).made = m
         /\ RootRow(i, r, m, x, c).sealed = x /\ RootRow(i, r, m, x, c).content = c
BY Zenon DEF RootRow, RootRows

LEMMA RootExcept ==
  ASSUME NEW r \in RootRows, NEW v
  PROVE  /\ [r EXCEPT !.reserved = v] = RootRow(r.id, v, r.made, r.sealed, r.content)
         /\ [r EXCEPT !.made = v] = RootRow(r.id, r.reserved, v, r.sealed, r.content)
         /\ [r EXCEPT !.sealed = v] = RootRow(r.id, r.reserved, r.made, v, r.content)
         /\ [r EXCEPT !.content = v] = RootRow(r.id, r.reserved, r.made, r.sealed, v)
         /\ [r EXCEPT !.id = v] = RootRow(v, r.reserved, r.made, r.sealed, r.content)
<1>1. [r EXCEPT !.reserved = v] = [id |-> r.id, reserved |-> v, made |-> r.made,
                                   sealed |-> r.sealed, content |-> r.content]
  BY DEF RootRows
<1>2. [r EXCEPT !.made = v] = [id |-> r.id, reserved |-> r.reserved, made |-> v,
                               sealed |-> r.sealed, content |-> r.content]
  BY DEF RootRows
<1>3. [r EXCEPT !.sealed = v] = [id |-> r.id, reserved |-> r.reserved, made |-> r.made,
                                 sealed |-> v, content |-> r.content]
  BY DEF RootRows
<1>4. [r EXCEPT !.content = v] = [id |-> r.id, reserved |-> r.reserved, made |-> r.made,
                                  sealed |-> r.sealed, content |-> v]
  BY DEF RootRows
<1>5. [r EXCEPT !.id = v] = [id |-> v, reserved |-> r.reserved, made |-> r.made,
                             sealed |-> r.sealed, content |-> r.content]
  BY DEF RootRows
<1> QED BY <1>1, <1>2, <1>3, <1>4, <1>5, Zenon DEF RootRow

LEMMA RootId ==
  ASSUME NEW r \in RootRows, NEW v \in Nat
  PROVE  /\ [r EXCEPT !.id = v] \in RootRows
         /\ [r EXCEPT !.id = v].id = v
         /\ [r EXCEPT !.id = v].made = r.made
         /\ [r EXCEPT !.id = v].sealed = r.sealed
         /\ [r EXCEPT !.id = v].content = r.content
<1>0. /\ r.id \in Nat /\ r.reserved \in BOOLEAN /\ r.made \in BOOLEAN
      /\ r.sealed \in BOOLEAN /\ r.content \in Pairs
  BY RootFields
<1>1. [r EXCEPT !.id = v] = RootRow(v, r.reserved, r.made, r.sealed, r.content)
  BY RootExcept, Zenon
<1>2. /\ RootRow(v, r.reserved, r.made, r.sealed, r.content) \in RootRows
      /\ RootRow(v, r.reserved, r.made, r.sealed, r.content).id = v
      /\ RootRow(v, r.reserved, r.made, r.sealed, r.content).made = r.made
      /\ RootRow(v, r.reserved, r.made, r.sealed, r.content).sealed = r.sealed
      /\ RootRow(v, r.reserved, r.made, r.sealed, r.content).content = r.content
  BY <1>0, RootRowFields
<1> QED BY <1>1, <1>2, Zenon

LEMMA RootReserved ==
  ASSUME NEW r \in RootRows, NEW v \in BOOLEAN
  PROVE  /\ [r EXCEPT !.reserved = v] \in RootRows
         /\ [r EXCEPT !.reserved = v].id = r.id
         /\ [r EXCEPT !.reserved = v].made = r.made
         /\ [r EXCEPT !.reserved = v].sealed = r.sealed
         /\ [r EXCEPT !.reserved = v].content = r.content
<1>0. /\ r.id \in Nat /\ r.reserved \in BOOLEAN /\ r.made \in BOOLEAN
      /\ r.sealed \in BOOLEAN /\ r.content \in Pairs
  BY RootFields
<1>1. [r EXCEPT !.reserved = v] = RootRow(r.id, v, r.made, r.sealed, r.content)
  BY RootExcept, Zenon
<1>2. /\ RootRow(r.id, v, r.made, r.sealed, r.content) \in RootRows
      /\ RootRow(r.id, v, r.made, r.sealed, r.content).id = r.id
      /\ RootRow(r.id, v, r.made, r.sealed, r.content).made = r.made
      /\ RootRow(r.id, v, r.made, r.sealed, r.content).sealed = r.sealed
      /\ RootRow(r.id, v, r.made, r.sealed, r.content).content = r.content
  BY <1>0, RootRowFields
<1> QED BY <1>1, <1>2, Zenon

LEMMA RootMade ==
  ASSUME NEW r \in RootRows, NEW v \in BOOLEAN
  PROVE  /\ [r EXCEPT !.made = v] \in RootRows
         /\ [r EXCEPT !.made = v].id = r.id
         /\ [r EXCEPT !.made = v].made = v
         /\ [r EXCEPT !.made = v].sealed = r.sealed
         /\ [r EXCEPT !.made = v].content = r.content
<1>0. /\ r.id \in Nat /\ r.reserved \in BOOLEAN /\ r.made \in BOOLEAN
      /\ r.sealed \in BOOLEAN /\ r.content \in Pairs
  BY RootFields
<1>1. [r EXCEPT !.made = v] = RootRow(r.id, r.reserved, v, r.sealed, r.content)
  BY RootExcept, Zenon
<1>2. /\ RootRow(r.id, r.reserved, v, r.sealed, r.content) \in RootRows
      /\ RootRow(r.id, r.reserved, v, r.sealed, r.content).id = r.id
      /\ RootRow(r.id, r.reserved, v, r.sealed, r.content).made = v
      /\ RootRow(r.id, r.reserved, v, r.sealed, r.content).sealed = r.sealed
      /\ RootRow(r.id, r.reserved, v, r.sealed, r.content).content = r.content
  BY <1>0, RootRowFields
<1> QED BY <1>1, <1>2, Zenon

LEMMA RootSealed ==
  ASSUME NEW r \in RootRows, NEW v \in BOOLEAN
  PROVE  /\ [r EXCEPT !.sealed = v] \in RootRows
         /\ [r EXCEPT !.sealed = v].id = r.id
         /\ [r EXCEPT !.sealed = v].made = r.made
         /\ [r EXCEPT !.sealed = v].sealed = v
         /\ [r EXCEPT !.sealed = v].content = r.content
<1>0. /\ r.id \in Nat /\ r.reserved \in BOOLEAN /\ r.made \in BOOLEAN
      /\ r.sealed \in BOOLEAN /\ r.content \in Pairs
  BY RootFields
<1>1. [r EXCEPT !.sealed = v] = RootRow(r.id, r.reserved, r.made, v, r.content)
  BY RootExcept, Zenon
<1>2. /\ RootRow(r.id, r.reserved, r.made, v, r.content) \in RootRows
      /\ RootRow(r.id, r.reserved, r.made, v, r.content).id = r.id
      /\ RootRow(r.id, r.reserved, r.made, v, r.content).made = r.made
      /\ RootRow(r.id, r.reserved, r.made, v, r.content).sealed = v
      /\ RootRow(r.id, r.reserved, r.made, v, r.content).content = r.content
  BY <1>0, RootRowFields
<1> QED BY <1>1, <1>2, Zenon

LEMMA RootContent ==
  ASSUME NEW r \in RootRows, NEW v \in Pairs
  PROVE  /\ [r EXCEPT !.content = v] \in RootRows
         /\ [r EXCEPT !.content = v].id = r.id
         /\ [r EXCEPT !.content = v].made = r.made
         /\ [r EXCEPT !.content = v].sealed = r.sealed
         /\ [r EXCEPT !.content = v].content = v
<1>0. /\ r.id \in Nat /\ r.reserved \in BOOLEAN /\ r.made \in BOOLEAN
      /\ r.sealed \in BOOLEAN /\ r.content \in Pairs
  BY RootFields
<1>1. [r EXCEPT !.content = v] = RootRow(r.id, r.reserved, r.made, r.sealed, v)
  BY RootExcept, Zenon
<1>2. /\ RootRow(r.id, r.reserved, r.made, r.sealed, v) \in RootRows
      /\ RootRow(r.id, r.reserved, r.made, r.sealed, v).id = r.id
      /\ RootRow(r.id, r.reserved, r.made, r.sealed, v).made = r.made
      /\ RootRow(r.id, r.reserved, r.made, r.sealed, v).sealed = r.sealed
      /\ RootRow(r.id, r.reserved, r.made, r.sealed, v).content = v
  BY <1>0, RootRowFields
<1> QED BY <1>1, <1>2, Zenon

LEMMA PairFacts ==
  /\ RootContents \subseteq Pairs /\ Empty \in Pairs /\ Foreign \in Pairs
  /\ \A v \in Versions : <<v, "none">> \in Pairs
  /\ \A c \in Pairs, v \in Versions : <<c[1], v>> \in Pairs
<1>1. Empty \in Pairs /\ Foreign \in Pairs BY DEF Pairs, Words, Versions, Empty, Foreign
<1>2. \A v \in Versions : <<v, "none">> \in Pairs BY DEF Pairs, Words, Versions
<1>3. \A c \in Pairs, v \in Versions : <<c[1], v>> \in Pairs BY DEF Pairs, Words
<1>4. Builds \subseteq Pairs BY DEF Builds, Pairs, Words
<1>5. {<<v, "none">> : v \in Versions} \subseteq Pairs BY <1>2
<1> QED BY <1>1, <1>2, <1>3, <1>4, <1>5 DEF RootContents

\* What happens to a staging: made once, filled while it can be written to,
\* sealed for good, destroyed for good.
LEMMA StagingMoves ==
  ASSUME NEW j \in Jobs, RootInv, JobStep(j) \/ Tamper
  PROVE  staging' \in [Stagings -> StagingRows] /\ StagingKept
<1> DEFINE place == task[j].place
<1>0. staging \in [Stagings -> StagingRows] /\ place \in Stagings
  BY DEF RootInv, RootShape
<1>1. ASSUME UNCHANGED staging
      PROVE  staging' \in [Stagings -> StagingRows] /\ StagingKept
  BY <1>0, <1>1 DEF StagingKept
<1>2. ASSUME NEW p \in Stagings, NEW row \in StagingRows,
             staging' = [staging EXCEPT ![p] = row],
             \/ staging[p].state = "absent" /\ row.state = "made"
             \/ row.state = "gone"
             \/ /\ row.state = staging[p].state /\ row.content = staging[p].content
                /\ staging[p].sealed => row.sealed
             \/ row.state = "made" /\ staging[p].state = "made" /\ ~staging[p].sealed
      PROVE  staging' \in [Stagings -> StagingRows] /\ StagingKept
  BY <1>0, <1>2 DEF StagingKept
<1> HIDE DEF place
<1>3. CASE MakeStaging(j)
  <2> DEFINE row == [staging[place] EXCEPT !.state = "made"]
  <2>1. staging[place].state = "absent" /\ staging' = [staging EXCEPT ![place] = row]
    BY <1>3, <1>0 DEF MakeStaging, Place, place
  <2>2. row \in StagingRows /\ row.state = "made"
    BY <1>0, SetState, Zenon DEF States
  <2> HIDE DEF row
  <2> QED BY <1>0, <1>2, <2>1, <2>2
<1>4. CASE RecordPlacement(j)
  <2> DEFINE row == [staging[place] EXCEPT !.placed = TRUE]
  <2>1. staging' = [staging EXCEPT ![place] = row]
    BY <1>4, <1>0 DEF RecordPlacement, Place, place
  <2>2. /\ row \in StagingRows /\ row.state = staging[place].state
        /\ row.content = staging[place].content /\ row.sealed = staging[place].sealed
    BY <1>0, SetPlaced, Zenon
  <2> HIDE DEF row
  <2> QED BY <1>0, <1>2, <2>1, <2>2
<1>5. CASE Seal(j)
  <2> DEFINE row == [staging[place] EXCEPT !.sealed = TRUE]
  <2>1. staging' = [staging EXCEPT ![place] = row]
    BY <1>5, <1>0 DEF Seal, Place, place
  <2>2. /\ row \in StagingRows /\ row.state = staging[place].state
        /\ row.content = staging[place].content /\ row.sealed
    BY <1>0, SetSealed, Zenon
  <2> HIDE DEF row
  <2> QED BY <1>0, <1>2, <2>1, <2>2
<1>6. ASSUME NEW p \in Stagings, NEW c \in Pairs, Writable(p),
             staging' = [staging EXCEPT ![p].content = c]
      PROVE  staging' \in [Stagings -> StagingRows] /\ StagingKept
  <2> DEFINE row == [staging[p] EXCEPT !.content = c]
  <2>1. staging' = [staging EXCEPT ![p] = row] BY <1>0, <1>6
  <2>2. row \in StagingRows /\ row.state = staging[p].state
    BY <1>0, SetContent, Zenon
  <2>3. staging[p].state = "made" /\ ~staging[p].sealed BY <1>6 DEF Writable
  <2> HIDE DEF row
  <2> QED BY <1>2, <2>1, <2>2, <2>3
<1>7. CASE CopyLayer(j)
  <2>1. Writable(place) /\ staging' = [staging EXCEPT ![place].content = <<layer, "none">>]
    BY <1>7 DEF CopyLayer, Fill, Place, place
  <2>2. <<layer, "none">> \in Pairs BY PairFacts DEF RootInv, RootShape
  <2> QED BY <1>0, <1>6, <2>1, <2>2
<1>8. CASE CopyRepositories(j)
  <2> DEFINE c == IF staging[place].content = Foreign THEN Foreign
                  ELSE <<staging[place].content[1], repos>>
  <2>1. Writable(place) /\ staging' = [staging EXCEPT ![place].content = c]
    BY <1>8, <1>0 DEF CopyRepositories, Place, place
  <2>2. c \in Pairs
    <3>1. staging[place].content \in Pairs /\ repos \in Versions
      BY <1>0, StagingFields DEF RootInv, RootShape
    <3> QED BY <3>1, PairFacts
  <2> HIDE DEF c
  <2> QED BY <1>0, <1>6, <2>1, <2>2
<1>9. CASE Extract(j)
  <2>1. /\ Writable(place)
        /\ \E c \in Pairs : staging' = [staging EXCEPT ![place].content = c]
    BY <1>9, PairFacts, Zenon DEF Extract, Fill, Place, place
  <2> QED BY <1>0, <1>6, <2>1
<1>10. CASE Tamper
  <2>1. CASE \E p \in Stagings :
               Writable(p) /\ staging' = [staging EXCEPT ![p].content = Foreign]
    BY <1>6, <2>1, PairFacts
  <2>2. ASSUME NEW p \in Stagings,
               staging' = [staging EXCEPT ![p].state = "gone", ![p].content = Empty,
                                          ![p].sealed = FALSE]
        PROVE  staging' \in [Stagings -> StagingRows] /\ StagingKept
    <3> DEFINE first == [staging[p] EXCEPT !.state = "gone"]
               second == [first EXCEPT !.content = Empty]
               row == [second EXCEPT !.sealed = FALSE]
    <3>1. staging' = [staging EXCEPT ![p] = row] BY <1>0, <2>2
    <3>2. first \in StagingRows /\ first.state = "gone"
      BY <1>0, SetState, Zenon DEF States
    <3> HIDE DEF first
    <3>3. second \in StagingRows /\ second.state = "gone"
      BY <3>2, SetContent, PairFacts, Zenon
    <3> HIDE DEF second
    <3>4. row \in StagingRows /\ row.state = "gone"
      BY <3>3, SetSealed, Zenon
    <3> HIDE DEF row
    <3> QED BY <1>2, <3>1, <3>4
  <2> QED BY <1>1, <1>10, <2>1, <2>2, Zenon DEF Tamper
<1>11. CASE /\ JobStep(j) /\ ~MakeStaging(j) /\ ~RecordPlacement(j) /\ ~Seal(j)
            /\ ~CopyLayer(j) /\ ~CopyRepositories(j) /\ ~Extract(j)
  <2>1. UNCHANGED staging
    BY <1>11 DEF JobStep, Provision, MakeParent, Export, Pack, AppendRepositories, Tally,
         AdmitRoot, ReserveRoot, CompareRoot, CheckSeal, RecordMaterialized, PublishRoot,
         Create, FillRoot, Match, Close, Check, RecordRoot, StopJob
  <2> QED BY <1>1, <2>1
<1> QED BY <1>3, <1>4, <1>5, <1>7, <1>8, <1>9, <1>10, <1>11

\* What happens to the root: made anew with another identity, sealed for good,
\* destroyed.
LEMMA RootMoves ==
  ASSUME NEW j \in Jobs, RootInv, JobStep(j) \/ Tamper
  PROVE  root' \in RootRows /\ RootKept
<1>0. /\ root \in RootRows /\ root.id \in Nat
      /\ root.made \in BOOLEAN /\ root.sealed \in BOOLEAN
  BY RootFields DEF RootInv, RootShape
<1>1. ASSUME UNCHANGED root PROVE root' \in RootRows /\ RootKept
  BY <1>0, <1>1 DEF RootKept
<1>2. CASE PublishRoot(j)
  <2>1. root' = [root EXCEPT !.reserved = TRUE] BY <1>2 DEF PublishRoot
  <2>2. /\ root' \in RootRows /\ root'.id = root.id /\ root'.made = root.made
        /\ root'.sealed = root.sealed /\ root'.content = root.content
    BY <1>0, <2>1, RootReserved, Zenon
  <2> QED BY <1>0, <2>2 DEF RootKept
<1>3. CASE Create(j)
  <2> DEFINE new == [root EXCEPT !.made = TRUE]
  <2>1. ~root.made /\ root' = [new EXCEPT !.id = root.id + 1] BY <1>3 DEF Create
  <2>2. new \in RootRows BY <1>0, RootMade, Zenon
  <2> HIDE DEF new
  <2>3. root.id + 1 \in Nat BY <1>0
  <2>4. root' \in RootRows /\ root'.id = root.id + 1 BY <2>1, <2>2, <2>3, RootId, Zenon
  <2> QED BY <1>0, <2>4 DEF RootKept
<1>4. ASSUME NEW c \in Pairs, ~root.sealed, root.made, root' = [root EXCEPT !.content = c]
      PROVE  root' \in RootRows /\ RootKept
  <2>1. /\ root' \in RootRows /\ root'.id = root.id /\ root'.made = root.made
    BY <1>0, <1>4, RootContent, Zenon
  <2> QED BY <1>0, <1>4, <2>1 DEF RootKept
<1>5. CASE FillRoot(j)
  <2>1. staging[task[j].place].content \in Pairs
    <3>1. task[j].place \in Stagings /\ staging \in [Stagings -> StagingRows]
      BY DEF RootInv, RootShape
    <3> QED BY <3>1, StagingFields
  <2>2. /\ root.made /\ ~root.sealed
        /\ \E c \in Pairs : root' = [root EXCEPT !.content = c]
    BY <1>5, <2>1, PairFacts DEF FillRoot, Place
  <2> QED BY <1>4, <2>2
<1>6. CASE Close(j)
  <2>1. root.made /\ root' = [root EXCEPT !.sealed = TRUE] BY <1>6 DEF Close
  <2>2. /\ root' \in RootRows /\ root'.id = root.id /\ root'.sealed
        /\ root'.made = root.made /\ root'.content = root.content
    BY <1>0, <2>1, RootSealed, Zenon
  <2> QED BY <1>0, <2>1, <2>2 DEF RootKept
<1>7. CASE Tamper
  <2>1. CASE root.made /\ ~root.sealed /\ root' = [root EXCEPT !.content = Foreign]
    BY <1>4, <2>1, PairFacts
  <2>2. CASE root' = [root EXCEPT !.made = FALSE, !.reserved = FALSE,
                                  !.sealed = FALSE, !.content = Empty]
    <3> DEFINE r1 == [root EXCEPT !.made = FALSE]
               r2 == [r1 EXCEPT !.reserved = FALSE]
               r3 == [r2 EXCEPT !.sealed = FALSE]
    <3>1. root' = [r3 EXCEPT !.content = Empty] BY <2>2
    <3>2. r1 \in RootRows /\ r1.made = FALSE /\ r1.id = root.id BY <1>0, RootMade, Zenon
    <3> HIDE DEF r1
    <3>3. r2 \in RootRows /\ r2.made = FALSE /\ r2.id = root.id
      BY <3>2, RootReserved, Zenon
    <3> HIDE DEF r2
    <3>4. r3 \in RootRows /\ r3.made = FALSE /\ r3.id = root.id BY <3>3, RootSealed, Zenon
    <3> HIDE DEF r3
    <3>5. root' \in RootRows /\ root'.made = FALSE /\ root'.id = root.id
      BY <3>1, <3>4, PairFacts, RootContent, Zenon
    <3> QED BY <1>0, <3>5 DEF RootKept
  <2> QED BY <1>1, <1>7, <2>1, <2>2, Zenon DEF Tamper
<1>8. CASE /\ JobStep(j) /\ ~PublishRoot(j) /\ ~Create(j) /\ ~FillRoot(j) /\ ~Close(j)
  <2>1. UNCHANGED root
    BY <1>8 DEF JobStep, Provision, MakeParent, MakeStaging, RecordPlacement, Export, Pack,
         AppendRepositories, Tally, AdmitRoot, ReserveRoot, CopyLayer, CopyRepositories,
         Extract, CompareRoot, Seal, CheckSeal, RecordMaterialized, Match, Check,
         RecordRoot, StopJob
  <2> QED BY <1>1, <2>1
<1> QED BY <1>2, <1>3, <1>5, <1>6, <1>7, <1>8

PaperKept ==
  \A p \in Stagings :
    /\ begun[p] \subseteq begun'[p]
    /\ finished[p] # Missing => finished'[p] = finished[p]

LEMMA RootShapeStep ==
  ASSUME NEW j \in Jobs, RootInv, JobStep(j) \/ Tamper
  PROVE  RootShape'
<1>1. staging' \in [Stagings -> StagingRows] /\ root' \in RootRows
  BY StagingMoves, RootMoves
<1>2. RootShape /\ root.id \in Nat BY RootFields DEF RootInv, RootShape
<1>3. jobAt' = [k \in Jobs |-> jobAt'[k]]
  <2>1. \/ UNCHANGED jobAt
        \/ \E to : jobAt' = [jobAt EXCEPT ![j] = to]
    BY Zenon DEF JobStep, Tamper, job, JobMoves, Goto, BeginJob, Provision, MakeParent,
           MakeStaging, RecordPlacement, Export, Pack, AppendRepositories, Tally, AdmitRoot,
           ReserveRoot, CopyLayer, CopyRepositories, Extract, CompareRoot, Seal, CheckSeal,
           RecordMaterialized, PublishRoot, Create, FillRoot, Match, Close, Check,
           RecordRoot, StopJob
  <2> QED BY <1>2, <2>1, Zenon DEF RootShape
<1>4. task' = [k \in Jobs |-> task'[k]] /\ \A k \in Jobs : task'[k].place \in Stagings
  <2>1. CASE (JobStep(j) \/ Tamper) /\ ~Provision(j) /\ ~Export(j) /\ ~AdmitRoot(j)
    <3>1. UNCHANGED task
      BY <2>1, Zenon DEF JobStep, Tamper, JobMoves, job, MakeParent, MakeStaging, RecordPlacement,
                  Pack, AppendRepositories, Tally, ReserveRoot, CopyLayer, CopyRepositories,
                  Extract, CompareRoot, Seal, CheckSeal, RecordMaterialized, PublishRoot,
                  Create, FillRoot, Match, Close, Check, RecordRoot, StopJob
    <3> QED BY <1>2, <3>1, Zenon DEF RootShape
  <2>2. CASE Provision(j)
    <3>1. PICK p \in Stagings : BeginJob(j, "provision", p, "parents") BY <2>2 DEF Provision
    <3>2. task' = [task EXCEPT ![j] = [kind |-> "provision", place |-> p]] BY <3>1 DEF BeginJob
    <3> QED BY <1>2, <3>2 DEF RootShape
  <2>3. CASE Export(j)
    <3>1. PICK p \in Stagings : BeginJob(j, "export", p, "pack") BY <2>3 DEF Export
    <3>2. task' = [task EXCEPT ![j] = [kind |-> "export", place |-> p]] BY <3>1 DEF BeginJob
    <3> QED BY <1>2, <3>2 DEF RootShape
  <2>4. CASE AdmitRoot(j)
    <3>1. PICK kind \in {"finish", "receive"}, p \in Stagings :
            BeginJob(j, kind, p, "reserve")
      BY <2>4 DEF AdmitRoot
    <3>2. task' = [task EXCEPT ![j] = [kind |-> kind, place |-> p]] BY <3>1 DEF BeginJob
    <3> QED BY <1>2, <3>2 DEF RootShape
  <2> QED BY <2>1, <2>2, <2>3, <2>4
<1>5. saw' = [k \in Jobs |-> saw'[k]]
  <2>1. \/ UNCHANGED saw
        \/ \E what : saw' = [saw EXCEPT ![j] = what]
    BY Zenon DEF JobStep, Tamper, job, JobMoves, See, BeginJob, Provision, MakeParent,
           MakeStaging, RecordPlacement, Export, Pack, AppendRepositories, Tally, AdmitRoot,
           ReserveRoot, CopyLayer, CopyRepositories, Extract, CompareRoot, Seal, CheckSeal,
           RecordMaterialized, PublishRoot, Create, FillRoot, Match, Close, Check,
           RecordRoot, StopJob
  <2> QED BY <1>2, <2>1, Zenon DEF RootShape
<1>6. noted' \in [Jobs -> Nat] /\ ancestors' \in Nat
  <2>1. CASE (JobStep(j) \/ Tamper) /\ ~Provision(j) /\ ~MakeParent(j) /\ ~Create(j)
    <3>1. UNCHANGED <<noted, ancestors>>
      BY <2>1, Zenon DEF JobStep, Tamper, JobMoves, job, rest, MakeStaging, RecordPlacement,
                  Export, Pack, AppendRepositories, Tally, AdmitRoot, ReserveRoot,
                  CopyLayer, CopyRepositories, Extract, CompareRoot, Seal, CheckSeal,
                  RecordMaterialized, PublishRoot, FillRoot, Match, Close, Check,
                  RecordRoot, StopJob
    <3> QED BY <1>2, <3>1, Zenon DEF RootShape
  <2>2. CASE Provision(j) BY <1>2, <2>2 DEF Provision, rest, RootShape
  <2>3. CASE MakeParent(j) BY <1>2, <2>3 DEF MakeParent, RootShape
  <2>4. CASE Create(j) BY <1>2, <2>4 DEF Create, rest, RootShape
  <2> QED BY <2>1, <2>2, <2>3, <2>4
<1>7. begun' \in [Stagings -> SUBSET {"finish", "materialize"}]
  <2>1. CASE (JobStep(j) \/ Tamper) /\ ~ReserveRoot(j) /\ ~CopyLayer(j)
    <3>1. UNCHANGED begun
      BY <2>1, Zenon DEF JobStep, Tamper, JobMoves, paper, Provision, MakeParent, MakeStaging,
                  RecordPlacement, Export, Pack, AppendRepositories, Tally, AdmitRoot,
                  CopyRepositories, Extract, CompareRoot, Seal, CheckSeal,
                  RecordMaterialized, PublishRoot, Create, FillRoot, Match, Close, Check,
                  RecordRoot, StopJob
    <3> QED BY <1>2, <3>1, Zenon DEF RootShape
  <2>2. CASE ReserveRoot(j) BY <1>2, <2>2 DEF ReserveRoot, Place, RootShape
  <2>3. CASE CopyLayer(j) BY <1>2, <2>3 DEF CopyLayer, Place, RootShape
  <2> QED BY <2>1, <2>2, <2>3
<1>8. finished' = [p \in Stagings |-> finished'[p]]
  <2>1. CASE (JobStep(j) \/ Tamper) /\ ~RecordRoot(j) /\ ~StopJob(j)
    <3>1. UNCHANGED finished
      BY <2>1, Zenon DEF JobStep, Tamper, JobMoves, paper, Provision, MakeParent, MakeStaging,
                  RecordPlacement, Export, Pack, AppendRepositories, Tally, AdmitRoot,
                  ReserveRoot, CopyLayer, CopyRepositories, Extract, CompareRoot, Seal,
                  CheckSeal, RecordMaterialized, PublishRoot, Create, FillRoot, Match,
                  Close, Check
    <3> QED BY <1>2, <3>1, Zenon DEF RootShape
  <2>2. CASE RecordRoot(j) BY <1>2, <2>2 DEF RecordRoot, RootShape
  <2>3. CASE StopJob(j) BY <1>2, <2>3 DEF StopJob, RootShape
  <2> QED BY <2>1, <2>2, <2>3
<1>9. fills' \in [Stagings -> Nat]
  <2>1. CASE (JobStep(j) \/ Tamper) /\ ~CopyLayer(j) /\ ~Extract(j)
    <3>1. UNCHANGED fills
      BY <2>1, Zenon DEF JobStep, Tamper, JobMoves, Provision, MakeParent, MakeStaging,
                  RecordPlacement, Export, Pack, AppendRepositories, Tally, AdmitRoot,
                  ReserveRoot, CopyRepositories, CompareRoot, Seal, CheckSeal,
                  RecordMaterialized, PublishRoot, Create, FillRoot, Match, Close, Check,
                  RecordRoot, StopJob
    <3> QED BY <1>2, <3>1, Zenon DEF RootShape
  <2>2. CASE CopyLayer(j) BY <1>2, <2>2 DEF CopyLayer, Fill, Place, RootShape
  <2>3. CASE Extract(j) BY <1>2, <2>3 DEF Extract, Fill, Place, RootShape
  <2> QED BY <2>1, <2>2, <2>3
<1>10. layer' \in Versions /\ repos' \in Versions
  BY <1>2, Zenon DEF RootShape, JobStep, Tamper, build, Provision, MakeParent, MakeStaging,
              RecordPlacement, Export, Pack, AppendRepositories, Tally, AdmitRoot,
              ReserveRoot, CopyLayer, CopyRepositories, Extract, CompareRoot, Seal,
              CheckSeal, RecordMaterialized, PublishRoot, Create, FillRoot, Match, Close,
              Check, RecordRoot, StopJob
<1> QED BY <1>1, <1>3, <1>4, <1>5, <1>6, <1>7, <1>8, <1>9, <1>10 DEF RootShape

LEMMA PaperMoves ==
  ASSUME NEW j \in Jobs, RootInv, JobStep(j) \/ Tamper
  PROVE  PaperKept
<1>1. /\ RootShape /\ task[j].place \in Stagings
      /\ begun \in [Stagings -> SUBSET {"finish", "materialize"}]
  BY Zenon DEF RootInv, RootShape
<1>2. CASE (JobStep(j) \/ Tamper) /\ ~ReserveRoot(j) /\ ~CopyLayer(j) /\ ~RecordRoot(j) /\
          ~StopJob(j)
  BY <1>2, Zenon DEF JobStep, Tamper, paper, PaperKept, Provision, MakeParent, MakeStaging,
              RecordPlacement, Export, Pack, AppendRepositories, Tally, AdmitRoot,
              CopyRepositories, Extract, CompareRoot, Seal, CheckSeal, RecordMaterialized,
              PublishRoot, Create, FillRoot, Match, Close, Check
<1>3. CASE ReserveRoot(j) BY <1>1, <1>3 DEF ReserveRoot, Place, PaperKept
<1>4. CASE CopyLayer(j) BY <1>1, <1>4 DEF CopyLayer, Place, PaperKept
<1>5. CASE RecordRoot(j) BY <1>1, <1>5 DEF RecordRoot, Place, PaperKept, RootShape
<1>6. CASE StopJob(j) BY <1>1, <1>6 DEF StopJob, Place, PaperKept, RootShape
<1> QED BY <1>2, <1>3, <1>4, <1>5, <1>6

\* A step of a job is its own: what the others are at stays.
Same(k) ==
  /\ jobAt'[k] = jobAt[k] /\ task'[k] = task[k]
  /\ saw'[k] = saw[k] /\ noted'[k] = noted[k]

LEMMA OthersStay ==
  ASSUME NEW j \in Jobs, RootInv, JobStep(j), NEW k \in Jobs, k # j
  PROVE  Same(k)
<1>1. RootShape BY DEF RootInv
<1>2. jobAt'[k] = jobAt[k]
  <2>1. UNCHANGED jobAt \/ \E to : jobAt' = [jobAt EXCEPT ![j] = to]
    BY DEF JobStep, JobMoves, Goto, BeginJob, Provision, MakeParent, MakeStaging,
           RecordPlacement, Export, Pack, AppendRepositories, Tally, AdmitRoot, ReserveRoot,
           CopyLayer, CopyRepositories, Extract, CompareRoot, Seal, CheckSeal,
           RecordMaterialized, PublishRoot, Create, FillRoot, Match, Close, Check,
           RecordRoot, StopJob
  <2> QED BY <1>1, <2>1 DEF RootShape
<1>3. task'[k] = task[k]
  <2>1. UNCHANGED task \/ \E what : task' = [task EXCEPT ![j] = what]
    BY DEF JobStep, JobMoves, BeginJob, Provision, MakeParent, MakeStaging, RecordPlacement,
           Export, Pack, AppendRepositories, Tally, AdmitRoot, ReserveRoot, CopyLayer,
           CopyRepositories, Extract, CompareRoot, Seal, CheckSeal, RecordMaterialized,
           PublishRoot, Create, FillRoot, Match, Close, Check, RecordRoot, StopJob
  <2> QED BY <1>1, <2>1 DEF RootShape
<1>4. saw'[k] = saw[k]
  <2>1. UNCHANGED saw \/ \E what : saw' = [saw EXCEPT ![j] = what]
    BY DEF JobStep, JobMoves, See, BeginJob, Provision, MakeParent, MakeStaging,
           RecordPlacement, Export, Pack, AppendRepositories, Tally, AdmitRoot, ReserveRoot,
           CopyLayer, CopyRepositories, Extract, CompareRoot, Seal, CheckSeal,
           RecordMaterialized, PublishRoot, Create, FillRoot, Match, Close, Check,
           RecordRoot, StopJob
  <2> QED BY <1>1, <2>1 DEF RootShape
<1>5. noted'[k] = noted[k]
  <2>1. UNCHANGED noted \/ \E what : noted' = [noted EXCEPT ![j] = what]
    BY DEF JobStep, JobMoves, Provision, MakeParent, MakeStaging, RecordPlacement, Export,
           Pack, AppendRepositories, Tally, AdmitRoot, ReserveRoot, CopyLayer,
           CopyRepositories, Extract, CompareRoot, Seal, CheckSeal, RecordMaterialized,
           PublishRoot, Create, FillRoot, Match, Close, Check, RecordRoot, StopJob
  <2> QED BY <1>1, <2>1 DEF RootShape
<1> QED BY <1>2, <1>3, <1>4, <1>5 DEF Same

\* What is sound stays so for a job that does not move, and for a receipt.
LEMMA StagedStays ==
  ASSUME StagingKept, NEW p \in Stagings, NEW what,
         staging[p].state # "absent", StagedAs(p, what)
  PROVE  staging'[p].state = "made" => staging'[p].sealed /\ staging'[p].content = what
BY DEF StagingKept, StagedAs

LEMMA RootedStays ==
  ASSUME RootKept, NEW i \in Nat, i <= root.id, root.id \in Nat, root'.id \in Nat, NEW what,
         RootedAs(i, what)
  PROVE  root'.made /\ root'.id = i => root'.sealed /\ root'.content = what
BY DEF RootKept, RootedAs

LEMMA StillSound ==
  ASSUME RootInv, RootShape', StagingKept, RootKept, PaperKept, NEW k \in Jobs, Same(k)
  PROVE  JobIsSound(k)'
<1> DEFINE p == task[k].place
<1>1. /\ p \in Stagings /\ noted[k] \in Nat /\ root.id \in Nat /\ root'.id \in Nat
      /\ JobIsSound(k) /\ PlaceIsSound(p)
  BY RootFields DEF RootInv, RootShape
<1>2. task'[k].place = p BY DEF Same
<1> HIDE DEF p
<1>3. jobAt[k] = "reserve" => staging'[p].state # "absent"
  BY <1>1 DEF JobIsSound, StagingKept, p
<1>4. jobAt[k] \in Finishing => "finish" \in begun'[p] BY <1>1 DEF JobIsSound, PaperKept, p
<1>5. jobAt[k] \in Passed =>
        (staging'[p].state = "made" => staging'[p].sealed /\ staging'[p].content = saw[k])
  <2>1. jobAt[k] \in Passed => "finish" \in begun[p] /\ StagedAs(p, saw[k])
    BY <1>1 DEF JobIsSound, p, Passed, Finishing
  <2> QED BY <1>1, <2>1, StagedStays DEF PlaceIsSound
<1>6. jobAt[k] \in Noting => noted[k] <= root'.id
  BY <1>1 DEF JobIsSound, RootKept
<1>7. jobAt[k] = "record" =>
        (root'.made /\ root'.id = noted[k] => root'.sealed /\ root'.content = saw[k])
  <2>1. jobAt[k] = "record" => noted[k] <= root.id /\ RootedAs(noted[k], saw[k])
    BY <1>1 DEF JobIsSound, Noting
  <2> QED BY <1>1, <2>1, RootedStays
<1> QED BY <1>2, <1>3, <1>4, <1>5, <1>6, <1>7 DEF JobIsSound, Same, StagedAs, RootedAs

\* The job that moves is sound where it comes to.
LEMMA OwnStep ==
  ASSUME NEW j \in Jobs, RootInv, JobStep(j)
  PROVE  JobIsSound(j)'
<1> DEFINE p == task[j].place
<1>1. /\ RootShape /\ p \in Stagings /\ JobIsSound(j) /\ PlaceIsSound(p)
      /\ root \in RootRows /\ root.id \in Nat /\ noted[j] \in Nat
      /\ staging \in [Stagings -> StagingRows]
      /\ begun \in [Stagings -> SUBSET {"finish", "materialize"}]
  BY RootFields DEF RootInv, RootShape
<1>2. StagingKept /\ RootKept /\ PaperKept /\ root'.id \in Nat
  BY StagingMoves, RootMoves, PaperMoves, RootFields
<1> HIDE DEF p
<1>3. CASE jobAt'[j] \notin Finishing \cup {"reserve"}
  BY <1>3 DEF JobIsSound, Finishing, Passed, Noting
<1>4. CASE AdmitRoot(j)
  <2>1. PICK kind \in {"finish", "receive"}, q \in Stagings :
          Vacant(q) /\ BeginJob(j, kind, q, "reserve") /\ UNCHANGED staging
    BY <1>4 DEF AdmitRoot
  <2>2. task' = [task EXCEPT ![j] = [kind |-> kind, place |-> q]]
    BY <2>1 DEF BeginJob
  <2>3. task'[j].place = q BY <1>1, <2>2 DEF RootShape
  <2>4. jobAt'[j] = "reserve" BY <1>1, <2>1 DEF BeginJob, Goto, RootShape
  <2>5. staging'[q].state # "absent" BY <2>1 DEF Vacant, Writable
  <2> QED BY <2>3, <2>4, <2>5 DEF JobIsSound, Finishing, Passed, Noting
<1>5. ASSUME NEW from, NEW to, JobMoves(j, from, to)
      PROVE  /\ jobAt[j] = from /\ jobAt'[j] = to /\ task'[j].place = p
             /\ noted'[j] = noted[j]
  BY <1>1, <1>5 DEF JobMoves, Goto, RootShape, p
<1>6. CASE ReserveRoot(j)
  <2>1. /\ JobMoves(j, "reserve", IF Local(j) THEN "materialize" ELSE "extract")
        /\ begun' = [begun EXCEPT ![p] = @ \cup {"finish"}]
    BY <1>6 DEF ReserveRoot, Place, p
  <2>2. jobAt'[j] \in {"materialize", "extract"} /\ task'[j].place = p BY <1>5, <2>1
  <2>3. "finish" \in begun'[p] BY <1>1, <2>1
  <2> QED BY <2>2, <2>3 DEF JobIsSound, Finishing, Passed, Noting
<1>7. ASSUME jobAt[j] \in Finishing, jobAt'[j] \in Finishing \ Passed, task'[j].place = p
      PROVE  JobIsSound(j)'
  <2>1. "finish" \in begun'[p] BY <1>1, <1>2, <1>7 DEF JobIsSound, PaperKept, p
  <2> QED BY <1>7, <2>1 DEF JobIsSound, Finishing, Passed, Noting
<1>8. CASE CopyLayer(j)
  <2>1. JobMoves(j, "materialize", "repos") BY <1>8 DEF CopyLayer
  <2> QED BY <1>5, <1>7, <2>1 DEF Finishing, Passed
<1>9. CASE CopyRepositories(j)
  <2>1. JobMoves(j, "repos", "compare") BY <1>9 DEF CopyRepositories
  <2> QED BY <1>5, <1>7, <2>1 DEF Finishing, Passed
<1>10. CASE Extract(j)
  <2>1. JobMoves(j, "extract", "compare") BY <1>10 DEF Extract
  <2> QED BY <1>5, <1>7, <2>1 DEF Finishing, Passed
<1>11. CASE CompareRoot(j)
  <2>1. JobMoves(j, "compare", "seal") BY <1>11 DEF CompareRoot
  <2> QED BY <1>5, <1>7, <2>1 DEF Finishing, Passed
<1>12. CASE Seal(j)
  <2>1. JobMoves(j, "seal", "sealed") BY <1>12 DEF Seal
  <2> QED BY <1>5, <1>7, <2>1 DEF Finishing, Passed
<1>13. CASE CheckSeal(j)
  <2>1. /\ JobMoves(j, "sealed", IF Local(j) THEN "receipt" ELSE "publish")
        /\ StagedWhole(j) /\ saw' = saw /\ staging' = staging
    BY <1>13 DEF CheckSeal
  <2>2. jobAt[j] = "sealed" /\ jobAt'[j] \in {"receipt", "publish"} /\ task'[j].place = p
    BY <1>5, <2>1
  <2>3. staging'[p].sealed /\ staging'[p].content = saw'[j]
    BY <2>1 DEF StagedWhole, Sealed, Place, p
  <2>4. "finish" \in begun'[p] BY <1>1, <1>2, <2>2 DEF JobIsSound, PaperKept, p, Finishing
  <2> QED BY <2>2, <2>3, <2>4 DEF JobIsSound, StagedAs, Noting
\* From here on the staging stays as it was seen.
<1>14. ASSUME jobAt[j] \in Passed, jobAt'[j] \in Passed, task'[j].place = p,
              saw'[j] = saw[j]
       PROVE  /\ "finish" \in begun'[task'[j].place]
              /\ StagedAs(task[j].place, saw[j])'
  <2>1. "finish" \in begun[p] /\ StagedAs(p, saw[j])
    BY <1>1, <1>14 DEF JobIsSound, p, Passed, Finishing
  <2>2. "finish" \in begun'[p] BY <1>1, <1>2, <2>1 DEF PaperKept
  <2>3. staging'[p].state = "made" => staging'[p].sealed /\ staging'[p].content = saw[j]
    BY <1>1, <1>2, <2>1, StagedStays DEF PlaceIsSound
  <2> QED BY <1>14, <2>2, <2>3 DEF StagedAs
<1>15. CASE RecordMaterialized(j)
  <2>1. JobMoves(j, "receipt", "publish") /\ saw' = saw BY <1>15 DEF RecordMaterialized
  <2>2. jobAt[j] = "receipt" /\ jobAt'[j] = "publish" /\ task'[j].place = p BY <1>5, <2>1
  <2> QED BY <1>14, <2>1, <2>2 DEF JobIsSound, Passed, Noting
<1>16. CASE PublishRoot(j)
  <2>1. JobMoves(j, "publish", "create") /\ saw' = saw BY <1>16 DEF PublishRoot
  <2>2. jobAt[j] = "publish" /\ jobAt'[j] = "create" /\ task'[j].place = p BY <1>5, <2>1
  <2> QED BY <1>14, <2>1, <2>2 DEF JobIsSound, Passed, Noting
<1>17. CASE Create(j)
  <2>1. /\ jobAt[j] = "create" /\ Goto(j, "fill") /\ task' = task /\ saw' = saw
        /\ root' = [root EXCEPT !.made = TRUE, !.id = @ + 1]
        /\ noted' = [noted EXCEPT ![j] = root.id + 1]
    BY <1>17 DEF Create
  <2>2. jobAt'[j] = "fill" /\ task'[j].place = p
    BY <1>1, <2>1 DEF Goto, RootShape, p
  <2>3. noted'[j] = root.id + 1 BY <1>1, <2>1 DEF RootShape
  <2>4. root'.id = root.id + 1
    <3> DEFINE new == [root EXCEPT !.made = TRUE]
    <3>1. root' = [new EXCEPT !.id = root.id + 1] BY <2>1
    <3>2. new \in RootRows BY <1>1, RootMade, Zenon
    <3> HIDE DEF new
    <3>3. root.id + 1 \in Nat BY <1>1
    <3> QED BY <3>1, <3>2, <3>3, RootId, Zenon
  <2>5. noted'[j] <= root'.id BY <1>1, <2>3, <2>4
  <2> QED BY <1>14, <2>1, <2>2, <2>5 DEF JobIsSound, Passed, Noting
<1>18. ASSUME jobAt[j] \in Noting, jobAt'[j] \in Noting \ {"record"}, task'[j].place = p,
              saw'[j] = saw[j], noted'[j] = noted[j]
       PROVE  JobIsSound(j)'
  <2>1. noted'[j] <= root'.id BY <1>1, <1>2, <1>18 DEF JobIsSound, RootKept
  <2>2. jobAt[j] \in Passed /\ jobAt'[j] \in Passed BY <1>18 DEF Noting, Passed
  <2>3. jobAt'[j] # "reserve" BY <1>18 DEF Noting
  <2> QED BY <1>14, <1>18, <2>1, <2>2, <2>3 DEF JobIsSound
<1>19. CASE FillRoot(j)
  <2>1. JobMoves(j, "fill", "match") /\ saw' = saw BY <1>19 DEF FillRoot
  <2>2. /\ jobAt[j] = "fill" /\ jobAt'[j] = "match" /\ task'[j].place = p
        /\ noted'[j] = noted[j]
    BY <1>5, <2>1
  <2> QED BY <1>18, <2>1, <2>2 DEF Noting
<1>20. CASE Match(j)
  <2>1. JobMoves(j, "match", "close") /\ saw' = saw BY <1>20 DEF Match
  <2>2. /\ jobAt[j] = "match" /\ jobAt'[j] = "close" /\ task'[j].place = p
        /\ noted'[j] = noted[j]
    BY <1>5, <2>1
  <2> QED BY <1>18, <2>1, <2>2 DEF Noting
<1>21. CASE Close(j)
  <2>1. JobMoves(j, "close", "check") /\ saw' = saw BY <1>21 DEF Close
  <2>2. /\ jobAt[j] = "close" /\ jobAt'[j] = "check" /\ task'[j].place = p
        /\ noted'[j] = noted[j]
    BY <1>5, <2>1
  <2> QED BY <1>18, <2>1, <2>2 DEF Noting
<1>22. CASE Check(j)
  <2>1. JobMoves(j, "check", "record") /\ saw' = saw /\ root' = root /\ Accepted(j)
    BY <1>22 DEF Check
  <2>2. /\ jobAt[j] = "check" /\ jobAt'[j] = "record" /\ task'[j].place = p
        /\ noted'[j] = noted[j]
    BY <1>5, <2>1
  <2>3. noted'[j] <= root'.id BY <1>1, <2>1, <2>2 DEF JobIsSound, Noting
  <2>4. root'.sealed /\ root'.content = saw'[j] BY <2>1 DEF Accepted
  <2> QED BY <1>14, <2>1, <2>2, <2>3, <2>4 DEF JobIsSound, RootedAs, Passed
<1>23. ASSUME NEW to, Goto(j, to) PROVE jobAt'[j] = to BY <1>1, <1>23 DEF Goto, RootShape
<1>24. CASE \/ Provision(j) \/ MakeParent(j) \/ MakeStaging(j) \/ RecordPlacement(j)
            \/ Export(j) \/ Pack(j) \/ AppendRepositories(j) \/ Tally(j)
            \/ RecordRoot(j) \/ StopJob(j)
  <2>1. \/ jobAt' = jobAt /\ jobAt[j] = "parents"
        \/ \E to \in {"parents", "child", "place", "idle", "pack", "append", "tally"} :
             jobAt' = [jobAt EXCEPT ![j] = to]
    BY <1>24 DEF Provision, MakeParent, MakeStaging, RecordPlacement, Export, Pack,
         AppendRepositories, Tally, RecordRoot, StopJob, JobMoves, BeginJob, Goto
  <2>2. jobAt'[j] \in {"parents", "child", "place", "idle", "pack", "append", "tally"}
    BY <1>1, <2>1 DEF RootShape
  <2> QED BY <1>3, <2>2 DEF Finishing
<1> QED
  BY <1>4, <1>6, <1>8, <1>9, <1>10, <1>11, <1>12, <1>13, <1>15, <1>16, <1>17, <1>19, <1>20,
     <1>21, <1>22, <1>24 DEF JobStep

\* Only its own reservation lets a job work on a staging.
LEMMA WorkIsReserved ==
  ASSUME NEW j \in Jobs, RootInv, JobStep(j)
  PROVE  /\ jobAt'[j] \in Finishing =>
              \/ jobAt[j] \in Finishing /\ task'[j].place = task[j].place
              \/ ReserveRoot(j) /\ task'[j].place = task[j].place
         /\ jobAt'[j] \in {"materialize", "extract"} => ReserveRoot(j)
<1>1. RootShape BY DEF RootInv
<1>2. CASE jobAt' = jobAt /\ jobAt[j] = "parents"
  BY <1>2 DEF Finishing
<1>3. ASSUME NEW from, NEW to, JobMoves(j, from, to)
      PROVE  /\ jobAt[j] = from /\ jobAt'[j] = to /\ task'[j].place = task[j].place
  BY <1>1, <1>3 DEF JobMoves, Goto, RootShape
<1>4. CASE ReserveRoot(j)
  BY <1>3, <1>4 DEF ReserveRoot
<1>5. CASE Provision(j) \/ Export(j) \/ AdmitRoot(j) \/ StopJob(j) \/ MakeParent(j)
  <2>1. \/ jobAt' = jobAt /\ jobAt[j] = "parents"
        \/ \E to \in {"parents", "child", "reserve", "idle", "pack"} :
             jobAt' = [jobAt EXCEPT ![j] = to]
    BY <1>5 DEF Provision, Export, AdmitRoot, StopJob, MakeParent, BeginJob, Goto
  <2>2. jobAt'[j] \notin Finishing BY <1>1, <2>1 DEF RootShape, Finishing
  <2> QED BY <2>2 DEF Finishing
<1>6. CASE Create(j)
  BY <1>1, <1>6 DEF Create, Goto, RootShape, Finishing
<1>7. CASE MakeStaging(j) \/ RecordPlacement(j) \/ Pack(j) \/ AppendRepositories(j) \/
           Tally(j) \/ CopyLayer(j) \/ CopyRepositories(j) \/ Extract(j) \/ CompareRoot(j)
           \/ Seal(j) \/ RecordMaterialized(j) \/ PublishRoot(j) \/ FillRoot(j) \/ Match(j)
           \/ Close(j) \/ Check(j) \/ RecordRoot(j)
  <2>1. \E from, to :
           JobMoves(j, from, to)
           /\ (from \in Finishing \/ to \notin Finishing) /\ to \notin {"materialize", "extract"}
    BY <1>7 DEF Finishing, MakeStaging, RecordPlacement, Pack, AppendRepositories, Tally,
                CopyLayer, CopyRepositories, Extract, CompareRoot, Seal, RecordMaterialized,
                PublishRoot, FillRoot, Match, Close, Check, RecordRoot
  <2> QED BY <1>3, <2>1
<1>8. CASE CheckSeal(j)
  <2>1. JobMoves(j, "sealed", IF Local(j) THEN "receipt" ELSE "publish")
    BY <1>8 DEF CheckSeal
  <2>2. jobAt[j] = "sealed" /\ jobAt'[j] \in {"receipt", "publish"}
        /\ task'[j].place = task[j].place
    BY <1>3, <2>1
  <2> QED BY <2>2 DEF Finishing
<1> QED BY <1>4, <1>5, <1>6, <1>7, <1>8 DEF JobStep

LEMMA OneJobEachStep ==
  ASSUME NEW j \in Jobs, RootInv, JobStep(j)
  PROVE  OneJobEach'
<1> SUFFICES ASSUME NEW a \in Jobs, NEW b \in Jobs,
                    jobAt'[a] \in Finishing, jobAt'[b] \in Finishing,
                    task'[a].place = task'[b].place, a # b
             PROVE  FALSE
  BY DEF OneJobEach
<1>1. RootShape /\ OneJobEach /\ \A k \in Jobs : JobIsSound(k) BY DEF RootInv
<1>2. ASSUME NEW k \in Jobs, k # j, jobAt'[k] \in Finishing,
             jobAt'[j] \in Finishing, task'[k].place = task'[j].place
      PROVE  FALSE
  <2>1. /\ jobAt[k] \in Finishing /\ task'[k].place = task[k].place
        /\ "finish" \in begun[task[k].place]
    BY <1>1, <1>2, OthersStay DEF Same, JobIsSound
  <2>2. CASE jobAt[j] \in Finishing /\ task'[j].place = task[j].place
    BY <1>1, <1>2, <2>1, <2>2 DEF OneJobEach
  <2>3. CASE ReserveRoot(j) /\ task'[j].place = task[j].place
    <3>1. "finish" \notin begun[task[j].place] BY <2>3 DEF ReserveRoot, Place
    <3> QED BY <1>2, <2>1, <2>3, <3>1
  <2> QED BY <1>2, <2>2, <2>3, WorkIsReserved
<1>3. CASE a = j BY <1>2, <1>3
<1>4. CASE b = j BY <1>2, <1>4
<1>5. CASE a # j /\ b # j
  BY <1>1, <1>5, OthersStay DEF OneJobEach, Same
<1> QED BY <1>3, <1>4, <1>5

\* A receipt stays true, and so does that a staging was filled once.
LEMMA PlaceStep ==
  ASSUME NEW j \in Jobs, RootInv, JobStep(j) \/ Tamper, NEW p \in Stagings
  PROVE  PlaceIsSound(p)'
<1>1. /\ RootShape /\ PlaceIsSound(p) /\ root.id \in Nat /\ root'.id \in Nat
      /\ task[j].place \in Stagings /\ JobIsSound(j)
      /\ begun \in [Stagings -> SUBSET {"finish", "materialize"}]
      /\ fills \in [Stagings -> Nat] /\ noted[j] \in Nat
      /\ StagingKept /\ RootKept /\ PaperKept
  BY StagingMoves, RootMoves, PaperMoves, RootFields DEF RootInv, RootShape
<1>2. "finish" \in begun'[p] => staging'[p].state # "absent"
  <2>1. CASE "finish" \in begun[p]
    BY <1>1, <2>1 DEF PlaceIsSound, StagingKept
  <2>2. CASE ReserveRoot(j)
    <3>1. /\ jobAt[j] = "reserve" /\ staging' = staging
          /\ begun' = [begun EXCEPT ![task[j].place] = @ \cup {"finish"}]
      BY <2>2 DEF ReserveRoot, Place, JobMoves
    <3>2. CASE p = task[j].place BY <1>1, <3>1, <3>2 DEF JobIsSound
    <3>3. CASE p # task[j].place BY <1>1, <3>1, <3>3, <2>1
    <3> QED BY <3>2, <3>3
  <2>3. CASE CopyLayer(j)
    <3>1. begun' = [begun EXCEPT ![task[j].place] = @ \cup {"materialize"}]
      BY <2>3 DEF CopyLayer, Place
    <3> QED BY <1>1, <3>1, <2>1
  <2>4. CASE (JobStep(j) \/ Tamper) /\ ~ReserveRoot(j) /\ ~CopyLayer(j)
    <3>1. begun' = begun
      BY <2>4, Zenon DEF JobStep, Tamper, paper, Provision, MakeParent, MakeStaging,
                  RecordPlacement, Export, Pack, AppendRepositories, Tally, AdmitRoot,
                  CopyRepositories, Extract, CompareRoot, Seal, CheckSeal,
                  RecordMaterialized, PublishRoot, Create, FillRoot, Match, Close, Check,
                  RecordRoot, StopJob
    <3> QED BY <3>1, <2>1, Zenon
  <2> QED BY <2>2, <2>3, <2>4
<1>3. /\ fills'[p] \in {0, 1}
      /\ fills'[p] = 1 =>
           /\ "finish" \in begun'[p]
           /\ \A k \in Jobs : task'[k].place = p => jobAt'[k] \notin {"materialize", "extract"}
  <2>1. ASSUME JobStep(j), jobAt[j] \in {"materialize", "extract"},
               jobAt'[j] \notin {"materialize", "extract"},
               fills' = [fills EXCEPT ![task[j].place] = @ + 1]
        PROVE  /\ fills'[p] \in {0, 1}
               /\ fills'[p] = 1 =>
                    /\ "finish" \in begun'[p]
                    /\ \A k \in Jobs : task'[k].place = p =>
                                        jobAt'[k] \notin {"materialize", "extract"}
    <3>1. CASE p = task[j].place
      <4>1. fills[p] = 0 BY <1>1, <2>1, <3>1 DEF PlaceIsSound
      <4>2. fills'[p] = 1 BY <1>1, <2>1, <3>1, <4>1
      <4>3. "finish" \in begun'[p]
        BY <1>1, <2>1, <3>1 DEF JobIsSound, PaperKept, Finishing
      <4>4. ASSUME NEW k \in Jobs, task'[k].place = p, jobAt'[k] \in {"materialize", "extract"}
            PROVE  FALSE
        <5>1. k # j BY <2>1, <4>4
        <5>2. jobAt[k] \in {"materialize", "extract"} /\ task[k].place = p
          BY <2>1, <4>4, <5>1, OthersStay DEF Same
        <5> QED BY <2>1, <3>1, <5>1, <5>2 DEF RootInv, OneJobEach, Finishing
      <4> QED BY <4>2, <4>3, <4>4
    <3>2. CASE p # task[j].place
      <4>1. fills'[p] = fills[p] BY <1>1, <2>1, <3>2
      <4>2. \A k \in Jobs : task'[k].place = p /\ jobAt'[k] \in {"materialize", "extract"}
                           => task[k].place = p /\ jobAt[k] \in {"materialize", "extract"}
        BY <2>1, OthersStay DEF Same
      <4> QED BY <1>1, <4>1, <4>2 DEF PlaceIsSound, PaperKept
    <3> QED BY <3>1, <3>2
  <2>2. CASE CopyLayer(j)
    <3>1. /\ JobStep(j) /\ JobMoves(j, "materialize", "repos")
          /\ fills' = [fills EXCEPT ![task[j].place] = @ + 1]
      BY <2>2 DEF JobStep, CopyLayer, Fill, Place
    <3>2. jobAt[j] = "materialize" /\ jobAt'[j] = "repos"
      BY <1>1, <3>1 DEF JobMoves, Goto, RootShape
    <3> QED BY <2>1, <3>1, <3>2
  <2>3. CASE Extract(j)
    <3>1. /\ JobStep(j) /\ JobMoves(j, "extract", "compare")
          /\ fills' = [fills EXCEPT ![task[j].place] = @ + 1]
      BY <2>3 DEF JobStep, Extract, Fill, Place
    <3>2. jobAt[j] = "extract" /\ jobAt'[j] = "compare"
      BY <1>1, <3>1 DEF JobMoves, Goto, RootShape
    <3> QED BY <2>1, <3>1, <3>2
  <2>4. CASE (JobStep(j) \/ Tamper) /\ ~CopyLayer(j) /\ ~Extract(j)
    <3>1. fills' = fills
      BY <2>4, Zenon DEF JobStep, Tamper, Provision, MakeParent, MakeStaging, RecordPlacement,
                  Export, Pack, AppendRepositories, Tally, AdmitRoot, ReserveRoot,
                  CopyRepositories, CompareRoot, Seal, CheckSeal, RecordMaterialized,
                  PublishRoot, Create, FillRoot, Match, Close, Check, RecordRoot, StopJob
    <3>2. fills[p] = 1 => \A k \in Jobs : task'[k].place = p =>
                                          jobAt'[k] \notin {"materialize", "extract"}
      <4> SUFFICES ASSUME fills[p] = 1, NEW k \in Jobs, task'[k].place = p,
                          jobAt'[k] \in {"materialize", "extract"}
                   PROVE  FALSE
        OBVIOUS
      <4>1. /\ "finish" \in begun[p]
            /\ ~(task[k].place = p /\ jobAt[k] \in {"materialize", "extract"})
        BY <1>1, Zenon DEF PlaceIsSound
      <4>2. CASE Tamper BY <4>1, <4>2, Zenon DEF Tamper, job
      <4>3. CASE JobStep(j) /\ k # j BY <4>1, <4>3, OthersStay DEF Same
      <4>4. CASE JobStep(j) /\ k = j
        <5>1. ReserveRoot(j) BY <4>4, WorkIsReserved
        <5>2. jobAt'[j] \in Finishing BY <4>4 DEF Finishing
        <5>3. task'[j].place = task[j].place \/ jobAt[j] \in Finishing
          BY <4>4, <5>2, WorkIsReserved
        <5>4. jobAt[j] = "reserve" /\ "finish" \notin begun[task[j].place]
          BY <5>1 DEF ReserveRoot, JobMoves, Place
        <5> QED BY <4>1, <4>4, <5>3, <5>4 DEF Finishing
      <4> QED BY <4>2, <4>3, <4>4
    <3> QED BY <1>1, <3>1, <3>2, Zenon DEF PlaceIsSound, PaperKept
  <2> QED BY <2>2, <2>3, <2>4
<1>4. ASSUME finished'[p] \notin {Missing, Torn}
      PROVE  /\ "finish" \in begun'[p] /\ finished'[p].id \in Nat
             /\ finished'[p].id <= root'.id
             /\ staging'[p].state = "made" =>
                  staging'[p].sealed /\ staging'[p].content = finished'[p].content
             /\ root'.made /\ root'.id = finished'[p].id =>
                  root'.sealed /\ root'.content = finished'[p].content
  <2>1. CASE finished'[p] = finished[p]
    <3>1. /\ "finish" \in begun[p] /\ finished[p].id <= root.id
          /\ StagedAs(p, finished[p].content)
          /\ RootedAs(finished[p].id, finished[p].content)
          /\ staging[p].state # "absent" /\ finished[p].id \in Nat
      BY <1>1, <1>4, <2>1 DEF PlaceIsSound
    <3>2. "finish" \in begun'[p] /\ finished[p].id <= root'.id
      BY <1>1, <3>1 DEF PaperKept, RootKept
    <3>3. staging'[p].state = "made" =>
            staging'[p].sealed /\ staging'[p].content = finished[p].content
      BY <1>1, <3>1, StagedStays
    <3>4. root'.made /\ root'.id = finished[p].id =>
            root'.sealed /\ root'.content = finished[p].content
      <4> DEFINE i == finished[p].id
             what == finished[p].content
      <4>1. i \in Nat /\ i <= root.id /\ RootedAs(i, what) BY <3>1
      <4> HIDE DEF i, what
      <4>2. root'.made /\ root'.id = i => root'.sealed /\ root'.content = what
        BY <1>1, <4>1, RootedStays
      <4> QED BY <4>2 DEF i, what
    <3> QED BY <2>1, <3>1, <3>2, <3>3, <3>4
  <2>2. CASE RecordRoot(j)
    <3>1. /\ jobAt[j] = "record" /\ UNCHANGED <<staging, begun, root>>
          /\ finished' = [finished EXCEPT ![task[j].place] =
                            [content |-> saw[j], id |-> noted[j]]]
      BY <2>2 DEF RecordRoot, Place, JobMoves
    <3>2. CASE p = task[j].place
      <4>1. finished'[p].content = saw[j] /\ finished'[p].id = noted[j]
        BY <1>1, <3>1, <3>2 DEF RootShape
      <4>2. /\ "finish" \in begun[p] /\ StagedAs(p, saw[j]) /\ noted[j] <= root.id
            /\ RootedAs(noted[j], saw[j])
        BY <1>1, <3>1, <3>2 DEF JobIsSound, Finishing, Passed, Noting
      <4>3. noted[j] \in Nat BY <1>1
      <4> QED BY <3>1, <4>1, <4>2, <4>3 DEF StagedAs, RootedAs
    <3>3. CASE p # task[j].place
      <4>1. finished = [q \in Stagings |-> finished[q]] BY <1>1 DEF RootShape
      <4>2. finished'[p] = finished[p] BY <3>1, <3>3, <4>1
      <4> QED BY <2>1, <4>2
    <3> QED BY <3>2, <3>3
  <2>3. CASE StopJob(j)
    <3>1. finished'[p] \in {finished[p], Torn} BY <1>1, <2>3 DEF StopJob, RootShape
    <3> QED BY <1>4, <2>1, <3>1
  <2>4. CASE (JobStep(j) \/ Tamper) /\ ~RecordRoot(j) /\ ~StopJob(j)
    <3>1. finished' = finished
      BY <2>4, Zenon DEF JobStep, Tamper, paper, Provision, MakeParent, MakeStaging,
                  RecordPlacement, Export, Pack, AppendRepositories, Tally, AdmitRoot,
                  ReserveRoot, CopyLayer, CopyRepositories, Extract, CompareRoot, Seal,
                  CheckSeal, RecordMaterialized, PublishRoot, Create, FillRoot, Match,
                  Close, Check
    <3> QED BY <2>1, <3>1, Zenon
  <2> QED BY <2>2, <2>3, <2>4
<1> QED BY <1>2, <1>3, <1>4 DEF PlaceIsSound, StagedAs, RootedAs

LEMMA RootInitInv == RootInit => RootInv
<1> SUFFICES ASSUME RootInit PROVE RootInv OBVIOUS
<1>1. \A p \in Stagings :
        staging[p] = StagingRow(IF ancestors = 2 THEN "made" ELSE "absent", Empty, FALSE,
                                ancestors = 2)
  BY DEF RootInit, StagingRow
<1>2. staging \in [Stagings -> StagingRows]
  <2>1. staging = [p \in Stagings |-> staging[p]] BY DEF RootInit
  <2>2. (IF ancestors = 2 THEN "made" ELSE "absent") \in States BY DEF States
  <2>3. (ancestors = 2) \in BOOLEAN BY Zenon
  <2>4. FALSE \in BOOLEAN OBVIOUS
  <2>5. StagingRow(IF ancestors = 2 THEN "made" ELSE "absent", Empty, FALSE, ancestors = 2)
          \in StagingRows
    BY <2>2, <2>3, <2>4, StagingRowFields, PairFacts, Zenon
  <2> QED BY <1>1, <2>1, <2>5, Zenon
<1>3. root = RootRow(0, FALSE, FALSE, FALSE, Empty) BY DEF RootInit, RootRow
<1>4. root \in RootRows /\ root.id = 0 /\ root.made = FALSE
  <2>1. 0 \in Nat /\ FALSE \in BOOLEAN /\ Empty \in Pairs BY PairFacts
  <2> QED BY <1>3, <2>1, Zenon DEF RootRow, RootRows
<1>5. (CHOOSE p \in Stagings : TRUE) \in Stagings BY SuiteAssumption
<1>6. \A j \in Jobs : jobAt[j] = "idle" /\ task[j].place \in Stagings
  BY <1>5 DEF RootInit
<1>7. RootShape
  <2>1. /\ jobAt = [j \in Jobs |-> jobAt[j]] /\ task = [j \in Jobs |-> task[j]]
        /\ saw = [j \in Jobs |-> saw[j]] /\ finished = [p \in Stagings |-> finished[p]]
    BY DEF RootInit
  <2>2. /\ noted \in [Jobs -> Nat] /\ ancestors \in Nat /\ fills \in [Stagings -> Nat]
        /\ begun \in [Stagings -> SUBSET {"finish", "materialize"}]
        /\ layer \in Versions /\ repos \in Versions
    BY DEF RootInit, Versions
  <2> QED BY <1>2, <1>4, <1>6, <2>1, <2>2 DEF RootShape
<1>8. \A j \in Jobs : JobIsSound(j)
  BY <1>6 DEF JobIsSound, Finishing, Passed, Noting
<1>9. \A p \in Stagings : PlaceIsSound(p)
  BY DEF RootInit, PlaceIsSound
<1> QED BY <1>6, <1>7, <1>8, <1>9 DEF RootInv, OneJobEach, Finishing

LEMMA RootStep ==
  ASSUME RootInv, [RootNext]_rootVars
  PROVE  RootInv'
<1>1. CASE UNCHANGED rootVars
  BY <1>1 DEF rootVars, RootInv, RootShape, OneJobEach, JobIsSound, PlaceIsSound, StagedAs,
     RootedAs
<1>2. ASSUME NEW j \in Jobs, JobStep(j) PROVE RootInv'
  <2>1. RootShape' BY <1>2, RootShapeStep
  <2>2. OneJobEach' BY <1>2, OneJobEachStep
  <2>3. ASSUME NEW k \in Jobs PROVE JobIsSound(k)'
    <3>1. CASE k = j BY <1>2, <3>1, OwnStep
    <3>2. CASE k # j
      <4>1. Same(k) BY <1>2, <3>2, OthersStay
      <4>2. StagingKept /\ RootKept /\ PaperKept
        BY <1>2, StagingMoves, RootMoves, PaperMoves
      <4> QED BY <2>1, <4>1, <4>2, StillSound
    <3> QED BY <3>1, <3>2
  <2>4. ASSUME NEW p \in Stagings PROVE PlaceIsSound(p)' BY <1>2, PlaceStep
  <2> QED BY <2>1, <2>2, <2>3, <2>4 DEF RootInv
<1>3. CASE Tamper
  <2>1. UNCHANGED <<jobAt, task, saw, noted, begun, finished, fills>>
    BY <1>3 DEF Tamper, job, paper
  <2>2. PICK j \in Jobs : TRUE BY SuiteAssumption
  <2>3. StagingKept /\ RootKept /\ PaperKept /\ RootShape'
    BY <1>3, <2>2, StagingMoves, RootMoves, PaperMoves, RootShapeStep
  <2>4. OneJobEach' BY <2>1 DEF RootInv, OneJobEach
  <2>5. ASSUME NEW k \in Jobs PROVE JobIsSound(k)'
    <3>1. Same(k) BY <2>1 DEF Same
    <3> QED BY <2>3, <3>1, StillSound
  <2>6. ASSUME NEW p \in Stagings PROVE PlaceIsSound(p)' BY <1>3, <2>2, PlaceStep
  <2> QED BY <2>3, <2>4, <2>5, <2>6 DEF RootInv
<1> QED BY <1>1, <1>2, <1>3 DEF RootNext

LEMMA RootIsWhole == RootInv => CompletedIsWhole /\ FilledOnce
BY DEF RootInv, PlaceIsSound, StagedAs, RootedAs, CompletedIsWhole, FilledOnce

-----------------------------------------------------------------------------
(***************************************************************************)
(* The identity of a host.  A capture is of one instant of its source      *)
(* because a write that changes a file changes its stamp; a recorded       *)
(* marker stays, so every later capture of the reference is the same.      *)
(***************************************************************************)
Good(bytes) == bytes \in held /\ Fitting(bytes)

Publishing == {"reserve", "prepare", "stage", "clear", "rename", "machine", "readback", "mark",
               "record"}

\* What was read of the source is what a file with the noted stamp holds.
SourceIsRead ==
  \A p \in Processes, f \in Files :
    stepAt[p] = "read" /\ aim[p] = "source" =>
      /\ stamps[p][f] <= identity[f].stamp
      /\ f \notin unread[p] /\ stamps[p][f] = identity[f].stamp =>
           material[p][f] = identity[f].content

TakenIsGood ==
  /\ Contents(identity) \in held
  /\ \A p \in Processes : aim[p] = "copy" \/ stepAt[p] \in Publishing => Good(taken[p])

Recorders == {p \in Processes : stepAt[p] = "record" /\ inside[p] = generation.id}

\* One publisher at a time may fill the marker of the directory that is there.
MarkerIsOnes ==
  /\ \A p \in Processes : inside[p] <= generation.id
  /\ generation.made => \A p \in Recorders : marker = TornMarker
  /\ generation.made => \A p, q \in Recorders : p = q

GivenIsMarked ==
  /\ marker \in Material => Good(marker)
  /\ \A m \in given : m = marker

\* The inductive invariant.
IdentityInv == IdentityTypeOK /\ SourceIsRead /\ TakenIsGood /\ MarkerIsOnes /\ GivenIsMarked

LEMMA MarkerFacts ==
  /\ NoMarker \notin Material /\ TornMarker \notin Material /\ NoMarker # TornMarker
  /\ NoMarker \in [torn : BOOLEAN] /\ TornMarker \in [torn : BOOLEAN]
<1>1. \A m \in Material : DOMAIN m = Files BY DEF Material
<1>2. DOMAIN NoMarker = {"torn"} /\ DOMAIN TornMarker = {"torn"} BY DEF NoMarker, TornMarker
<1>3. "key" \in Files /\ "key" # "torn" BY DEF Files
<1>4. NoMarker \notin Material /\ TornMarker \notin Material BY <1>1, <1>2, <1>3
<1>5. NoMarker.torn = FALSE /\ TornMarker.torn = TRUE BY DEF NoMarker, TornMarker
<1> QED BY <1>4, <1>5 DEF NoMarker, TornMarker

LEMMA TreeFacts ==
  /\ \A b \in Bytes : Bare(b) \in Trees
  /\ \A t \in Trees, fs \in SUBSET Files, m \in Material : Put(t, fs, m) \in Trees
  /\ \A t \in Trees, fs \in SUBSET Files : Drop(t, fs) \in Trees
  /\ \A t \in Trees : Contents(t) \in Material /\ Stamps(t) \in [Files -> Nat]
  /\ \A t \in Trees, fs \in SUBSET Files : Edited(t, fs) \in Trees
<1>1. \A t \in Trees, f \in Files : t[f].content \in Bytes /\ t[f].stamp \in Nat
        /\ t[f] \in [content : Bytes, stamp : Nat] BY DEF Trees
<1>2. \A b \in Bytes : Bare(b) \in Trees BY DEF Bare, Trees
<1>3. \A t \in Trees, fs \in SUBSET Files, m \in Material : Put(t, fs, m) \in Trees
  <2> SUFFICES ASSUME NEW t \in Trees, NEW fs \in SUBSET Files, NEW m \in Material
               PROVE  Put(t, fs, m) \in Trees OBVIOUS
  <2>1. \A f \in Files : m[f] \in Bytes BY DEF Material
  <2>2. \A f \in Files : (IF f \in fs THEN [content |-> m[f], stamp |-> t[f].stamp + 1] ELSE t[f])
                           \in [content : Bytes, stamp : Nat] BY <1>1, <2>1
  <2> QED BY <2>2 DEF Put, Trees
<1>4. \A t \in Trees, fs \in SUBSET Files : Drop(t, fs) \in Trees
  <2> SUFFICES ASSUME NEW t \in Trees, NEW fs \in SUBSET Files PROVE Drop(t, fs) \in Trees OBVIOUS
  <2>1. \A f \in Files : (IF f \in fs THEN [t[f] EXCEPT !.content = "absent"] ELSE t[f])
                           \in [content : Bytes, stamp : Nat] BY <1>1 DEF Bytes
  <2> QED BY <2>1 DEF Drop, Trees
<1>5. \A t \in Trees : Contents(t) \in Material /\ Stamps(t) \in [Files -> Nat]
  BY <1>1 DEF Contents, Stamps, Material
<1>6. \A t \in Trees, fs \in SUBSET Files : Edited(t, fs) \in Trees
  <2> SUFFICES ASSUME NEW t \in Trees, NEW fs \in SUBSET Files PROVE Edited(t, fs) \in Trees OBVIOUS
  <2>1. [f \in Files |-> Other(t[f].content)] \in Material BY DEF Material, Other, Bytes
  <2> QED BY <1>3, <2>1 DEF Edited
<1> QED BY <1>2, <1>3, <1>4, <1>5, <1>6

LEMMA IdentityStart == IdentityInit => IdentityInv
<1> SUFFICES ASSUME IdentityInit PROVE IdentityInv OBVIOUS
<1> USE DEF IdentityInit
<1>1. identity \in Trees /\ generation.files \in Trees BY TreeFacts DEF Bytes
<1>2. Nothing \in Material BY DEF Nothing, Material, Bytes
<1>3. IdentityTypeOK
  <2>1. held \subseteq Material BY <1>1, TreeFacts
  <2>2. generation \in [id : Nat, made : BOOLEAN, prepared : BOOLEAN, files : Trees]
    BY TreeFacts DEF Bytes
  <2>3. /\ stepAt \in [Processes -> {"idle"}] /\ aim \in [Processes -> {"source"}]
        /\ stamps \in [Processes -> [Files -> Nat]] /\ unread \in [Processes -> SUBSET Files]
        /\ material \in [Processes -> Material] /\ taken \in [Processes -> Material]
        /\ seenMarker \in [Processes -> {NoMarker}] /\ inside \in [Processes -> Nat]
    BY <1>2 DEF All
  <2> QED BY <1>1, <2>1, <2>2, <2>3, MarkerFacts, IdentityAssumption DEF IdentityTypeOK
<1>4. SourceIsRead BY DEF SourceIsRead, All
<1>5. TakenIsGood BY DEF TakenIsGood, All, Publishing
<1>6. MarkerIsOnes BY DEF MarkerIsOnes, All, Recorders
<1>7. GivenIsMarked BY MarkerFacts DEF GivenIsMarked
<1> QED BY <1>3, <1>4, <1>5, <1>6, <1>7 DEF IdentityInv

LEMMA BudgetFacts == IdentityTypeOK => \A n \in Nat : Act(n) => edits + n \in 0 .. MaxActs
<1> SUFFICES ASSUME IdentityTypeOK, NEW n \in Nat, Act(n) PROVE edits + n \in 0 .. MaxActs OBVIOUS
<1>1. Begun \in Nat
  BY IdentityAssumption, FS_Subset, FS_CardinalityType DEF Begun
<1> QED BY <1>1, IdentityAssumption DEF Act, IdentityTypeOK


LEMMA TreeOfCapture ==
  ASSUME IdentityTypeOK, NEW p \in Processes
  PROVE  Tree(p) \in Trees
BY DEF Tree, IdentityTypeOK

LEMMA EndTypes ==
  ASSUME IdentityTypeOK, NEW p \in Processes, End(p), UNCHANGED <<origin, generation, marker>>,
         given' \subseteq Material
  PROVE  IdentityTypeOK'
<1>1. Nothing \in Material /\ NoMarker \in Material \cup [torn : BOOLEAN]
  BY MarkerFacts DEF Nothing, Material, Bytes
<1>2. stepAt' \in [Processes -> {"idle", "inventory", "read", "reserve", "prepare", "stage", "clear",
                     "rename", "machine", "readback", "mark", "record", "over"}]
  BY DEF End, IdentityTypeOK
<1>3. aim' \in [Processes -> {"source", "copy", "reference"}] BY DEF End, Capturing, IdentityTypeOK
<1>4. /\ stamps' \in [Processes -> [Files -> Nat]] /\ unread' \in [Processes -> SUBSET Files]
      /\ seenMarker' \in [Processes -> Material \cup [torn : BOOLEAN]]
  BY <1>1 DEF End, Forget, IdentityTypeOK
<1>5. /\ material' \in [Processes -> Material] /\ taken' \in [Processes -> Material]
      /\ inside' \in [Processes -> Nat]
  BY <1>1 DEF End, IdentityTypeOK
<1> QED BY <1>2, <1>3, <1>4, <1>5 DEF IdentityTypeOK, origin

\* Every step of a process keeps the shapes.
LEMMA IdentityTypesStep ==
  ASSUME IdentityTypeOK, NEW p \in Processes, IdentityStep(p)
  PROVE  IdentityTypeOK'
<1> USE DEF origin, seen, captured
<1>0. Tree(p) \in Trees BY TreeOfCapture
<1>1. CASE PublishReference(p) BY <1>1 DEF PublishReference, Step, IdentityTypeOK
<1>2. CASE UseReference(p) BY <1>2 DEF UseReference, Step, Capturing, IdentityTypeOK
<1>3. CASE Inventory(p)
  <2>1. Stamps(Tree(p)) \in [Files -> Nat] BY <1>0, TreeFacts
  <2> QED BY <1>3, <2>1 DEF Inventory, Step, IdentityTypeOK
<1>4. CASE ReadMaterial(p)
  <2> PICK f \in unread[p] : /\ unread' = [unread EXCEPT ![p] = @ \ {f}]
                             /\ material' = [material EXCEPT ![p][f] = Tree(p)[f].content]
    BY <1>4 DEF ReadMaterial
  <2>1. f \in Files BY DEF IdentityTypeOK
  <2>2. Tree(p)[f].content \in Bytes BY <1>0, <2>1 DEF Trees
  <2>3. material' \in [Processes -> Material] BY <2>1, <2>2 DEF IdentityTypeOK, Material
  <2>4. unread' \in [Processes -> SUBSET Files] BY DEF IdentityTypeOK
  <2> QED BY <1>4, <2>3, <2>4 DEF ReadMaterial, IdentityTypeOK
<1>5. CASE CaptureSource(p) \/ CaptureCopy(p)
  <2>1. taken' \in [Processes -> Material] BY <1>5 DEF CaptureSource, CaptureCopy, IdentityTypeOK
  <2>2. /\ stamps' \in [Processes -> [Files -> Nat]] /\ unread' \in [Processes -> SUBSET Files]
        /\ seenMarker' \in [Processes -> Material \cup [torn : BOOLEAN]]
    <3>1. Forget(p) BY <1>5 DEF CaptureSource, CaptureCopy
    <3> QED BY <3>1, MarkerFacts DEF Forget, IdentityTypeOK
  <2> QED BY <1>5, <2>1, <2>2 DEF CaptureSource, CaptureCopy, Step, IdentityTypeOK
<1>6. CASE CaptureReference(p)
  <2>1. given' \subseteq Material BY <1>6 DEF CaptureReference, IdentityTypeOK
  <2> QED BY <1>6, <2>1, EndTypes DEF CaptureReference
<1>7. CASE Reserve(p) \/ Prepare(p)
  <2>1. generation' \in [id : Nat, made : BOOLEAN, prepared : BOOLEAN, files : Trees]
    <3>1. CASE Reserve(p)
      <4>1. generation' = [generation EXCEPT !.id = generation.id + 1, !.made = TRUE]
        BY <3>1 DEF Reserve
      <4>2. generation \in [id : Nat, made : BOOLEAN, prepared : BOOLEAN, files : Trees]
            /\ generation.id + 1 \in Nat
        BY DEF IdentityTypeOK
      <4>3. [generation EXCEPT !.id = generation.id + 1]
              \in [id : Nat, made : BOOLEAN, prepared : BOOLEAN, files : Trees]
        BY <4>2
      <4>4. generation' = [[generation EXCEPT !.id = generation.id + 1] EXCEPT !.made = TRUE]
        BY <4>1, <4>2
      <4> QED BY <4>3, <4>4
    <3>2. CASE Prepare(p) BY <3>2 DEF Prepare, IdentityTypeOK
    <3> QED BY <1>7, <3>1, <3>2
  <2> QED BY <1>7, <2>1 DEF Reserve, Prepare, Step, IdentityTypeOK
<1>8. CASE Mark(p) BY <1>8, MarkerFacts DEF Mark, Step, IdentityTypeOK
<1>9. CASE RecordIdentity(p)
  <2>1. Nothing \in Material BY DEF Nothing, Material, Bytes
  <2>2. marker' \in Material \cup [torn : BOOLEAN] BY <1>9 DEF RecordIdentity, IdentityTypeOK
  <2> QED BY <1>9, <2>1, <2>2 DEF RecordIdentity, Step, Capturing, IdentityTypeOK
<1>10. CASE Stage(p) BY <1>10 DEF Stage, Step, IdentityTypeOK
<1>11. CASE ClearSsl(p) \/ RenameSsl(p) \/ ReplaceMachine(p)
  <2>1. PICK t \in Trees : generation' = [generation EXCEPT !.files = t]
    <3>1. Drop(generation.files, Ssl) \in Trees /\ Put(generation.files, Ssl, taken[p]) \in Trees
          /\ Put(generation.files, {"machine"}, taken[p]) \in Trees
      <4>1. Ssl \in SUBSET Files /\ {"machine"} \in SUBSET Files BY DEF Ssl, Files
      <4> QED BY <4>1, TreeFacts DEF IdentityTypeOK
    <3> QED BY <1>11, <3>1 DEF ClearSsl, RenameSsl, ReplaceMachine, Install
  <2>2. generation' \in [id : Nat, made : BOOLEAN, prepared : BOOLEAN, files : Trees]
    BY <2>1 DEF IdentityTypeOK
  <2> QED BY <1>11, <2>2 DEF ClearSsl, RenameSsl, ReplaceMachine, Step, IdentityTypeOK
<1>12. CASE ReadInstalled(p) BY <1>12 DEF ReadInstalled, Step, Capturing, IdentityTypeOK
<1>13. CASE Abort(p)
  BY <1>13, EndTypes DEF Abort, IdentityTypeOK
<1> QED BY <1>1, <1>2, <1>3, <1>4, <1>5, <1>6, <1>7, <1>8, <1>9, <1>10, <1>11, <1>12, <1>13
        DEF IdentityStep

LEMMA OthersTypes ==
  ASSUME IdentityTypeOK, Renew \/ Meddle \/ Discard
  PROVE  IdentityTypeOK'
<1> USE DEF captured, seen
<1>1. CASE Renew
  <2>1. edits' \in 0 .. MaxActs BY <1>1, BudgetFacts DEF Renew
  <2>2. identity' \in Trees
    <3>1. Ssl \in SUBSET Files /\ \A f \in Files : {f} \in SUBSET Files BY DEF Ssl, Files
    <3> QED BY <1>1, <3>1, TreeFacts DEF Renew, IdentityTypeOK
  <2>3. held' \subseteq Material BY <1>1, <2>2, TreeFacts DEF Renew, IdentityTypeOK
  <2> QED BY <1>1, <2>1, <2>2, <2>3 DEF Renew, IdentityTypeOK
<1>2. CASE Meddle
  <2>1. edits' \in 0 .. MaxActs BY <1>2, BudgetFacts DEF Meddle
  <2>2. PICK t \in Trees : generation' = [generation EXCEPT !.files = t]
    <3>1. \A f \in Files : Edited(generation.files, {f}) \in Trees BY TreeFacts DEF IdentityTypeOK
    <3> QED BY <1>2, <3>1 DEF Meddle
  <2>3. generation' \in [id : Nat, made : BOOLEAN, prepared : BOOLEAN, files : Trees]
    BY <2>2 DEF IdentityTypeOK
  <2> QED BY <1>2, <2>1, <2>3 DEF Meddle, IdentityTypeOK
<1>3. CASE Discard
  <2>1. edits' \in 0 .. MaxActs BY <1>3, BudgetFacts DEF Discard
  <2>2. Drop(generation.files, Files) \in Trees BY TreeFacts DEF IdentityTypeOK
  <2>3. generation' \in [id : Nat, made : BOOLEAN, prepared : BOOLEAN, files : Trees]
    BY <1>3, <2>2 DEF Discard, IdentityTypeOK
  <2> QED BY <1>3, <2>1, <2>3, MarkerFacts DEF Discard, IdentityTypeOK
<1> QED BY <1>1, <1>2, <1>3


LEMMA ProcessStays ==
  ASSUME IdentityTypeOK, NEW p \in Processes, IdentityStep(p), NEW q \in Processes, q # p
  PROVE  /\ stepAt'[q] = stepAt[q] /\ aim'[q] = aim[q] /\ stamps'[q] = stamps[q]
         /\ unread'[q] = unread[q] /\ material'[q] = material[q] /\ taken'[q] = taken[q]
         /\ inside'[q] = inside[q]
<1> USE DEF IdentityTypeOK, Step, Capturing, Forget, End, captured, seen
<1>1. CASE PublishReference(p) \/ UseReference(p) \/ Inventory(p)
  BY <1>1 DEF PublishReference, UseReference, Inventory
<1>2. CASE ReadMaterial(p) BY <1>2 DEF ReadMaterial
<1>3. CASE CaptureSource(p) \/ CaptureCopy(p) BY <1>3 DEF CaptureSource, CaptureCopy
<1>4. CASE CaptureReference(p) \/ Abort(p) BY <1>4 DEF CaptureReference, Abort
<1>5. CASE Reserve(p) \/ Prepare(p) \/ Mark(p) BY <1>5 DEF Reserve, Prepare, Mark
<1>6. CASE RecordIdentity(p) BY <1>6 DEF RecordIdentity
<1>7. CASE Stage(p) \/ ClearSsl(p) \/ RenameSsl(p) \/ ReplaceMachine(p) \/ ReadInstalled(p)
  BY <1>7 DEF Stage, ClearSsl, RenameSsl, ReplaceMachine, ReadInstalled
<1> QED BY <1>1, <1>2, <1>3, <1>4, <1>5, <1>6, <1>7 DEF IdentityStep

LEMMA SourceStays ==
  ASSUME NEW p \in Processes, IdentityStep(p)
  PROVE  identity' = identity /\ held' = held
BY DEF IdentityStep, PublishReference, UseReference, Inventory, ReadMaterial, CaptureSource,
   CaptureCopy, CaptureReference, Reserve, Prepare, Mark, RecordIdentity, Stage, ClearSsl,
   RenameSsl, ReplaceMachine, ReadInstalled, Abort, origin

\* A process reads only what is there, and begins with nothing read.
LEMMA SourceReadStep ==
  ASSUME IdentityInv, NEW p \in Processes, IdentityStep(p)
  PROVE  SourceIsRead'
<1> USE DEF IdentityInv
<1>0. identity' = identity BY SourceStays
<1>a. \A f \in Files : identity[f].stamp \in Nat BY DEF IdentityTypeOK, Trees
<1> SUFFICES ASSUME NEW q \in Processes, NEW f \in Files, stepAt'[q] = "read", aim'[q] = "source"
             PROVE  /\ stamps'[q][f] <= identity[f].stamp
                    /\ f \notin unread'[q] /\ stamps'[q][f] = identity[f].stamp =>
                         material'[q][f] = identity[f].content
  BY <1>0 DEF SourceIsRead
<1>1. CASE q # p BY <1>1, ProcessStays DEF SourceIsRead
<1>2. CASE q = p /\ Inventory(p)
  <2>1. /\ stamps' = [stamps EXCEPT ![p] = Stamps(Tree(p))] /\ unread' = [unread EXCEPT ![p] = Files]
        /\ aim' = aim
    BY <1>2 DEF Inventory
  <2>2. stamps'[q] = Stamps(identity) /\ unread'[q] = Files
    BY <1>2, <2>1 DEF Tree, IdentityTypeOK
  <2> QED BY <1>a, <2>2 DEF Stamps
<1>3. CASE q = p /\ ReadMaterial(p)
  <2>1. stepAt[q] = "read" /\ aim[q] = "source" /\ stamps' = stamps
    BY <1>3 DEF ReadMaterial
  <2>2. PICK g \in unread[p] : /\ unread' = [unread EXCEPT ![p] = @ \ {g}]
                               /\ material' = [material EXCEPT ![p][g] = Tree(p)[g].content]
    BY <1>3 DEF ReadMaterial
  <2>3. unread'[q] = unread[q] \ {g} BY <1>3, <2>2 DEF IdentityTypeOK
  <2>4. material'[q][f] = IF f = g THEN identity[f].content ELSE material[q][f]
    BY <1>3, <2>1, <2>2 DEF Tree, IdentityTypeOK, Material
  <2> QED BY <2>1, <2>3, <2>4 DEF SourceIsRead
<1>4. q = p => Inventory(p) \/ ReadMaterial(p)
  BY DEF IdentityStep, PublishReference, UseReference, CaptureSource, CaptureCopy, CaptureReference,
     Reserve, Prepare, Mark, RecordIdentity, Stage, ClearSsl, RenameSsl, ReplaceMachine,
     ReadInstalled, Abort, Step, End, IdentityTypeOK
<1> QED BY <1>1, <1>2, <1>3, <1>4

\* What is taken to be published was captured, and so held at one instant.
LEMMA TakenStep ==
  ASSUME IdentityInv, NEW p \in Processes, IdentityStep(p)
  PROVE  TakenIsGood'
<1> USE DEF IdentityInv
<1>0. identity' = identity /\ held' = held BY SourceStays
<1> SUFFICES ASSUME NEW q \in Processes, aim'[q] = "copy" \/ stepAt'[q] \in Publishing
             PROVE  Good(taken'[q])
  BY <1>0 DEF TakenIsGood, Good, Fitting
<1>1. CASE q # p BY <1>1, ProcessStays DEF TakenIsGood
<1>2. CASE q = p /\ CaptureSource(p)
  <2>1. stepAt[p] = "read" /\ aim[p] = "source" /\ Captured(p)
        /\ taken' = [taken EXCEPT ![p] = material[p]]
    BY <1>2 DEF CaptureSource, Step
  <2>2. unread[p] = {} /\ stamps[p] = Stamps(identity) /\ Fitting(material[p])
    BY <2>1 DEF Captured, Unmoved, Tree
  <2>3. \A f \in Files : material[p][f] = identity[f].content
    BY <2>1, <2>2 DEF SourceIsRead, Stamps
  <2>4. material[p] \in Material BY DEF IdentityTypeOK
  <2>5. material[p] = Contents(identity) BY <2>3, <2>4 DEF Contents, Material
  <2>6. taken'[q] = material[p] BY <1>2, <2>1 DEF IdentityTypeOK
  <2> QED BY <2>2, <2>5, <2>6 DEF TakenIsGood, Good
<1>3. CASE q = p /\ ~ CaptureSource(p)
  <2>1. taken'[q] = taken[q] /\ (aim[q] = "copy" \/ stepAt[q] \in Publishing)
    <3>1. CASE CaptureReference(p) \/ Abort(p)
      BY <1>3, <3>1 DEF CaptureReference, Abort, End, Capturing, IdentityTypeOK, Publishing
    <3>2. CASE RecordIdentity(p)
      BY <1>3, <3>2 DEF RecordIdentity, Step, Capturing, IdentityTypeOK, Publishing
    <3>3. CASE UseReference(p) \/ ReadInstalled(p)
      BY <1>3, <3>3 DEF UseReference, ReadInstalled, Step, Capturing, IdentityTypeOK, Publishing
    <3>4. CASE PublishReference(p) \/ Inventory(p) \/ ReadMaterial(p) \/ CaptureCopy(p)
      BY <1>3, <3>4 DEF PublishReference, Inventory, ReadMaterial, CaptureCopy, Step, captured,
         IdentityTypeOK, Publishing
    <3>5. CASE Reserve(p) \/ Prepare(p) \/ Mark(p)
      BY <1>3, <3>5 DEF Reserve, Prepare, Mark, Step, captured, IdentityTypeOK, Publishing
    <3>6. CASE Stage(p) \/ ClearSsl(p) \/ RenameSsl(p) \/ ReplaceMachine(p)
      BY <1>3, <3>6 DEF Stage, ClearSsl, RenameSsl, ReplaceMachine, Step, captured,
         IdentityTypeOK, Publishing
    <3> QED BY <1>3, <3>1, <3>2, <3>3, <3>4, <3>5, <3>6 DEF IdentityStep
  <2> QED BY <2>1 DEF TakenIsGood
<1> QED BY <1>1, <1>2, <1>3


\* The directory keeps its number, or a new one is reserved that nobody is in.
LEMMA GenerationStep ==
  ASSUME IdentityTypeOK, NEW p \in Processes, IdentityStep(p)
  PROVE  /\ generation.id <= generation'.id
         /\ generation'.id = generation.id \/ (Reserve(p) /\ generation'.id = generation.id + 1)
         /\ Reserve(p) \/ (generation'.id = generation.id /\ generation'.made = generation.made)
<1>0. generation.id \in Nat BY DEF IdentityTypeOK
<1>1. CASE Reserve(p)
  <2>1. generation'.id = generation.id + 1 BY <1>1 DEF Reserve, IdentityTypeOK
  <2> QED BY <1>0, <1>1, <2>1
<1>2. CASE ~ Reserve(p)
  <2>1. generation'.id = generation.id /\ generation'.made = generation.made
    <3>1. CASE Prepare(p) \/ ClearSsl(p) \/ RenameSsl(p) \/ ReplaceMachine(p)
      BY <3>1 DEF Prepare, ClearSsl, RenameSsl, ReplaceMachine, Install, IdentityTypeOK
    <3>2. CASE ~ (Prepare(p) \/ ClearSsl(p) \/ RenameSsl(p) \/ ReplaceMachine(p))
      BY <1>2, <3>2 DEF IdentityStep, PublishReference, UseReference, Inventory, ReadMaterial,
         CaptureSource, CaptureCopy, CaptureReference, Mark, RecordIdentity, Stage, ReadInstalled,
         Abort
    <3> QED BY <3>1, <3>2
  <2> QED BY <1>0, <1>2, <2>1
<1> QED BY <1>1, <1>2

LEMMA MarkerStays ==
  ASSUME NEW p \in Processes, IdentityStep(p), ~ Mark(p), ~ RecordIdentity(p)
  PROVE  marker' = marker
BY DEF IdentityStep, PublishReference, UseReference, Inventory, ReadMaterial, CaptureSource,
   CaptureCopy, CaptureReference, Reserve, Prepare, Stage, ClearSsl, RenameSsl, ReplaceMachine,
   ReadInstalled, Abort

LEMMA InsideStep ==
  ASSUME IdentityTypeOK, NEW p \in Processes, IdentityStep(p)
  PROVE  /\ inside'[p] \in {0, inside[p], generation.id}
         /\ stepAt'[p] = "record" => Mark(p)
<1>1. CASE Mark(p) \/ Stage(p) BY <1>1 DEF Mark, Stage, Step, IdentityTypeOK
<1>2. CASE RecordIdentity(p) \/ ReadInstalled(p) \/ CaptureReference(p) \/ Abort(p)
  BY <1>2 DEF RecordIdentity, ReadInstalled, CaptureReference, Abort, End, Step, IdentityTypeOK
<1>3. CASE ~ (Mark(p) \/ Stage(p) \/ RecordIdentity(p) \/ ReadInstalled(p) \/ CaptureReference(p)
              \/ Abort(p))
  BY <1>3 DEF IdentityStep, PublishReference, UseReference, Inventory, ReadMaterial, CaptureSource,
     CaptureCopy, Reserve, Prepare, ClearSsl, RenameSsl, ReplaceMachine, Step, IdentityTypeOK
<1> QED BY <1>1, <1>2, <1>3

LEMMA MarkerStep ==
  ASSUME IdentityInv, NEW p \in Processes, IdentityStep(p)
  PROVE  MarkerIsOnes'
<1> USE DEF IdentityInv
<1>0. generation.id \in Nat /\ generation'.id \in Nat
      /\ \A q \in Processes : inside[q] \in Nat /\ inside'[q] \in Nat
  BY IdentityTypesStep DEF IdentityTypeOK
<1>1. \A q \in Processes : inside'[q] <= generation'.id
  <2>1. \A q \in Processes : inside'[q] <= generation.id
    BY <1>0, ProcessStays, InsideStep DEF MarkerIsOnes
  <2> QED BY <1>0, <2>1, GenerationStep
<1>2. ASSUME generation'.made, NEW q \in Processes, stepAt'[q] = "record", inside'[q] = generation'.id
      PROVE  generation.made /\ generation'.id = generation.id
  <2>1. CASE Reserve(p)
    <3>1. stepAt'[p] # "record" BY <2>1 DEF Reserve, Step, IdentityTypeOK
    <3>2. inside'[q] = inside[q] BY <1>2, <3>1, ProcessStays
    <3>3. inside[q] <= generation.id BY DEF MarkerIsOnes
    <3>4. generation'.id = generation.id + 1 BY <2>1 DEF Reserve, IdentityTypeOK
    <3>5. inside[q] = generation.id + 1 BY <1>2, <3>2, <3>4
    <3>6. inside[q] \in Nat /\ generation.id \in Nat BY <1>0
    <3> QED BY <3>3, <3>5, <3>6
  <2>2. CASE ~ Reserve(p) BY <1>2, <2>2, GenerationStep
  <2> QED BY <2>1, <2>2
<1>3. ASSUME generation'.made, NEW q \in Processes, stepAt'[q] = "record", inside'[q] = generation'.id
      PROVE  \/ q = p /\ Mark(p)
             \/ q # p /\ q \in Recorders /\ generation.made
  <2>1. generation.made /\ generation'.id = generation.id BY <1>2, <1>3
  <2>2. CASE q = p BY <1>3, <2>2, InsideStep
  <2>3. CASE q # p BY <1>3, <2>1, <2>3, ProcessStays DEF Recorders
  <2> QED BY <2>2, <2>3
<1>4. Recorders' = {q \in Processes : stepAt'[q] = "record" /\ inside'[q] = generation'.id}
  BY DEF Recorders
\* Nobody records when the marker is not there yet.
<1>5. Mark(p) => ~ generation.made \/ Recorders = {}
  <2>1. Mark(p) => marker = NoMarker BY DEF Mark
  <2> QED BY <2>1, MarkerFacts DEF MarkerIsOnes
<1>6. ASSUME generation'.made, NEW q \in Recorders' PROVE marker' = TornMarker
  <2>1. \/ q = p /\ Mark(p)
        \/ q # p /\ q \in Recorders /\ generation.made
    BY <1>3, <1>4, <1>6
  <2>2. CASE q = p /\ Mark(p) BY <2>2 DEF Mark
  <2>3. CASE q # p /\ q \in Recorders /\ generation.made
    <3>1. marker = TornMarker BY <2>3 DEF MarkerIsOnes
    <3>2. ~ Mark(p) BY <3>1, MarkerFacts DEF Mark
    <3>3. CASE RecordIdentity(p)
      <4>1. p \notin Recorders BY <2>3 DEF MarkerIsOnes
      <4>2. inside[p] # generation.id BY <3>3, <4>1 DEF Recorders, RecordIdentity, Step
      <4> QED BY <3>1, <3>3, <4>2 DEF RecordIdentity
    <3>4. CASE ~ RecordIdentity(p) BY <3>1, <3>2, <3>4, MarkerStays
    <3> QED BY <3>3, <3>4
  <2> QED BY <2>1, <2>2, <2>3
<1>7. ASSUME generation'.made, NEW q \in Recorders', NEW r \in Recorders' PROVE q = r
  <2>1. /\ \/ q = p /\ Mark(p)
           \/ q # p /\ q \in Recorders /\ generation.made
        /\ \/ r = p /\ Mark(p)
           \/ r # p /\ r \in Recorders /\ generation.made
    BY <1>3, <1>4, <1>7
  <2> QED BY <1>5, <2>1 DEF MarkerIsOnes
<1> QED BY <1>1, <1>6, <1>7 DEF MarkerIsOnes

LEMMA GivenStep ==
  ASSUME IdentityInv, NEW p \in Processes, IdentityStep(p)
  PROVE  GivenIsMarked'
<1> USE DEF IdentityInv
<1>0. \A b : Good(b)' <=> Good(b) BY SourceStays DEF Good, Fitting
<1>1. CASE Mark(p)
  <2>1. marker = NoMarker /\ marker' = TornMarker /\ given' = given BY <1>1 DEF Mark
  <2>2. given = {} BY <2>1, MarkerFacts DEF GivenIsMarked, IdentityTypeOK
  <2> QED BY <2>1, <2>2, MarkerFacts DEF GivenIsMarked
<1>2. CASE RecordIdentity(p)
  <2>1. given' = given /\ generation.made /\ stepAt[p] = "record"
        /\ marker' = IF inside[p] = generation.id THEN taken[p] ELSE marker
    BY <1>2 DEF RecordIdentity, Step
  <2>2. CASE inside[p] # generation.id BY <1>0, <2>1, <2>2 DEF GivenIsMarked
  <2>3. CASE inside[p] = generation.id
    <3>1. p \in Recorders BY <2>1, <2>3 DEF Recorders
    <3>2. marker = TornMarker BY <2>1, <3>1 DEF MarkerIsOnes
    <3>3. given = {} BY <3>2, MarkerFacts DEF GivenIsMarked, IdentityTypeOK
    <3>4. Good(taken[p]) BY <2>1 DEF TakenIsGood, Publishing
    <3> QED BY <1>0, <2>1, <2>3, <3>3, <3>4 DEF GivenIsMarked
  <2> QED BY <2>2, <2>3
<1>3. CASE CaptureReference(p)
  <2>1. marker' = marker /\ given' = given \cup {material[p]} /\ marker = material[p]
    BY <1>3 DEF CaptureReference, Captured, Recorded
  <2> QED BY <1>0, <2>1 DEF GivenIsMarked
<1>4. CASE ~ Mark(p) /\ ~ RecordIdentity(p) /\ ~ CaptureReference(p)
  <2>1. marker' = marker BY <1>4, MarkerStays
  <2>2. given' = given
    BY <1>4 DEF IdentityStep, PublishReference, UseReference, Inventory, ReadMaterial,
       CaptureSource, CaptureCopy, Reserve, Prepare, Stage, ClearSsl, RenameSsl, ReplaceMachine,
       ReadInstalled, Abort
  <2> QED BY <1>0, <2>1, <2>2 DEF GivenIsMarked
<1> QED BY <1>1, <1>2, <1>3, <1>4

\* The others: a renewal changes the stamp of all that it changes; a person
\* removes only what was never recorded.
LEMMA OthersStep ==
  ASSUME IdentityInv, Renew \/ Meddle \/ Discard
  PROVE  IdentityInv'
<1> USE DEF IdentityInv
<1>0. IdentityTypeOK' BY OthersTypes
<1>1. UNCHANGED <<stepAt, aim, stamps, unread, material, taken, inside, given>>
  BY DEF Renew, Meddle, Discard, captured, seen
<1>2. CASE Renew
  <2>1. held' = held \cup {Contents(identity')} /\ generation' = generation /\ marker' = marker
    BY <1>2 DEF Renew
  <2>2. \A b : Good(b) => Good(b)' BY <2>1 DEF Good, Fitting
  <2>3. \A f \in Files : identity'[f] = identity[f] \/ identity'[f].stamp = identity[f].stamp + 1
    BY <1>2 DEF Renew, Edited, Put
  <2>4. \A f \in Files : identity[f].stamp \in Nat BY DEF IdentityTypeOK, Trees
  <2>5. SourceIsRead'
    <3> SUFFICES ASSUME NEW p \in Processes, NEW f \in Files, stepAt[p] = "read", aim[p] = "source"
                 PROVE  /\ stamps[p][f] <= identity'[f].stamp
                        /\ f \notin unread[p] /\ stamps[p][f] = identity'[f].stamp =>
                             material[p][f] = identity'[f].content
      BY <1>1 DEF SourceIsRead
    <3>1. stamps[p][f] \in Nat /\ stamps[p][f] <= identity[f].stamp
      BY DEF SourceIsRead, IdentityTypeOK
    <3> QED BY <2>3, <2>4, <3>1 DEF SourceIsRead
  <2>6. Contents(identity)' \in held' BY <2>1 DEF Contents
  <2>7. TakenIsGood' BY <1>1, <2>2, <2>6 DEF TakenIsGood
  <2>8. MarkerIsOnes' BY <1>1, <2>1 DEF MarkerIsOnes, Recorders
  <2>9. GivenIsMarked' BY <1>1, <2>1, <2>2 DEF GivenIsMarked
  <2> QED BY <1>0, <2>5, <2>7, <2>8, <2>9
<1>3. CASE Meddle \/ Discard
  <2>1. identity' = identity /\ held' = held BY <1>3 DEF Meddle, Discard
  <2>2. \A b : Good(b) <=> Good(b)' BY <2>1 DEF Good, Fitting
  <2>3. SourceIsRead' BY <1>1, <2>1 DEF SourceIsRead
  <2>4. TakenIsGood' BY <1>1, <2>1, <2>2 DEF TakenIsGood
  <2>5. generation'.id = generation.id /\ (generation'.made => Meddle)
        /\ (Meddle => generation'.made = generation.made /\ marker' = marker)
    BY <1>3 DEF Meddle, Discard, IdentityTypeOK
  <2>6. MarkerIsOnes' BY <1>1, <2>5 DEF MarkerIsOnes, Recorders
  <2>7. GivenIsMarked'
    <3>1. CASE Meddle BY <1>1, <2>2, <2>5, <3>1 DEF GivenIsMarked
    <3>2. CASE Discard
      <4>1. marker \notin Material /\ marker' = NoMarker BY <3>2 DEF Discard
      <4>2. given = {} BY <4>1 DEF GivenIsMarked, IdentityTypeOK
      <4> QED BY <1>1, <4>1, <4>2, MarkerFacts DEF GivenIsMarked
    <3> QED BY <1>3, <3>1, <3>2
  <2> QED BY <1>0, <2>3, <2>4, <2>6, <2>7
<1> QED BY <1>2, <1>3

LEMMA IdentityStepInv == IdentityInv /\ [IdentityNext]_identityVars => IdentityInv'
<1> SUFFICES ASSUME IdentityInv, [IdentityNext]_identityVars PROVE IdentityInv' OBVIOUS
<1>1. ASSUME NEW p \in Processes, IdentityStep(p) PROVE IdentityInv'
  BY <1>1, IdentityTypesStep, SourceReadStep, TakenStep, MarkerStep, GivenStep DEF IdentityInv
<1>2. CASE Renew \/ Meddle \/ Discard BY <1>2, OthersStep
<1>3. CASE UNCHANGED identityVars
  BY <1>3 DEF identityVars, IdentityInv, IdentityTypeOK, SourceIsRead, TakenIsGood, MarkerIsOnes,
     Recorders, GivenIsMarked, Good, Fitting, Contents
<1> QED BY <1>1, <1>2, <1>3 DEF IdentityNext

LEMMA IdentityIsOne == IdentityInv => ReferenceIsOneIdentity
<1> SUFFICES ASSUME IdentityInv PROVE ReferenceIsOneIdentity OBVIOUS
<1> USE DEF IdentityInv
<1>1. given \subseteq {m \in held : Fitting(m)} BY DEF GivenIsMarked, Good, IdentityTypeOK
<1>2. given \subseteq {marker} BY DEF GivenIsMarked
<1>3. Cardinality(given) <= 1
  <2>1. IsFiniteSet({marker}) /\ Cardinality({marker}) = 1 BY FS_Singleton
  <2> QED BY <1>2, <2>1, FS_Subset
<1> QED BY <1>1, <1>3 DEF ReferenceIsOneIdentity

-----------------------------------------------------------------------------
(***************************************************************************)
(* The manifest.  Lists of equal length whose members are distinct hold    *)
(* the same members, which is what its admission rests on.                 *)
(***************************************************************************)
Frozen ==
  expected # <<>> =>
    /\ Distinct(expected, Name)
    /\ DistinctAmong(expected, IsRoot, LAMBDA row : row.identity)

RecordIsAdmitted ==
  /\ record \in {<<>>} \cup UpTo2(Outputs(Rows))
  /\ record # <<>> => expected # <<>> /\ Validate(expected, record)

BindingIsOnes ==
  /\ \A a, b \in binding.hosts : a.guid = b.guid \/ a.identity = b.identity => a = b
  /\ \A i, j \in DOMAIN binding.wave : binding.wave[i] = binding.wave[j] => i = j
  /\ In(binding.wave) = {b.host : b \in binding.hosts}

FileIsWhole ==
  ~ meddled => manifestFile # "other" /\ (kept => manifestFile = "whole")

\* The inductive invariant.
ManifestInv ==
  ManifestTypeOK /\ Frozen /\ RecordIsAdmitted /\ BindingIsOnes /\ FileIsWhole

LEMMA ShortLists ==
  ASSUME NEW S, NEW list \in UpTo2(S)
  PROVE  /\ \/ \E x \in S : list = <<x>>
            \/ \E x, y \in S : list = <<x, y>>
         /\ \/ Len(list) = 1 /\ DOMAIN list = {1} /\ In(list) = {list[1]}
            \/ Len(list) = 2 /\ DOMAIN list = {1, 2} /\ In(list) = {list[1], list[2]}
         /\ list # <<>> /\ In(list) \subseteq S
<1>1. CASE \E x \in S : list = <<x>>
  <2> PICK x \in S : list = <<x>> BY <1>1
  <2>1. Len(list) = 1 /\ DOMAIN list = {1} /\ list[1] = x OBVIOUS
  <2> QED BY <1>1, <2>1 DEF In
<1>2. CASE \E x, y \in S : list = <<x, y>>
  <2> PICK x \in S, y \in S : list = <<x, y>> BY <1>2
  <2>1. Len(list) = 2 /\ DOMAIN list = {1, 2} /\ list[1] = x /\ list[2] = y OBVIOUS
  <2>2. In(list) = {list[1], list[2]} BY <2>1 DEF In
  <2> QED BY <1>2, <2>1, <2>2
<1> QED BY <1>1, <1>2 DEF UpTo2

LEMMA EmptyList == In(<<>>) = {} BY DEF In

\* As many outputs as members, each of another member: every member has one.
LEMMA EveryMemberOnce ==
  ASSUME NEW rows \in UpTo2(Rows), NEW outputs \in UpTo2(Outputs(Rows)),
         Validate(rows, outputs)
  PROVE  {o.member : o \in In(outputs)} = In(rows)
<1>1. Len(outputs) = Len(rows) /\ \A o \in In(outputs) : o.member \in In(rows) BY DEF Validate
<1>2. \A i, j \in DOMAIN outputs : outputs[i].member = outputs[j].member => i = j
  BY DEF Validate, Once, Distinct, DistinctAmong, Member
<1>3. CASE Len(rows) = 1
  <2>1. In(rows) = {rows[1]} /\ In(outputs) = {outputs[1]} BY <1>1, <1>3, ShortLists
  <2> QED BY <1>1, <2>1
<1>4. CASE Len(rows) = 2
  <2>1. In(rows) = {rows[1], rows[2]} /\ In(outputs) = {outputs[1], outputs[2]}
        /\ DOMAIN outputs = {1, 2}
    BY <1>1, <1>4, ShortLists
  <2>2. outputs[1].member # outputs[2].member BY <1>2, <2>1
  <2> QED BY <1>1, <2>1, <2>2
<1> QED BY <1>3, <1>4, ShortLists

\* What the output of a host with a recorded root is.
LEMMA OutputFacts ==
  ASSUME ManifestInv, record # <<>>, NEW h \in Machines, h \in {o.member.host : o \in In(record)}
  PROVE  /\ OutputOf(h) \in In(record) /\ OutputOf(h).member.host = h
         /\ IsRoot(OutputOf(h).member) /\ OutputOf(h).member \in In(expected)
         /\ OutputOf(h).guid \in Guids /\ OutputOf(h).member.identity \in Identities
<1> USE DEF ManifestInv
<1>1. OutputOf(h) \in In(record) /\ OutputOf(h).member.host = h BY DEF OutputOf
<1>2. OutputOf(h) \in Outputs(Rows) BY <1>1 DEF ManifestTypeOK
<1>3. IsRoot(OutputOf(h).member) BY <1>1, ManifestAssumption DEF IsRoot
<1>4. OutputOf(h).member \in In(expected) /\ Artifact(OutputOf(h))
  BY <1>1 DEF RecordIsAdmitted, Validate
<1>5. OutputOf(h).guid \in Guids BY <1>2, <1>3, <1>4 DEF Artifact, Outputs
<1>6. OutputOf(h).member \in Rows BY <1>2 DEF Outputs
<1>7. OutputOf(h).member.identity \in Identities BY <1>3, <1>6 DEF Rows, IsRoot
<1> QED BY <1>1, <1>3, <1>4, <1>5, <1>7

LEMMA HostsDiffer ==
  ASSUME ManifestInv, record # <<>>,
         NEW g \in Machines, g \in {o.member.host : o \in In(record)},
         NEW h \in Machines, h \in {o.member.host : o \in In(record)},
         OutputOf(g).guid = OutputOf(h).guid
           \/ OutputOf(g).member.identity = OutputOf(h).member.identity
  PROVE  g = h
<1> USE DEF ManifestInv
<1>1. /\ OutputOf(g) \in In(record) /\ OutputOf(g).member.host = g /\ IsRoot(OutputOf(g).member)
      /\ OutputOf(g).member \in In(expected)
      /\ OutputOf(h) \in In(record) /\ OutputOf(h).member.host = h /\ IsRoot(OutputOf(h).member)
      /\ OutputOf(h).member \in In(expected)
  BY OutputFacts
<1>2. CASE OutputOf(g).guid = OutputOf(h).guid
  <2>1. PICK i \in DOMAIN record : OutputOf(g) = record[i] BY <1>1 DEF In
  <2>2. PICK j \in DOMAIN record : OutputOf(h) = record[j] BY <1>1 DEF In
  <2>3. \A k, l \in DOMAIN record :
          IsRoot(record[k].member) /\ IsRoot(record[l].member) /\ record[k].guid = record[l].guid
            => k = l
    BY DEF RecordIsAdmitted, Validate, DistinctAmong
  <2> QED BY <1>1, <1>2, <2>1, <2>2, <2>3
<1>3. CASE OutputOf(g).member.identity = OutputOf(h).member.identity
  <2>1. PICK i \in DOMAIN expected : OutputOf(g).member = expected[i] BY <1>1 DEF In
  <2>2. PICK j \in DOMAIN expected : OutputOf(h).member = expected[j] BY <1>1 DEF In
  <2>3. \A k, l \in DOMAIN expected :
          IsRoot(expected[k]) /\ IsRoot(expected[l]) /\ expected[k].identity = expected[l].identity
            => k = l
    BY DEF RecordIsAdmitted, Frozen, DistinctAmong
  <2> QED BY <1>1, <1>3, <2>1, <2>2, <2>3
<1> QED BY <1>2, <1>3

LEMMA ManifestStart == ManifestInit => ManifestInv
<1> SUFFICES ASSUME ManifestInit PROVE ManifestInv OBVIOUS
<1> USE DEF ManifestInit
<1>1. ManifestTypeOK
  <2>1. binding.hosts = {} /\ In(binding.wave) = {} /\ In(record) = {}
    BY EmptyList DEF NoBinding
  <2> QED BY <2>1 DEF ManifestTypeOK
<1>2. BindingIsOnes
  <2>1. binding.hosts = {} /\ binding.wave = <<>> /\ In(binding.wave) = {}
    BY EmptyList DEF NoBinding
  <2> QED BY <2>1 DEF BindingIsOnes
<1> QED BY <1>1, <1>2 DEF ManifestInv, Frozen, RecordIsAdmitted, FileIsWhole

LEMMA FreezeStep ==
  ASSUME ManifestInv, Freeze
  PROVE  ManifestInv'
<1> USE DEF ManifestInv
<1>1. PICK rows \in UpTo2(Rows), consumers \in [{"roots", "images"} -> BOOLEAN] :
        Expectations(rows, consumers) /\ expected' = rows
  BY DEF Freeze
<1>2. UNCHANGED <<record, validatorAt, manifestFile, meddled, kept, binding>> /\ expected = <<>>
  BY DEF Freeze
<1>3. record = <<>> BY <1>2 DEF RecordIsAdmitted
<1>4. ManifestTypeOK' BY <1>1, <1>2 DEF ManifestTypeOK
<1>5. Frozen' BY <1>1 DEF Frozen, Expectations, Distinct, DistinctAmong
<1>6. RecordIsAdmitted' BY <1>2, <1>3 DEF RecordIsAdmitted
<1>7. BindingIsOnes' /\ FileIsWhole' BY <1>2 DEF BindingIsOnes, FileIsWhole
<1> QED BY <1>4, <1>5, <1>6, <1>7

LEMMA MainStep ==
  ASSUME ManifestInv, NEW v \in Validators, Main(v)
  PROVE  ManifestInv'
<1> USE DEF ManifestInv
<1>1. UNCHANGED <<expected, manifestFile, meddled, kept, binding>> /\ expected # <<>>
      /\ validatorAt' = [validatorAt EXCEPT ![v] = "link"]
  BY DEF Main
<1>2. PICK outputs \in IF record # <<>> THEN {record} ELSE UpTo2(Outputs(In(expected))) :
        Validate(expected, outputs) /\ record' = outputs
  BY DEF Main
<1>3. expected \in UpTo2(Rows) BY <1>1 DEF ManifestTypeOK
<1>4. In(expected) \subseteq Rows BY <1>3, ShortLists
<1>5. UpTo2(Outputs(In(expected))) \subseteq UpTo2(Outputs(Rows))
  <2>1. Outputs(In(expected)) \subseteq Outputs(Rows) BY <1>4 DEF Outputs
  <2> QED BY <2>1 DEF UpTo2
<1>6. record' \in UpTo2(Outputs(Rows)) BY <1>2, <1>5 DEF RecordIsAdmitted
<1>7. \A o \in In(record') : o \in Outputs(Rows) BY <1>6, ShortLists
<1>8. ManifestTypeOK' BY <1>1, <1>7 DEF ManifestTypeOK, In
<1>9. RecordIsAdmitted'
  <2>1. Validate(expected, record') BY <1>2
  <2> QED BY <1>1, <1>6, <2>1
      DEF RecordIsAdmitted, Validate, Once, Distinct, DistinctAmong, In, Member, Artifact, IsRoot
<1>10. Frozen' BY <1>1 DEF Frozen, Distinct, DistinctAmong
<1>11. BindingIsOnes' /\ FileIsWhole' BY <1>1 DEF BindingIsOnes, FileIsWhole, In
<1> QED BY <1>8, <1>9, <1>10, <1>11

LEMMA FileStep ==
  ASSUME ManifestInv, WriteOver \/ \E v \in Validators : Retain(v) \/ ReadRetained(v) \/ Fail(v)
  PROVE  ManifestInv'
<1> USE DEF ManifestInv
<1>1. UNCHANGED <<expected, record, binding>> BY DEF WriteOver, Retain, ReadRetained, Fail
<1>2. ManifestTypeOK' BY <1>1 DEF ManifestTypeOK, WriteOver, Retain, ReadRetained, Fail
<1>3. FileIsWhole'
  BY DEF FileIsWhole, ManifestTypeOK, WriteOver, Retain, ReadRetained, Fail
<1>4. Frozen' BY <1>1 DEF Frozen, Distinct, DistinctAmong
<1>5. RecordIsAdmitted'
  BY <1>1
  DEF RecordIsAdmitted, Validate, Once, Distinct, DistinctAmong, In, Member, Artifact, IsRoot
<1>6. BindingIsOnes' BY <1>1 DEF BindingIsOnes, In
<1> QED BY <1>2, <1>3, <1>4, <1>5, <1>6

LEMMA BindingStep ==
  ASSUME ManifestInv, record # <<>>, GenerationBinding
  PROVE  ManifestInv'
<1> USE DEF ManifestInv
<1>1. UNCHANGED <<expected, record, validatorAt, manifestFile, meddled, kept>>
  BY DEF GenerationBinding
<1>2. PICK policies \in Policies, wave \in UpTo2(Machines) :
        LET hosts == DOMAIN policies IN
        /\ \A h \in hosts :
             /\ h \in {o.member.host : o \in In(record)}
             /\ policies[h].current /\ policies[h].source = OutputOf(h).path
        /\ Len(wave) = Cardinality(hosts) /\ In(wave) = hosts
        /\ binding' = [hosts |-> {[host |-> h, guid |-> OutputOf(h).guid,
                                   identity |-> OutputOf(h).member.identity] : h \in hosts},
                       wave |-> wave]
  BY DEF GenerationBinding
<1> DEFINE hosts == DOMAIN policies
           Given(h) == [host |-> h, guid |-> OutputOf(h).guid,
                        identity |-> OutputOf(h).member.identity]
<1>3. hosts \subseteq Machines
  <2>1. PICK S \in SUBSET Machines : policies \in [S -> [current : BOOLEAN, source : Machines]]
    BY DEF Policies
  <2> QED BY <2>1
<1>4. \A h \in hosts : h \in Machines /\ h \in {o.member.host : o \in In(record)} BY <1>2, <1>3
<1>5. binding'.hosts = {Given(h) : h \in hosts} /\ binding'.wave = wave
      /\ Len(wave) = Cardinality(hosts) /\ In(wave) = hosts
  BY <1>2
<1>6. \A h \in hosts : Given(h) \in [host : Machines, guid : Guids, identity : Identities]
  BY <1>4, OutputFacts
<1> HIDE DEF hosts
<1>7. ManifestTypeOK'
  <2>1. binding'.hosts \subseteq [host : Machines, guid : Guids, identity : Identities]
    BY <1>5, <1>6
  <2>2. In(binding'.wave) \subseteq Machines BY <1>4, <1>5
  <2> QED BY <1>1, <2>1, <2>2 DEF ManifestTypeOK, In
<1>8. BindingIsOnes'
  <2>1. \A a, b \in binding'.hosts : a.guid = b.guid \/ a.identity = b.identity => a = b
    <3> SUFFICES ASSUME NEW g \in hosts, NEW h \in hosts,
                        Given(g).guid = Given(h).guid \/ Given(g).identity = Given(h).identity
                 PROVE  Given(g) = Given(h)
      BY <1>5
    <3>1. g = h BY <1>4, HostsDiffer
    <3> QED BY <3>1
  <2>2. \A i, j \in DOMAIN wave : wave[i] = wave[j] => i = j
    <3>1. CASE Len(wave) = 1 BY <3>1, ShortLists
    <3>2. CASE Len(wave) = 2
      <4>1. DOMAIN wave = {1, 2} /\ hosts = {wave[1], wave[2]} BY <1>5, <3>2, ShortLists
      <4>2. wave[1] # wave[2]
        <5>1. SUFFICES ASSUME wave[1] = wave[2] PROVE FALSE OBVIOUS
        <5>2. hosts = {wave[1]} BY <4>1, <5>1
        <5>3. Cardinality(hosts) = 1 BY <5>2, FS_Singleton
        <5>4. Len(wave) = 1 BY <1>5, <5>3
        <5> QED BY <3>2, <5>4
      <4> QED BY <4>1, <4>2
    <3> QED BY <3>1, <3>2, ShortLists
  <2>3. In(wave) = {b.host : b \in binding'.hosts}
    <3>1. \A h \in hosts : Given(h) \in binding'.hosts /\ Given(h).host = h BY <1>5
    <3>2. \A b \in binding'.hosts : b.host \in hosts BY <1>5
    <3> HIDE DEF Given
    <3>3. hosts \subseteq {b.host : b \in binding'.hosts}
      <4> SUFFICES ASSUME NEW h \in hosts PROVE \E b \in binding'.hosts : h = b.host OBVIOUS
      <4>1. Given(h) \in binding'.hosts /\ Given(h).host = h BY <3>1
      <4> QED BY <4>1
    <3>4. {b.host : b \in binding'.hosts} \subseteq hosts BY <3>2
    <3> QED BY <1>5, <3>3, <3>4
  <2> QED BY <1>5, <2>1, <2>2, <2>3 DEF BindingIsOnes, In
<1>9. Frozen' BY <1>1 DEF Frozen, Distinct, DistinctAmong
<1>10. RecordIsAdmitted'
  BY <1>1
  DEF RecordIsAdmitted, Validate, Once, Distinct, DistinctAmong, In, Member, Artifact, IsRoot
<1>11. FileIsWhole' BY <1>1 DEF FileIsWhole
<1> QED BY <1>7, <1>8, <1>9, <1>10, <1>11

LEMMA ManifestStep == ManifestInv /\ [ManifestNext]_manifestVars => ManifestInv'
<1> SUFFICES ASSUME ManifestInv, [ManifestNext]_manifestVars PROVE ManifestInv' OBVIOUS
<1>1. CASE Freeze BY <1>1, FreezeStep
<1>2. CASE \E v \in Validators : Main(v) BY <1>2, MainStep
<1>3. CASE WriteOver \/ \E v \in Validators : Retain(v) \/ ReadRetained(v) \/ Fail(v)
  BY <1>3, FileStep
<1>4. CASE GenerationBinding
  <2>1. record # <<>>
    <3>1. PICK policies \in Policies : \A h \in DOMAIN policies : h \in {o.member.host : o \in In(record)}
      BY <1>4 DEF GenerationBinding
    <3>2. PICK S \in (SUBSET Machines) \ {{}} : policies \in [S -> [current : BOOLEAN, source : Machines]]
      BY DEF Policies
    <3>3. DOMAIN policies # {} BY <3>2
    <3> QED BY <3>1, <3>3, EmptyList
  <2> QED BY <1>4, <2>1, BindingStep
<1>5. CASE UNCHANGED manifestVars
  <2>1. UNCHANGED <<expected, record, validatorAt, manifestFile, meddled, kept, binding>>
    BY <1>5 DEF manifestVars
  <2>2. ManifestTypeOK' BY <2>1 DEF ManifestInv, ManifestTypeOK, In
  <2>3. Frozen' BY <2>1 DEF ManifestInv, Frozen, Distinct, DistinctAmong
  <2>4. RecordIsAdmitted'
    BY <2>1 DEF ManifestInv, RecordIsAdmitted, Validate, Once, Distinct, DistinctAmong, In, Member,
       Artifact, IsRoot
  <2>5. BindingIsOnes' /\ FileIsWhole' BY <2>1 DEF ManifestInv, BindingIsOnes, FileIsWhole, In
  <2> QED BY <2>2, <2>3, <2>4, <2>5 DEF ManifestInv
<1> QED BY <1>1, <1>2, <1>3, <1>4, <1>5 DEF ManifestNext

LEMMA ManifestIsOne == ManifestInv => ManifestIsTheRelease
<1> SUFFICES ASSUME ManifestInv PROVE ManifestIsTheRelease OBVIOUS
<1> USE DEF ManifestInv
<1>1. record # <<>> => {o.member : o \in In(record)} = In(expected)
  <2>1. record # <<>> => expected \in UpTo2(Rows) /\ record \in UpTo2(Outputs(Rows))
          /\ Validate(expected, record)
    BY DEF RecordIsAdmitted, ManifestTypeOK
  <2> QED BY <2>1, EveryMemberOnce
<1> QED BY <1>1 DEF BindingIsOnes, FileIsWhole, ManifestIsTheRelease

-----------------------------------------------------------------------------
(***************************************************************************)
(* The preparation: for every policy over any finite set of hosts.         *)
(***************************************************************************)
Count == Cardinality(Hosts)

\* Cardinality is the same in the module as here.
LEMMA SameCardinality == \A S : Preparation!Cardinality(S) = Cardinality(S)
BY Zenon DEF Preparation!Cardinality, Cardinality

LEMMA PolicyShape ==
  ASSUME NEW p \in Preparation!Policies
  PROVE  /\ Count \in Nat /\ p.canaries \in 1 .. Count /\ p.limit \in Nat
         /\ p.order \in [1 .. Count -> Hosts]
         /\ \A i, j \in 1 .. Count : p.order[i] = p.order[j] => i = j
         /\ Preparation!Others(p) = p.canaries + 1 .. Count
         /\ Preparation!Others(p) \subseteq 1 .. Count
<1>1. Count \in Nat BY SuiteAssumption, FS_CardinalityType DEF Count
<1>2. p.canaries \in 1 .. Count /\ p.limit \in Nat /\ p.order \in [1 .. Count -> Hosts]
  BY SameCardinality DEF Preparation!Policies, Count
<1>3. Preparation!IsInjective(p.order) BY DEF Preparation!Policies
<1>4. \A i, j \in 1 .. Count : p.order[i] = p.order[j] => i = j
  BY <1>2, <1>3 DEF Preparation!IsInjective
<1>5. Preparation!Others(p) = p.canaries + 1 .. Count
  BY SameCardinality DEF Preparation!Others, Count
<1> QED BY <1>1, <1>2, <1>4, <1>5

\* A set of numbers that is not empty has a least one, and if bounded a largest.
LEMMA Least ==
  ASSUME NEW S \in SUBSET Nat, S # {}
  PROVE  \E x \in S : \A y \in S : x <= y
<1>0. \E x \in S : \A y \in S : ~ (<<y, x>> \in OpToRel(<, Nat))
  <2>1. S \subseteq Nat OBVIOUS
  <2> QED BY <2>1, NatLessThanWellFounded, WFMin
<1>1. PICK x \in S : \A y \in S : ~ (<<y, x>> \in OpToRel(<, Nat)) BY <1>0
<1>2. \A y \in S : ~ (y < x) BY <1>1 DEF OpToRel
<1> QED BY <1>2

LEMMA Largest ==
  ASSUME NEW S \in SUBSET Nat, S # {}, NEW b \in Nat, \A x \in S : x <= b
  PROVE  \E x \in S : \A y \in S : y <= x
<1> DEFINE T == {b - x : x \in S}
<1>1. T \in SUBSET Nat /\ T # {} OBVIOUS
<1> HIDE DEF T
<1>2. PICK z \in T : \A y \in T : z <= y BY <1>1, Least
<1>3. PICK x \in S : z = b - x BY DEF T
<1>4. ASSUME NEW y \in S PROVE y <= x
  <2>1. b - y \in T BY DEF T
  <2> QED BY <1>2, <1>3, <2>1
<1> QED BY <1>4

\* What is placed into a wave before position n does not depend on n and later.
LEMMA PlacedBefore ==
  ASSUME NEW p, NEW s, NEW t, NEW w, NEW n,
         \A m \in Preparation!Others(p) : m < n => s[m] = t[m]
  PROVE  Preparation!Placed(p, s, w, n) = Preparation!Placed(p, t, w, n)
BY DEF Preparation!Placed

\* The planner finds a wave for every host: the one of its own number, at the
\* latest, is empty when the host is considered (update_wave_plan.py:146-158).
LEMMA SlotsExist ==
  ASSUME NEW p \in Preparation!Policies, p.limit >= 1
  PROVE  \E s \in [Preparation!Others(p) -> 1 .. Count] :
           \A n \in Preparation!Others(p) : Preparation!FirstFit(p, s, n)
<1> DEFINE Slot == [Preparation!Others(p) -> 1 .. Count]
           Until(s, k) == \A n \in Preparation!Others(p) :
                            n <= k => Preparation!FirstFit(p, s, n) /\ s[n] <= n - p.canaries
           Stuck == {k \in 0 .. Count : ~ \E s \in Slot : Until(s, k)}
<1>0. /\ Count \in Nat /\ p.canaries \in 1 .. Count /\ p.limit \in Nat
      /\ p.order \in [1 .. Count -> Hosts]
      /\ Preparation!Others(p) = p.canaries + 1 .. Count
  BY PolicyShape
<1> USE <1>0
<1>1. ASSUME Stuck # {} PROVE FALSE
  <2>1. PICK k \in Stuck : \A l \in Stuck : k <= l
    <3>1. Stuck \in SUBSET Nat OBVIOUS
    <3> HIDE DEF Stuck
    <3> QED BY <1>1, <3>1, Least
  <2>2. CASE k <= p.canaries
    <3>1. [n \in Preparation!Others(p) |-> 1] \in Slot OBVIOUS
    <3>2. \A n \in Preparation!Others(p) : ~ (n <= k) BY <2>1, <2>2
    <3>3. Until([n \in Preparation!Others(p) |-> 1], k) BY <3>2
    <3> QED BY <2>1, <3>1, <3>3
  <2>3. CASE p.canaries < k
    <3>1. k \in 0 .. Count /\ k - 1 \in 0 .. Count /\ k - 1 \notin Stuck
      <4>1. k \in 0 .. Count BY <2>1
      <4>2. k - 1 \in 0 .. Count /\ ~ (k <= k - 1) BY <4>1, <2>3
      <4> HIDE DEF Stuck
      <4> QED BY <2>1, <4>1, <4>2
    <3>2. PICK s \in Slot : Until(s, k - 1)
      <4> HIDE DEF Until, Slot
      <4> QED BY <3>1
    <3>0. k \in Preparation!Others(p) /\ k - p.canaries \in 1 .. Count
      BY <3>1, <2>3
    <3>9. \A n \in Preparation!Others(p) : n < k => s[n] <= n - p.canaries
      <4>1. \A n \in Preparation!Others(p) : n < k => n <= k - 1 BY <3>1
      <4> QED BY <3>2, <4>1
    <3> DEFINE Room == {w \in 1 .. Count : Preparation!Fits(p, Preparation!Placed(p, s, w, k), p.order[k])}
    <3>3. k - p.canaries \in Room
      <4>1. Preparation!Placed(p, s, k - p.canaries, k) = {}
        <5>1. \A n \in Preparation!Others(p) : n < k => s[n] # k - p.canaries
          BY <3>1, <3>2, <3>9
        <5>2. {m \in Preparation!Others(p) : m < k /\ s[m] = k - p.canaries} = {}
          BY <5>1
        <5> QED BY <5>2 DEF Preparation!Placed
      <4>2. Preparation!Fits(p, {}, p.order[k])
        <5>1. Preparation!Cardinality({}) = 0 BY FS_EmptySet, SameCardinality
        <5> QED BY <5>1 DEF Preparation!Fits
      <4> QED BY <3>0, <4>1, <4>2
    <3>4. PICK w \in Room : \A v \in Room : w <= v
      <4>1. Room \in SUBSET Nat OBVIOUS
      <4> HIDE DEF Room
      <4> QED BY <3>3, <4>1, Least
    <3> DEFINE t == [s EXCEPT ![k] = w]
    <3>5. t \in Slot /\ \A m \in Preparation!Others(p) : m # k => t[m] = s[m] OBVIOUS
    <3>6. k \in Preparation!Others(p) /\ t[k] = w BY <2>1, <2>3
    <3> HIDE DEF t
    <3>7. \A v : \A n \in Preparation!Others(p) : n <= k =>
            Preparation!Placed(p, t, v, n) = Preparation!Placed(p, s, v, n)
      <4> TAKE v
      <4> TAKE n \in Preparation!Others(p)
      <4> HAVE n <= k
      <4>1. \A m \in Preparation!Others(p) : m < n => t[m] = s[m]
        <5>1. \A m \in Preparation!Others(p) : m < n => m # k BY <3>1
        <5> QED BY <5>1, <3>5
      <4> QED BY <4>1, PlacedBefore
    <3>8. ASSUME NEW n \in Preparation!Others(p), n <= k
          PROVE  Preparation!FirstFit(p, t, n) /\ t[n] <= n - p.canaries
      <4>1. CASE n = k
        <5>1. Preparation!Fits(p, Preparation!Placed(p, t, w, k), p.order[k]) BY <3>4, <3>6, <3>7
        <5>2. ASSUME NEW v \in 1 .. w - 1
              PROVE  ~ Preparation!Fits(p, Preparation!Placed(p, t, v, k), p.order[k])
          <6>1. v \in 1 .. Count /\ v \notin Room BY <3>4
          <6> QED BY <6>1, <3>6, <3>7
        <5> QED BY <4>1, <5>1, <5>2, <3>3, <3>4, <3>6 DEF Preparation!FirstFit
      <4>2. CASE n # k
        <5>1. Preparation!FirstFit(p, s, n) /\ s[n] <= n - p.canaries BY <3>2, <3>8, <4>2, <2>1
        <5>2. t[n] = s[n] BY <3>5, <4>2
        <5> QED BY <5>1, <5>2, <3>7, <3>8 DEF Preparation!FirstFit
      <4> QED BY <4>1, <4>2
    <3> QED BY <3>5, <3>8, <2>1
  <2> QED BY <2>1, <2>2, <2>3
<1>2. Count \in 0 .. Count /\ Count \notin Stuck BY <1>1
<1>3. PICK s \in Slot : Until(s, Count) BY <1>2
<1>4. \A n \in Preparation!Others(p) : n <= Count OBVIOUS
<1> QED BY <1>3, <1>4

LEMMA SlotsFit ==
  ASSUME NEW p \in Preparation!Policies, p.limit >= 1
  PROVE  /\ Preparation!Slots(p) \in [Preparation!Others(p) -> 1 .. Count]
         /\ \A n \in Preparation!Others(p) : Preparation!FirstFit(p, Preparation!Slots(p), n)
BY SlotsExist, SameCardinality DEF Preparation!Slots, Count

\* No host is in a wave further on than its place among those that are no
\* canaries: the wave of that number would have been empty.
LEMMA SlotsAreEarly ==
  ASSUME NEW p \in Preparation!Policies, p.limit >= 1
  PROVE  \A n \in Preparation!Others(p) : Preparation!Slots(p)[n] <= n - p.canaries
<1> DEFINE s == Preparation!Slots(p)
           Late == {n \in Preparation!Others(p) : ~ (s[n] <= n - p.canaries)}
<1>0. /\ Count \in Nat /\ p.canaries \in 1 .. Count /\ p.limit \in Nat
      /\ Preparation!Others(p) = p.canaries + 1 .. Count
  BY PolicyShape
<1>1. s \in [Preparation!Others(p) -> 1 .. Count]
      /\ \A n \in Preparation!Others(p) : Preparation!FirstFit(p, s, n)
  BY SlotsFit
<1> HIDE DEF s
<1>2. ASSUME Late # {} PROVE FALSE
  <2>1. PICK n \in Late : \A m \in Late : n <= m
    <3>1. Late \in SUBSET Nat BY <1>0
    <3> HIDE DEF Late
    <3> QED BY <1>2, <3>1, Least
  <2>2. n \in Preparation!Others(p) /\ s[n] \in 1 .. Count /\ n - p.canaries \in 1 .. s[n] - 1
    BY <1>0, <1>1, <2>1
  <2>3. \A m \in Preparation!Others(p) : m < n => s[m] # n - p.canaries
    <3>1. ASSUME NEW m \in Preparation!Others(p), m < n PROVE s[m] <= m - p.canaries
      <4>1. m \notin Late BY <1>0, <2>1, <2>2, <3>1
      <4> QED BY <4>1
    <3> QED BY <1>0, <1>1, <2>2, <3>1
  <2>4. {m \in Preparation!Others(p) : m < n /\ s[m] = n - p.canaries} = {} BY <2>3
  <2>5. Preparation!Placed(p, s, n - p.canaries, n) = {} BY <2>4 DEF Preparation!Placed
  <2>6. Preparation!Fits(p, {}, p.order[n])
    <3>1. Preparation!Cardinality({}) = 0 BY FS_EmptySet, SameCardinality
    <3> QED BY <1>0, <3>1 DEF Preparation!Fits
  <2> QED BY <1>1, <2>2, <2>5, <2>6 DEF Preparation!FirstFit
<1>3. \A n \in Preparation!Others(p) : s[n] <= n - p.canaries BY <1>2
<1> QED BY <1>3 DEF s

\* The hosts of wave w among those that are no canaries.
Filled(p, w) ==
  {p.order[m] : m \in {k \in Preparation!Others(p) : Preparation!Slots(p)[k] = w}}

\* What is in a wave are hosts that fit: no more than the limit, of disjoint domains.
LEMMA FilledFits ==
  ASSUME NEW p \in Preparation!Policies, p.limit >= 1, NEW w \in Nat
  PROVE  /\ \A g, h \in Filled(p, w) : g # h => p.member[g] \cap p.member[h] = {}
         /\ IsFiniteSet(Filled(p, w)) /\ Cardinality(Filled(p, w)) <= p.limit
<1> DEFINE s == Preparation!Slots(p)
           Own == {k \in Preparation!Others(p) : s[k] = w}
<1>0. /\ Count \in Nat /\ p.canaries \in 1 .. Count /\ p.limit \in Nat
      /\ p.order \in [1 .. Count -> Hosts]
      /\ Preparation!Others(p) = p.canaries + 1 .. Count
  BY PolicyShape
<1>1. /\ s \in [Preparation!Others(p) -> 1 .. Count]
      /\ \A n \in Preparation!Others(p) : Preparation!FirstFit(p, s, n)
  BY SlotsFit
<1>2. Filled(p, w) = {p.order[m] : m \in Own} BY DEF Filled
<1> HIDE DEF s
<1>3. \A n \in Own : Preparation!Fits(p, Preparation!Placed(p, s, w, n), p.order[n])
  BY <1>1 DEF Preparation!FirstFit
<1>4. ASSUME NEW m \in Own, NEW n \in Own, m < n
      PROVE  p.member[p.order[m]] \cap p.member[p.order[n]] = {}
  <2>1. p.order[m] \in Preparation!Placed(p, s, w, n) BY <1>4 DEF Preparation!Placed
  <2> QED BY <1>3, <2>1 DEF Preparation!Fits
<1>5. ASSUME NEW g \in Filled(p, w), NEW h \in Filled(p, w), g # h
      PROVE  p.member[g] \cap p.member[h] = {}
  <2>1. PICK m \in Own : g = p.order[m] BY <1>2
  <2>2. PICK n \in Own : h = p.order[n] BY <1>2
  <2>3. m \in Nat /\ n \in Nat /\ m # n BY <1>0, <1>5, <2>1, <2>2
  <2>4. CASE m < n BY <1>4, <2>1, <2>2, <2>4
  <2>5. CASE n < m
    <3>1. p.member[h] \cap p.member[g] = {} BY <1>4, <2>1, <2>2, <2>5
    <3> QED BY <3>1
  <2> QED BY <2>3, <2>4, <2>5
<1>6. Filled(p, w) \subseteq Hosts
  <2>1. \A m \in Own : m \in 1 .. Count BY <1>0
  <2> QED BY <1>0, <1>2, <2>1
<1>7. IsFiniteSet(Filled(p, w)) BY <1>6, SuiteAssumption, FS_Subset
<1>8. Cardinality(Filled(p, w)) <= p.limit
  <2>1. CASE Own = {}
    <3>1. Filled(p, w) = {} BY <1>2, <2>1
    <3> QED BY <1>0, <3>1, FS_EmptySet
  <2>2. CASE Own # {}
    <3>1. PICK n \in Own : \A m \in Own : m <= n
      <4>1. Own \in SUBSET Nat /\ Count \in Nat /\ \A m \in Own : m <= Count BY <1>0
      <4> HIDE DEF Own
      <4> QED BY <2>2, <4>1, Largest
    <3> DEFINE P == Preparation!Placed(p, s, w, n)
    <3>2. Filled(p, w) = P \cup {p.order[n]}
      <4>1. Own = {k \in Own : k < n} \cup {n} BY <1>0, <3>1
      <4>2. P = {p.order[m] : m \in {k \in Own : k < n}} BY DEF Preparation!Placed
      <4> QED BY <1>2, <4>1, <4>2
    <3>3. Cardinality(P) < p.limit BY <1>3, SameCardinality DEF Preparation!Fits
    <3>4. IsFiniteSet(P)
      <4>1. P \subseteq Filled(p, w) BY <3>2
      <4> QED BY <1>7, <4>1, FS_Subset
    <3>5. Cardinality(P \cup {p.order[n]}) \in {Cardinality(P), Cardinality(P) + 1}
      BY <3>4, FS_AddElement
    <3>6. Cardinality(P) \in Nat BY <3>4, FS_CardinalityType
    <3> HIDE DEF P
    <3> QED BY <1>0, <3>2, <3>3, <3>5, <3>6
  <2> QED BY <2>1, <2>2
<1> QED BY <1>5, <1>7, <1>8

LastWave(p) == Preparation!Max({0} \cup {Preparation!Slots(p)[n] : n \in Preparation!Others(p)})

\* The number of the last wave that is not a canary's.
LEMMA LastIsReached ==
  ASSUME NEW p \in Preparation!Policies, p.limit >= 1
  PROVE  /\ LastWave(p) \in 0 .. Count - p.canaries
         /\ LastWave(p) = 0 \/ \E n \in Preparation!Others(p) : Preparation!Slots(p)[n] = LastWave(p)
<1> DEFINE s == Preparation!Slots(p)
           S == {0} \cup {s[n] : n \in Preparation!Others(p)}
<1>0. /\ Count \in Nat /\ p.canaries \in 1 .. Count
      /\ Preparation!Others(p) = p.canaries + 1 .. Count
  BY PolicyShape
<1>1. \A n \in Preparation!Others(p) : s[n] \in 1 .. Count /\ s[n] <= n - p.canaries
  BY SlotsFit, SlotsAreEarly
<1>2. \A x \in S : x \in 0 .. Count - p.canaries BY <1>0, <1>1
<1>3. S \in SUBSET Nat /\ S # {} /\ Count \in Nat /\ \A x \in S : x <= Count
  <2>1. 0 \in S OBVIOUS
  <2>2. \A i \in 0 .. Count - p.canaries : i \in Nat /\ i <= Count BY <1>0
  <2> HIDE DEF S
  <2> QED BY <1>0, <1>2, <2>1, <2>2
<1>4. LastWave(p) = Preparation!Max(S) BY DEF LastWave
<1>5. LastWave(p) \in S
  <2> HIDE DEF S
  <2>1. \E x \in S : \A y \in S : y <= x BY <1>3, Largest
  <2>2. \E x \in S : \A y \in S : x >= y BY <1>3, <2>1
  <2> QED BY <1>4, <2>2 DEF Preparation!Max
<1> QED BY <1>2, <1>5

\* Every wave before one that holds a host holds one.
LEMMA WavesAreUsed ==
  ASSUME NEW p \in Preparation!Policies, p.limit >= 1, NEW w \in 1 .. LastWave(p)
  PROVE  Filled(p, w) # {}
<1> DEFINE s == Preparation!Slots(p)
<1>0. /\ Count \in Nat /\ p.canaries \in 1 .. Count /\ p.limit \in Nat
      /\ Preparation!Others(p) = p.canaries + 1 .. Count
  BY PolicyShape
<1>1. PICK n \in Preparation!Others(p) : s[n] = LastWave(p) BY LastIsReached, <1>0
<1>2. s[n] \in 1 .. Count /\ Preparation!FirstFit(p, s, n) BY SlotsFit
<1>3. CASE w = s[n] BY <1>3 DEF Filled
<1>4. CASE w # s[n]
  <2>1. w \in 1 .. s[n] - 1 BY <1>0, <1>1, <1>2, <1>4
  <2>2. ~ Preparation!Fits(p, Preparation!Placed(p, s, w, n), p.order[n])
    BY <1>2, <2>1 DEF Preparation!FirstFit
  <2>3. Preparation!Fits(p, {}, p.order[n])
    <3>1. Preparation!Cardinality({}) = 0 BY FS_EmptySet, SameCardinality
    <3> QED BY <1>0, <3>1 DEF Preparation!Fits
  <2>4. Preparation!Placed(p, s, w, n) # {} BY <2>2, <2>3
  <2>5. Preparation!Placed(p, s, w, n) \subseteq Filled(p, w) BY DEF Preparation!Placed, Filled
  <2> QED BY <2>4, <2>5
<1> QED BY <1>3, <1>4

\* What the planner promises of the waves (update_wave_plan.py:143-158).
WellPlanned(p, bound) ==
  /\ Len(bound) \in 1 .. Count /\ DOMAIN bound = 1 .. Len(bound)
  /\ \A n \in DOMAIN bound :
       /\ bound[n] \subseteq {p.order[m] : m \in 1 .. Count} /\ bound[n] # {}
       /\ Cardinality(bound[n]) <= p.limit
       /\ \A g, h \in bound[n] : g # h => p.member[g] \cap p.member[h] = {}
       /\ (\E m \in 1 .. p.canaries : p.order[m] \in bound[n]) => Cardinality(bound[n]) = 1
  /\ \A m, n \in DOMAIN bound : m # n => bound[m] \cap bound[n] = {}

LEMMA PlanFits ==
  ASSUME NEW p \in Preparation!Policies, p.limit >= 1
  PROVE  WellPlanned(p, Preparation!WavesOf(p))
<1> DEFINE s == Preparation!Slots(p)
           bound == Preparation!WavesOf(p)
<1>0. /\ Count \in Nat /\ p.canaries \in 1 .. Count /\ p.limit \in Nat
      /\ p.order \in [1 .. Count -> Hosts]
      /\ \A i, j \in 1 .. Count : p.order[i] = p.order[j] => i = j
      /\ Preparation!Others(p) = p.canaries + 1 .. Count
      /\ Preparation!Others(p) \subseteq 1 .. Count
  BY PolicyShape
<1>1. LastWave(p) \in 0 .. Count - p.canaries BY LastIsReached
<1>2. bound = [n \in 1 .. p.canaries + LastWave(p) |->
                IF n <= p.canaries THEN {p.order[n]} ELSE Filled(p, n - p.canaries)]
  BY DEF Preparation!WavesOf, LastWave, Filled
<1> HIDE DEF bound
<1>3. /\ Len(bound) = p.canaries + LastWave(p) /\ Len(bound) \in 1 .. Count
      /\ DOMAIN bound = 1 .. Len(bound)
  BY <1>0, <1>1, <1>2
<1>4. \A n \in DOMAIN bound : n <= p.canaries => n \in 1 .. p.canaries /\ bound[n] = {p.order[n]}
  BY <1>0, <1>1, <1>2
<1>5. \A n \in DOMAIN bound : ~ (n <= p.canaries) =>
        n - p.canaries \in 1 .. LastWave(p) /\ bound[n] = Filled(p, n - p.canaries)
  BY <1>0, <1>1, <1>2
<1>6. \A w : \A h \in Filled(p, w) :
        \E m \in Preparation!Others(p) : h = p.order[m] /\ s[m] = w
  BY DEF Filled
<1>7. \A w : \A m \in 1 .. p.canaries : p.order[m] \notin Filled(p, w)
  <2>1. \A m \in 1 .. p.canaries : m \in 1 .. Count /\ m \notin Preparation!Others(p) BY <1>0
  <2> QED BY <1>0, <1>6, <2>1
<1>8. ASSUME NEW n \in DOMAIN bound
      PROVE  /\ bound[n] \subseteq {p.order[m] : m \in 1 .. Count} /\ bound[n] # {}
             /\ Cardinality(bound[n]) <= p.limit
             /\ \A g, h \in bound[n] : g # h => p.member[g] \cap p.member[h] = {}
             /\ (\E m \in 1 .. p.canaries : p.order[m] \in bound[n]) => Cardinality(bound[n]) = 1
  <2>1. CASE n <= p.canaries
    <3>1. n \in 1 .. Count /\ bound[n] = {p.order[n]} BY <1>0, <1>4, <2>1
    <3>2. Cardinality(bound[n]) = 1 BY <3>1, FS_Singleton
    <3> QED BY <1>0, <3>1, <3>2
  <2>2. CASE ~ (n <= p.canaries)
    <3>1. n - p.canaries \in 1 .. LastWave(p) /\ bound[n] = Filled(p, n - p.canaries)
      BY <1>5, <2>2
    <3>2. n - p.canaries \in Nat BY <1>1, <3>1
    <3>3. /\ \A g, h \in bound[n] : g # h => p.member[g] \cap p.member[h] = {}
          /\ Cardinality(bound[n]) <= p.limit
      BY <3>1, <3>2, FilledFits
    <3>4. bound[n] # {} BY <3>1, WavesAreUsed
    <3>5. bound[n] \subseteq {p.order[m] : m \in 1 .. Count} BY <1>0, <1>6, <3>1
    <3>6. ~ \E m \in 1 .. p.canaries : p.order[m] \in bound[n] BY <1>7, <3>1
    <3> QED BY <3>3, <3>4, <3>5, <3>6
  <2> QED BY <2>1, <2>2
<1>9. ASSUME NEW m \in DOMAIN bound, NEW n \in DOMAIN bound, m # n
      PROVE  bound[m] \cap bound[n] = {}
  <2>1. CASE m <= p.canaries /\ n <= p.canaries
    <3>1. /\ m \in 1 .. Count /\ bound[m] = {p.order[m]}
          /\ n \in 1 .. Count /\ bound[n] = {p.order[n]}
      BY <1>0, <1>4, <2>1
    <3> QED BY <1>0, <1>9, <3>1
  <2>2. CASE m <= p.canaries /\ ~ (n <= p.canaries) BY <1>4, <1>5, <1>7, <2>2
  <2>3. CASE n <= p.canaries /\ ~ (m <= p.canaries) BY <1>4, <1>5, <1>7, <2>3
  <2>4. CASE ~ (m <= p.canaries) /\ ~ (n <= p.canaries)
    <3>1. bound[m] = Filled(p, m - p.canaries) /\ bound[n] = Filled(p, n - p.canaries)
      BY <1>5, <2>4
    <3>2. m - p.canaries # n - p.canaries BY <1>0, <1>3, <1>9
    <3>3. ASSUME NEW h \in bound[m], h \in bound[n] PROVE FALSE
      <4>1. PICK i \in Preparation!Others(p) : h = p.order[i] /\ s[i] = m - p.canaries
        BY <1>6, <3>1
      <4>2. PICK j \in Preparation!Others(p) : h = p.order[j] /\ s[j] = n - p.canaries
        BY <1>6, <3>1, <3>3
      <4>3. i = j BY <1>0, <4>1, <4>2
      <4> QED BY <3>2, <4>1, <4>2, <4>3
    <3> QED BY <3>3
  <2> QED BY <2>1, <2>2, <2>3, <2>4
<1>10. WellPlanned(p, bound) BY <1>3, <1>8, <1>9 DEF WellPlanned
<1> QED BY <1>10 DEF bound

-----------------------------------------------------------------------------
(* The preparation: its inductive invariant.                              *)

\* What holds of a host: how far its thread is tells what was asked of it, of all
\* hosts before, and what became of the waves before its own.
Guarded(h) ==
  /\ thread[h] # "wait" =>
       /\ mode = "prepare" => \A g \in Hosts : Preparation!Passed(g, "preflight")
       /\ \E n \in DOMAIN waves : n <= current /\ h \in waves[n]
  /\ thread[h] \in {"check", "admit"} => mode = "prepare"
  /\ mode = "prepare" /\ thread[h] \in {"admit", "native", "retain", "ok"} =>
       Preparation!Passed(h, "initiation")
  /\ mode = "prepare" /\ thread[h] = "ok" => reset[h] = "prepared"
  /\ reset[h] # "none" =>
       /\ mode = "prepare" /\ thread[h] \in {"retain", "ok", "bad"}
       /\ Preparation!Passed(h, "initiation")
  /\ \A c \in Preparation!Checks : <<h, c, "initiation">> \in receipts =>
       mode = "prepare" /\ thread[h] # "wait"

\* The waves are those of a policy that was admitted, and the ones that are over
\* went well.
WavesInOrder ==
  /\ policy \in Preparation!Policies
  /\ stage = "bind" => waves = <<>> /\ current = 1
  /\ waves # <<>> => policy.limit >= 1 /\ WellPlanned(policy, waves)
  /\ stage = "waves" => Preparation!GatesPassed
  /\ \A n \in DOMAIN waves : n < current => \A g \in waves[n] : thread[g] = "ok"

\* The inductive invariant.
PrepInv ==
  /\ Preparation!PrepTypeOK
  /\ WavesInOrder
  /\ \A h \in Hosts : Guarded(h)


still == <<mode, policy, targets, waves>>

LEMMA PassedStays ==
  ASSUME UNCHANGED policy, receipts \subseteq receipts', NEW h, NEW s, Preparation!Passed(h, s)
  PROVE  Preparation!Passed(h, s)'
BY DEF Preparation!Passed, Preparation!Asked

\* A host whose thread does not move, and that is not told anything, stays guarded:
\* retained observations remain, and waves only go on.
LEMMA GuardedStays ==
  ASSUME NEW h \in Hosts, Guarded(h), UNCHANGED still, UNCHANGED <<thread[h], reset[h]>>,
         current \in Nat, current' \in Nat, current <= current', receipts \subseteq receipts',
         \A c \in Preparation!Checks :
           <<h, c, "initiation">> \in receipts' /\ <<h, c, "initiation">> \notin receipts =>
             mode = "prepare" /\ thread[h] # "wait",
         DOMAIN waves \subseteq Nat
  PROVE  Guarded(h)'
<1>1. \A g, s : Preparation!Passed(g, s) => Preparation!Passed(g, s)'
  BY PassedStays DEF still
<1>2. \A n \in DOMAIN waves : n <= current => n <= current' OBVIOUS
<1> QED BY <1>1, <1>2 DEF Guarded, still

\* The next question is one of those that are open.
LEMMA FirstIsPending ==
  ASSUME NEW pending \in SUBSET ((1 .. 4) \X (1 .. Count)), pending # {}, Count \in Nat
  PROVE  Preparation!FirstOf(pending) \in pending
<1> DEFINE Turns == {q[1] : q \in pending}
<1>1. \A q \in pending : q[1] \in Nat /\ q[2] \in Nat OBVIOUS
<1>2. PICK t \in Turns : \A u \in Turns : t <= u
  <2>1. Turns \in SUBSET Nat /\ Turns # {} BY <1>1
  <2> HIDE DEF Turns
  <2> QED BY <2>1, Least
<1> DEFINE Places == {q[2] : q \in {r \in pending : r[1] = t}}
<1>3. PICK i \in Places : \A j \in Places : i <= j
  <2>1. Places \in SUBSET Nat /\ Places # {} BY <1>1, <1>2
  <2> HIDE DEF Places
  <2> QED BY <2>1, Least
<1>4. PICK q \in pending : q[1] = t /\ q[2] = i BY <1>3
<1>5. ASSUME NEW r \in pending PROVE q[1] < r[1] \/ (q[1] = r[1] /\ q[2] <= r[2])
  <2>1. t <= r[1] /\ r[1] \in Nat /\ t \in Nat BY <1>1, <1>2
  <2>2. r[1] = t => i <= r[2] BY <1>3
  <2> QED BY <1>4, <2>1, <2>2
<1> QED BY <1>4, <1>5 DEF Preparation!FirstOf

LEMMA AskedAreChecks ==
  ASSUME NEW h, NEW s
  PROVE  Preparation!Asked(h, s) \subseteq Preparation!Checks
BY DEF Preparation!Asked, Preparation!Checks

\* A question that is put is retained for one of the hosts it was put to, or refused.
LEMMA AskFacts ==
  ASSUME policy \in Preparation!Policies, NEW s \in Preparation!Stages, NEW hosts \in SUBSET Hosts,
         NEW ACTION refused, Preparation!Pending(s, hosts) # {}, Preparation!Ask(s, hosts, refused)
  PROVE  \/ /\ \E h \in hosts, c \in Preparation!Checks : receipts' = receipts \cup {<<h, c, s>>}
            /\ UNCHANGED <<stage, thread>>
         \/ refused /\ UNCHANGED receipts
<1> DEFINE open == Preparation!Pending(s, hosts)
           q == Preparation!FirstOf(open)
<1>0. Count \in Nat /\ DOMAIN policy.order = 1 .. Count BY PolicyShape
<1>1. open \in SUBSET ((1 .. 4) \X (1 .. Count)) BY <1>0 DEF Preparation!Pending
<1>2. q \in open BY <1>0, <1>1, FirstIsPending, Zenon
<1>3. /\ policy.order[q[2]] \in hosts
      /\ Preparation!Sequence[s][q[1]] \in Preparation!Asked(policy.order[q[2]], s)
  BY <1>2, Zenon DEF Preparation!Pending
<1>4. Preparation!Sequence[s][q[1]] \in Preparation!Checks BY <1>3, AskedAreChecks
<1> HIDE DEF q
<1> QED BY <1>3, <1>4 DEF Preparation!Ask, q

\* When no question to a host of the policy is open, it passed.
LEMMA NothingPending ==
  ASSUME NEW h, NEW s \in Preparation!Stages, NEW m \in DOMAIN policy.order, policy.order[m] = h,
         Preparation!Pending(s, {h}) = {}
  PROVE  Preparation!Passed(h, s)
<1>1. ASSUME NEW c \in Preparation!Asked(h, s), <<h, c, s>> \notin receipts PROVE FALSE
  <2>1. c \in Preparation!Checks BY AskedAreChecks
  <2>2. \E t \in 1 .. 4 : Preparation!Sequence[s][t] = c
    BY <2>1 DEF Preparation!Checks, Preparation!Stages, Preparation!Sequence
  <2>3. PICK t \in 1 .. 4 : Preparation!Sequence[s][t] = c BY <2>2
  <2>4. <<t, m>> \in Preparation!Pending(s, {h}) BY <1>1, <2>3 DEF Preparation!Pending
  <2> QED BY <2>4
<1> QED BY <1>1 DEF Preparation!Passed

PlaceTypes ==
  DOMAIN waves = 1 .. Len(waves) /\ Len(waves) \in Nat /\ Len(waves) <= Count
    /\ Count \in Nat /\ current \in 1 .. Count + 1

LEMMA Places == PrepInv => PlaceTypes
<1> SUFFICES ASSUME PrepInv PROVE PlaceTypes OBVIOUS
<1>1. Count \in Nat BY PolicyShape DEF PrepInv, WavesInOrder
<1>2. current \in 1 .. Count + 1 BY SameCardinality DEF PrepInv, Preparation!PrepTypeOK, Count
<1>3. CASE waves = <<>> BY <1>1, <1>2, <1>3 DEF PlaceTypes
<1>4. CASE waves # <<>> BY <1>1, <1>2, <1>4 DEF PrepInv, WavesInOrder, WellPlanned, PlaceTypes
<1> QED BY <1>3, <1>4

LEMMA PrepStart == Preparation!PrepInit => PrepInv
<1> SUFFICES ASSUME Preparation!PrepInit PROVE PrepInv OBVIOUS
<1> USE DEF Preparation!PrepInit
<1>0. Count \in Nat BY SuiteAssumption, FS_CardinalityType DEF Count
<1>1. Preparation!PrepTypeOK
  <2>1. current \in 1 .. Preparation!Cardinality(Hosts) + 1 BY <1>0, SameCardinality DEF Count
  <2>2. changes \in 0 .. MaxSpoiled BY SuiteAssumption
  <2> QED BY <2>1, <2>2 DEF Preparation!PrepTypeOK
<1>2. WavesInOrder BY DEF WavesInOrder
<1>3. \A h \in Hosts : Guarded(h) BY DEF Guarded
<1> QED BY <1>1, <1>2, <1>3 DEF PrepInv

\* A step of one host's thread, or of its reset.
LEMMA HostMoves ==
  ASSUME PrepInv, NEW h \in Hosts, UNCHANGED still, UNCHANGED <<stage, current>>,
         Preparation!PrepTypeOK', Guarded(h)',
         \A g \in Hosts : g # h => UNCHANGED <<thread[g], reset[g]>>,
         thread[h] = "ok" => UNCHANGED thread,
         receipts \subseteq receipts',
         \A g \in Hosts, c \in Preparation!Checks :
           g # h /\ <<g, c, "initiation">> \in receipts' => <<g, c, "initiation">> \in receipts
  PROVE  PrepInv'
<1>0. PlaceTypes BY Places
<1>1. ASSUME NEW g \in Hosts PROVE Guarded(g)'
  <2>1. CASE g = h BY <2>1
  <2>2. CASE g # h BY <1>0, <2>2, GuardedStays DEF PrepInv, PlaceTypes
  <2> QED BY <2>1, <2>2
<1>2. Preparation!GatesPassed => Preparation!GatesPassed'
  BY PassedStays DEF Preparation!GatesPassed, still
<1>3. ASSUME NEW n \in DOMAIN waves, n < current, NEW g \in waves[n] PROVE thread'[g] = "ok"
  <2>1. g \in Hosts /\ thread[g] = "ok"
    BY <1>3 DEF PrepInv, WavesInOrder, Preparation!PrepTypeOK
  <2>2. CASE g = h BY <2>1, <2>2
  <2>3. CASE g # h BY <2>1, <2>3
  <2> QED BY <2>2, <2>3
<1>4. WavesInOrder'
  BY <1>2, <1>3 DEF PrepInv, WavesInOrder, WellPlanned, still
<1> QED BY <1>1, <1>4 DEF PrepInv

\* A step of the plan that moves no thread and retains no initiation.
LEMMA PlanMoves ==
  ASSUME PrepInv, UNCHANGED still, UNCHANGED <<thread, reset>>, Preparation!PrepTypeOK',
         stage' = "bind" => UNCHANGED <<stage, current>>, current <= current',
         receipts \subseteq receipts',
         \A h \in Hosts, c \in Preparation!Checks :
           <<h, c, "initiation">> \in receipts' => <<h, c, "initiation">> \in receipts,
         stage' = "waves" => stage = "waves" \/ Preparation!GatesPassed,
         \A n \in DOMAIN waves : current <= n /\ n < current' => \A g \in waves[n] : thread[g] = "ok"
  PROVE  PrepInv'
<1>0. PlaceTypes BY Places
<1>1. current' \in Nat BY DEF Preparation!PrepTypeOK
<1>2. \A h \in Hosts : Guarded(h)'
  <2> TAKE h \in Hosts
  <2> QED BY <1>0, <1>1, GuardedStays DEF PrepInv, PlaceTypes
<1>3. Preparation!GatesPassed => Preparation!GatesPassed'
  BY PassedStays DEF Preparation!GatesPassed, still
<1>4. ASSUME NEW n \in DOMAIN waves, n < current', NEW g \in waves[n] PROVE thread[g] = "ok"
  <2>1. n < current \/ current <= n BY <1>0, <1>1 DEF PlaceTypes
  <2> QED BY <1>4, <2>1 DEF PrepInv, WavesInOrder
<1>5. WavesInOrder'
  <2>1. stage' = "bind" => waves' = <<>> /\ current' = 1 BY DEF PrepInv, WavesInOrder, still
  <2>2. waves' # <<>> => policy'.limit >= 1 /\ WellPlanned(policy, waves)'
    BY DEF PrepInv, WavesInOrder, still, WellPlanned
  <2>3. stage' = "waves" => Preparation!GatesPassed' BY <1>3 DEF PrepInv, WavesInOrder
  <2> QED BY <1>4, <2>1, <2>2, <2>3 DEF PrepInv, WavesInOrder, still
<1> QED BY <1>2, <1>5 DEF PrepInv

LEMMA BindStep == PrepInv /\ Preparation!Bind => PrepInv'
<1> SUFFICES ASSUME PrepInv, Preparation!Bind PROVE PrepInv' OBVIOUS
<1> USE DEF Preparation!Bind
<1>1. waves = <<>> BY DEF PrepInv, WavesInOrder
<1>2. \A h \in Hosts : thread[h] = "wait" BY <1>1 DEF PrepInv, Guarded
<1>3. CASE waves' = waves /\ stage' = "stopped"
  <2>1. Preparation!PrepTypeOK' BY <1>3 DEF PrepInv, Preparation!PrepTypeOK
  <2>2. PlaceTypes BY Places
  <2> QED BY <1>1, <1>3, <2>1, <2>2, PlanMoves DEF still, PlaceTypes
<1>4. CASE /\ Preparation!Admissible(policy, targets)
           /\ waves' = Preparation!WavesOf(policy) /\ stage' = "gates"
  <2>1. policy \in Preparation!Policies /\ policy.limit >= 1
    BY <1>4 DEF PrepInv, WavesInOrder, Preparation!Admissible
  <2>2. WellPlanned(policy, waves') BY <1>4, <2>1, PlanFits
  <2>3. \A n \in DOMAIN waves' : waves'[n] \subseteq Hosts /\ waves'[n] # {}
    <3>1. \A m \in 1 .. Count : policy.order[m] \in Hosts BY <2>1, PolicyShape
    <3> QED BY <2>2, <3>1 DEF WellPlanned
  <2>4. Preparation!PrepTypeOK' BY <1>4, <2>3 DEF PrepInv, Preparation!PrepTypeOK
  <2>5. WellPlanned(policy, waves)' BY <2>2 DEF WellPlanned
  <2>6. WavesInOrder'
    <3>1. \A n \in DOMAIN waves' : ~ (n < current)
      <4>1. current = 1 BY DEF PrepInv, WavesInOrder
      <4>2. DOMAIN waves' \subseteq Nat \ {0} BY <2>2 DEF WellPlanned
      <4> QED BY <4>1, <4>2
    <3> QED BY <1>4, <2>1, <2>5, <3>1 DEF WavesInOrder
  <2>7. \A h \in Hosts : Guarded(h)'
    <3> TAKE h \in Hosts
    <3>1. \A g, s : Preparation!Passed(g, s) => Preparation!Passed(g, s)' BY PassedStays
    <3> QED BY <1>2, <3>1 DEF PrepInv, Guarded
  <2> QED BY <2>4, <2>6, <2>7 DEF PrepInv
<1> QED BY <1>3, <1>4 DEF Preparation!Stop

LEMMA GateStep == PrepInv /\ Preparation!Gate => PrepInv'
<1> SUFFICES ASSUME PrepInv, Preparation!Gate PROVE PrepInv' OBVIOUS
<1> USE DEF Preparation!Gate
<1>0. PlaceTypes BY Places
<1>1. \/ /\ \E h \in Hosts, c \in Preparation!Checks : receipts' = receipts \cup {<<h, c, "preflight">>}
         /\ UNCHANGED <<stage, thread>>
      \/ Preparation!Stop /\ UNCHANGED thread /\ UNCHANGED receipts
  BY AskFacts DEF PrepInv, WavesInOrder, Preparation!Stages
<1>2. Preparation!PrepTypeOK'
  BY <1>1 DEF PrepInv, Preparation!PrepTypeOK, Preparation!Stages, Preparation!Stop
<1> QED BY <1>0, <1>1, <1>2, PlanMoves DEF still, PlaceTypes, Preparation!Stop

LEMMA PlanStep ==
  ASSUME PrepInv,
         \/ Preparation!StartWaves \/ Preparation!WaveEnds \/ Preparation!RetainScope
         \/ Preparation!Die \/ Preparation!WindowMoves
         \/ \E h \in Hosts, c \in Preparation!Checks : Preparation!Spoil(h, c)
         \/ UNCHANGED preparing
  PROVE  PrepInv'
<1>0. PlaceTypes BY Places
<1>1. CASE Preparation!StartWaves
  <2> USE <1>1 DEF Preparation!StartWaves
  <2>1. Preparation!PrepTypeOK' BY DEF PrepInv, Preparation!PrepTypeOK
  <2> QED BY <1>0, <2>1, PlanMoves DEF still, PlaceTypes
<1>2. CASE Preparation!WaveEnds
  <2> USE <1>2 DEF Preparation!WaveEnds
  <2>1. CASE \A h \in waves[current] : thread[h] = "ok"
    <3>1. current' = current + 1 /\ UNCHANGED stage BY <2>1
    <3>2. current' \in 1 .. Preparation!Cardinality(Hosts) + 1
      BY <1>0, <3>1, SameCardinality DEF PlaceTypes, Count
    <3>3. Preparation!PrepTypeOK' BY <3>1, <3>2 DEF PrepInv, Preparation!PrepTypeOK
    <3>4. \A n \in DOMAIN waves : current <= n /\ n < current' => n = current
      BY <1>0, <3>1 DEF PlaceTypes
    <3> QED BY <1>0, <2>1, <3>1, <3>3, <3>4, PlanMoves DEF still, PlaceTypes
  <2>2. CASE ~ \A h \in waves[current] : thread[h] = "ok"
    <3>1. stage' = "stopped" /\ UNCHANGED current BY <2>2 DEF Preparation!Stop
    <3>2. Preparation!PrepTypeOK' BY <3>1 DEF PrepInv, Preparation!PrepTypeOK
    <3> QED BY <1>0, <3>1, <3>2, PlanMoves DEF still, PlaceTypes
  <2> QED BY <2>1, <2>2
<1>3. CASE Preparation!RetainScope \/ Preparation!Die
  <2> USE <1>3 DEF Preparation!RetainScope, Preparation!Die, Preparation!Stop
  <2>1. Preparation!PrepTypeOK' BY DEF PrepInv, Preparation!PrepTypeOK
  <2> QED BY <1>0, <2>1, PlanMoves DEF still, PlaceTypes
<1>4. CASE Preparation!WindowMoves \/ UNCHANGED preparing
  <2> USE <1>4 DEF Preparation!WindowMoves, preparing
  <2>1. Preparation!PrepTypeOK' BY DEF PrepInv, Preparation!PrepTypeOK
  <2> QED BY <1>0, <2>1, PlanMoves DEF still, PlaceTypes
<1>5. ASSUME NEW h \in Hosts, NEW c \in Preparation!Checks, Preparation!Spoil(h, c) PROVE PrepInv'
  <2> USE <1>5 DEF Preparation!Spoil
  <2>1. changes' \in 0 .. MaxSpoiled BY SuiteAssumption DEF PrepInv, Preparation!PrepTypeOK
  <2>2. Preparation!PrepTypeOK' BY <2>1 DEF PrepInv, Preparation!PrepTypeOK
  <2> QED BY <1>0, <2>2, PlanMoves DEF still, PlaceTypes
<1> QED BY <1>1, <1>2, <1>3, <1>4, <1>5

\* What is known of a host of the current wave.
LEMMA ActiveFacts ==
  ASSUME PrepInv, NEW h \in Preparation!Active
  PROVE  /\ h \in Hosts /\ stage = "waves" /\ Preparation!GatesPassed
         /\ current \in DOMAIN waves /\ h \in waves[current]
         /\ \E m \in DOMAIN policy.order : policy.order[m] = h
<1>0. PlaceTypes BY Places
<1>1. stage = "waves" /\ current <= Len(waves) /\ h \in waves[current]
  BY DEF Preparation!Active
<1>2. current \in DOMAIN waves BY <1>0, <1>1 DEF PlaceTypes
<1>3. h \in Hosts BY <1>1, <1>2 DEF PrepInv, Preparation!PrepTypeOK
<1>4. policy.order \in [1 .. Count -> Hosts] BY PolicyShape DEF PrepInv, WavesInOrder
<1>5. h \in {policy.order[m] : m \in 1 .. Count}
  BY <1>1, <1>2 DEF PrepInv, WavesInOrder, WellPlanned
<1> QED BY <1>1, <1>2, <1>3, <1>4, <1>5 DEF PrepInv, WavesInOrder

LEMMA ThreadStep ==
  ASSUME PrepInv, NEW h \in Preparation!Active, Preparation!HostStep(h)
  PROVE  PrepInv'
<1>0. /\ h \in Hosts /\ stage = "waves" /\ Preparation!GatesPassed
      /\ current \in DOMAIN waves /\ h \in waves[current]
  BY ActiveFacts
<1>1. /\ Preparation!PrepTypeOK /\ Guarded(h)
      /\ mode = "prepare" => \A g \in Hosts : Preparation!Passed(g, "preflight")
  BY <1>0 DEF PrepInv, Preparation!GatesPassed
<1>2. PlaceTypes BY Places
<1>3. CASE Preparation!Enter(h)
  <2> USE <1>3 DEF Preparation!Enter, Preparation!Go
  <2>1. Preparation!PrepTypeOK' BY <1>0, <1>1 DEF Preparation!PrepTypeOK
  <2>2. thread'[h] = IF mode = "prepare" THEN "check" ELSE "native"
    BY <1>0, <1>1 DEF Preparation!PrepTypeOK
  <2>3. \A g, s : Preparation!Passed(g, s) => Preparation!Passed(g, s)' BY PassedStays
  <2>4. \E n \in DOMAIN waves' : n <= current' /\ h \in waves'[n] BY <1>0, <1>2 DEF PlaceTypes
  <2>5. Guarded(h)'
    BY <1>0, <1>1, <2>2, <2>3, <2>4 DEF Guarded, Preparation!PrepTypeOK
  <2> QED BY <1>0, <1>1, <2>1, <2>5, HostMoves DEF still, Preparation!PrepTypeOK
<1>4. CASE Preparation!Recheck(h)
  <2> USE <1>4 DEF Preparation!Recheck, Preparation!Go
  <2>1. CASE Preparation!Pending("initiation", {h}) = {}
    <3>1. Preparation!Passed(h, "initiation")
      BY <2>1, ActiveFacts, NothingPending DEF Preparation!Stages
    <3>2. thread' = [thread EXCEPT ![h] = "admit"] /\ UNCHANGED <<stage, receipts>> BY <2>1
    <3>3. Preparation!PrepTypeOK' BY <1>0, <1>1, <3>2 DEF Preparation!PrepTypeOK
    <3>4. \A g, s : Preparation!Passed(g, s) => Preparation!Passed(g, s)' BY <3>2, PassedStays
    <3>5. thread'[h] = "admit" BY <1>0, <1>1, <3>2 DEF Preparation!PrepTypeOK
    <3>6. Guarded(h)' BY <1>1, <3>1, <3>2, <3>4, <3>5 DEF Guarded
    <3> QED BY <1>0, <1>1, <3>2, <3>3, <3>6, HostMoves DEF still, Preparation!PrepTypeOK
  <2>2. CASE Preparation!Pending("initiation", {h}) # {}
    <3>1. Preparation!Ask("initiation", {h},
            thread' = [thread EXCEPT ![h] = "bad"] /\ UNCHANGED stage)
      BY <2>2
    <3>2. \/ /\ \E g \in {h}, c \in Preparation!Checks :
                  receipts' = receipts \cup {<<g, c, "initiation">>}
             /\ UNCHANGED <<stage, thread>>
          \/ (thread' = [thread EXCEPT ![h] = "bad"] /\ UNCHANGED stage) /\ UNCHANGED receipts
      BY <1>0, <2>2, <3>1, AskFacts DEF PrepInv, WavesInOrder, Preparation!Stages
    <3>3. Preparation!PrepTypeOK'
      BY <1>0, <1>1, <3>2 DEF Preparation!PrepTypeOK, Preparation!Stages
    <3>4. receipts \subseteq receipts' BY <3>2
    <3>5. \A g, s : Preparation!Passed(g, s) => Preparation!Passed(g, s)' BY <3>4, PassedStays
    <3>6. thread'[h] \in {"check", "bad"} BY <1>0, <1>1, <3>2 DEF Preparation!PrepTypeOK
    <3>7. Guarded(h)'
      BY <1>1, <3>5, <3>6 DEF Guarded
    <3> QED BY <1>0, <1>1, <3>2, <3>3, <3>4, <3>7, HostMoves DEF still, Preparation!PrepTypeOK
  <2> QED BY <2>1, <2>2
<1>5. CASE Preparation!Admit(h)
  <2> USE <1>5 DEF Preparation!Admit, Preparation!Go
  <2>1. Preparation!PrepTypeOK' BY <1>0, <1>1 DEF Preparation!PrepTypeOK
  <2>2. thread'[h] \in {"native", "bad"} BY <1>0, <1>1 DEF Preparation!PrepTypeOK
  <2>3. \A g, s : Preparation!Passed(g, s) => Preparation!Passed(g, s)' BY PassedStays
  <2>4. Guarded(h)' BY <1>1, <2>2, <2>3 DEF Guarded
  <2> QED BY <1>0, <1>1, <2>1, <2>4, HostMoves DEF still, Preparation!PrepTypeOK
<1>6. CASE Preparation!Command(h)
  <2> USE <1>6 DEF Preparation!Command, Preparation!Go
  <2>1. Preparation!PrepTypeOK' BY <1>0, <1>1 DEF Preparation!PrepTypeOK
  <2>2. thread'[h] = "retain" BY <1>0, <1>1 DEF Preparation!PrepTypeOK
  <2>3. \A g, s : Preparation!Passed(g, s) => Preparation!Passed(g, s)' BY PassedStays
  <2>4. reset'[h] # "none" => mode = "prepare"
    BY <1>0, <1>1 DEF Guarded, Preparation!PrepTypeOK
  <2>5. Guarded(h)' BY <1>1, <2>2, <2>3, <2>4 DEF Guarded
  <2>6. \A g \in Hosts : g # h => UNCHANGED <<thread[g], reset[g]>>
    BY <1>0, <1>1 DEF Preparation!PrepTypeOK
  <2> QED BY <1>0, <1>1, <2>1, <2>5, <2>6, HostMoves DEF still
<1>7. CASE Preparation!Retain(h)
  <2> USE <1>7 DEF Preparation!Retain, Preparation!Go
  <2>1. Preparation!PrepTypeOK' BY <1>0, <1>1 DEF Preparation!PrepTypeOK
  <2>2. thread'[h] \in {"ok", "bad"} BY <1>0, <1>1 DEF Preparation!PrepTypeOK
  <2>3. mode = "prepare" /\ thread'[h] = "ok" => reset[h] = "prepared"
    BY <1>0, <1>1 DEF Preparation!PrepTypeOK
  <2>4. \A g, s : Preparation!Passed(g, s) => Preparation!Passed(g, s)' BY PassedStays
  <2>5. Guarded(h)' BY <1>1, <2>2, <2>3, <2>4 DEF Guarded
  <2> QED BY <1>0, <1>1, <2>1, <2>5, HostMoves DEF still, Preparation!PrepTypeOK
<1> QED BY <1>3, <1>4, <1>5, <1>6, <1>7 DEF Preparation!HostStep

LEMMA ResetStep ==
  ASSUME PrepInv, NEW h \in Hosts, Preparation!ResetEnds(h)
  PROVE  PrepInv'
<1> USE DEF Preparation!ResetEnds
<1>1. Preparation!PrepTypeOK /\ Guarded(h) BY DEF PrepInv
<1>2. PICK outcome \in {"prepared", "failed"} : reset' = [reset EXCEPT ![h] = outcome] OBVIOUS
<1>3. Preparation!PrepTypeOK' BY <1>1, <1>2 DEF Preparation!PrepTypeOK
<1>4. \A g, s : Preparation!Passed(g, s) => Preparation!Passed(g, s)' BY PassedStays
<1>5. ~ (mode = "prepare" /\ thread[h] = "ok") BY <1>1 DEF Guarded
<1>6. Guarded(h)' BY <1>1, <1>4, <1>5 DEF Guarded
<1>7. \A g \in Hosts : g # h => UNCHANGED <<thread[g], reset[g]>>
  BY <1>1, <1>2 DEF Preparation!PrepTypeOK
<1> QED BY <1>1, <1>3, <1>6, <1>7, HostMoves DEF still

LEMMA PrepStep == PrepInv /\ [Preparation!PrepNext]_preparing => PrepInv'
<1> SUFFICES ASSUME PrepInv, [Preparation!PrepNext]_preparing PROVE PrepInv' OBVIOUS
<1> QED BY BindStep, GateStep, PlanStep, ThreadStep, ResetStep DEF Preparation!PrepNext

\* A host that was told to reset and is not known prepared is in the current wave.
LEMMA DamagedAreCurrent ==
  ASSUME PrepInv, NEW h \in Hosts, reset[h] \in {"running", "failed"}
  PROVE  current \in DOMAIN waves /\ h \in waves[current]
<1>0. PlaceTypes BY Places
<1>1. Guarded(h) BY DEF PrepInv
<1>2. PICK n \in DOMAIN waves : n <= current /\ h \in waves[n] BY <1>1 DEF Guarded
<1>3. ~ (n < current) BY <1>1, <1>2 DEF PrepInv, WavesInOrder, Guarded
<1>4. n = current BY <1>0, <1>2, <1>3 DEF PlaceTypes
<1> QED BY <1>2, <1>4

LEMMA PrepIsGated ==
  PrepInv => Preparation!GatesPrecedeResets /\ Preparation!DamageIsContained
<1> SUFFICES ASSUME PrepInv
             PROVE  Preparation!GatesPrecedeResets /\ Preparation!DamageIsContained
  OBVIOUS
<1>0. PlaceTypes BY Places
<1>1. \A h \in Hosts : Guarded(h) BY DEF PrepInv
<1>2. ASSUME NEW h \in Hosts, NEW c \in Preparation!Checks, <<h, c, "initiation">> \in receipts,
             NEW m \in DOMAIN waves, NEW n \in DOMAIN waves, m < n, h \in waves[n],
             NEW g \in waves[m]
      PROVE  reset[g] = "prepared"
  <2>1. mode = "prepare" /\ thread[h] # "wait" BY <1>1, <1>2 DEF Guarded
  <2>2. PICK k \in DOMAIN waves : k <= current /\ h \in waves[k] BY <1>1, <2>1 DEF Guarded
  <2>3. k = n BY <1>2, <2>2 DEF PrepInv, WavesInOrder, WellPlanned
  <2>4. m < current BY <1>0, <1>2, <2>2, <2>3 DEF PlaceTypes
  <2>5. thread[g] = "ok" /\ g \in Hosts
    BY <1>2, <2>4 DEF PrepInv, WavesInOrder, Preparation!PrepTypeOK
  <2> QED BY <1>1, <2>1, <2>5 DEF Guarded
<1>3. Preparation!GatesPrecedeResets BY <1>1, <1>2 DEF Guarded, Preparation!GatesPrecedeResets
<1> DEFINE damaged == {h \in Hosts : reset[h] \in {"running", "failed"}}
           canaries == {policy.order[n] : n \in 1 .. policy.canaries}
<1>4. policy \in Preparation!Policies /\ policy.limit \in Nat
  BY PolicyShape DEF PrepInv, WavesInOrder
<1>5. IsFiniteSet(damaged) /\ Cardinality(damaged) \in Nat
  BY SuiteAssumption, FS_Subset, FS_CardinalityType
<1>6. CASE damaged = {}
  <2>1. Cardinality(damaged) = 0 BY <1>6, FS_EmptySet
  <2> QED BY <1>3, <1>4, <1>6, <2>1, SameCardinality DEF Preparation!DamageIsContained
<1>7. CASE damaged # {}
  <2>1. current \in DOMAIN waves /\ damaged \subseteq waves[current] BY <1>7, DamagedAreCurrent
  <2>2. WellPlanned(policy, waves) BY <2>1 DEF PrepInv, WavesInOrder
  <2>3. /\ Cardinality(waves[current]) <= policy.limit
        /\ \A g, h \in waves[current] : g # h => policy.member[g] \cap policy.member[h] = {}
        /\ (\E m \in 1 .. policy.canaries : policy.order[m] \in waves[current])
             => Cardinality(waves[current]) = 1
    BY <2>1, <2>2 DEF WellPlanned
  <2>4. IsFiniteSet(waves[current]) /\ Cardinality(waves[current]) \in Nat
    BY <2>1, SuiteAssumption, FS_Subset, FS_CardinalityType DEF PrepInv, Preparation!PrepTypeOK
  <2>5. Cardinality(damaged) <= Cardinality(waves[current]) BY <2>1, <2>4, FS_Subset
  <2>6. Cardinality(damaged) # 0 BY <1>5, <1>7, FS_EmptySet
  <2>7. Cardinality(damaged) <= policy.limit BY <1>4, <1>5, <2>3, <2>4, <2>5
  <2>8. damaged \cap canaries # {} => Cardinality(damaged) = 1
    <3>1. damaged \cap canaries # {} => Cardinality(waves[current]) = 1 BY <2>1, <2>3
    <3> QED BY <1>5, <2>4, <2>5, <2>6, <3>1
  <2>9. \A g, h \in damaged : g # h => policy.member[g] \cap policy.member[h] = {}
    BY <2>1, <2>3
  <2>10. Preparation!DamageIsContained
    BY <2>7, <2>8, <2>9, SameCardinality DEF Preparation!DamageIsContained
  <2> QED BY <1>3, <2>10
<1> QED BY <1>6, <1>7

\* For every policy, any hosts and domains, and any findings lost: no host is told
\* to reset before all have passed the preflight and the earlier waves are prepared,
\* and what may be damaged is within one wave of the policy
\* (update_wave_plan.py:143-158, update.pp:127-283).
THEOREM PreparationSafety ==
  Preparation!PrepSpec => [](Preparation!GatesPrecedeResets /\ Preparation!DamageIsContained)
<1>1. PrepInv /\ [Preparation!PrepNext]_Preparation!prepVars => PrepInv'
  BY PrepStep DEF preparing, Preparation!prepVars
<1> QED BY <1>1, PrepStart, PrepIsGated, PTL DEF Preparation!PrepSpec

-----------------------------------------------------------------------------
(***************************************************************************)
(* The release graph: for any dependencies, architectures and retries.     *)
(*                                                                         *)
(* A reader's program of reads is sound: what it notes is read again, and  *)
(* what it noted of a child that has the same job is still true of it, so  *)
(* a second look says what was true at every moment between the two.       *)
(***************************************************************************)
LEMMA RequestFacts ==
  ASSUME parents \in Requests
  PROVE  /\ N \in Nat \ {0} /\ parents \in [Members -> SUBSET Members] /\ MaxRetries[N] \in Nat
         /\ IsFiniteSet(Members) /\ Cardinality(Members) = N
<1>1. /\ N \in Nat \ {0} /\ parents \in [Members -> SUBSET Members] /\ MaxRetries[N] \in Nat
  BY GraphAssumption DEF N, Members
<1>2. IsFiniteSet(Members) /\ Cardinality(Members) = N BY <1>1, FS_Interval DEF Members
<1> QED BY <1>1, <1>2

(***************************************************************************)
(* Sorting, and the topological order.                                     *)
(***************************************************************************)
Ascending(s) == \A i, j \in DOMAIN s : i < j => s[i] < s[j]
Lists(s, c, S) ==
  s \in [1 .. c -> S] /\ Ascending(s) /\ \A x \in S : \E i \in 1 .. c : s[i] = x

\* Every finite set of numbers can be sorted.
LEMMA Sortable ==
  ASSUME NEW k \in Nat, NEW S \in SUBSET (1 .. k)
  PROVE  /\ Cardinality(S) \in Nat
         /\ \E s : Lists(s, Cardinality(S), S)
<1> DEFINE Can(T) == Cardinality(T) \in Nat /\ \E s : Lists(s, Cardinality(T), T)
           Stuck == {n \in 0 .. k : ~ \A T \in SUBSET (1 .. n) : Can(T)}
<1>1. ASSUME Stuck # {} PROVE FALSE
  <2>1. PICK n \in Stuck : \A l \in Stuck : n <= l
    <3>1. Stuck \in SUBSET Nat OBVIOUS
    <3> HIDE DEF Stuck
    <3> QED BY <1>1, <3>1, Least
  <2>2. PICK T \in SUBSET (1 .. n) : ~ Can(T) BY <2>1
  <2>3. n \in 0 .. k BY <2>1
  <2>4. CASE T = {}
    <3>1. Cardinality(T) = 0 BY <2>4, FS_EmptySet
    <3> DEFINE s == [i \in 1 .. 0 |-> 0]
    <3>2. s \in [1 .. 0 -> T] /\ Ascending(s) BY DEF Ascending
    <3>3. Lists(s, 0, T) BY <2>4, <3>2 DEF Lists
    <3> HIDE DEF s
    <3> QED BY <2>2, <3>1, <3>3
  <2>5. CASE T # {}
    <3>0. PICK x \in T : TRUE BY <2>5
    <3>1. n \in Nat /\ n # 0 /\ n - 1 \in 0 .. k /\ ~ (n <= n - 1) BY <2>3, <3>0
    <3>2. \A U \in SUBSET (1 .. n - 1) : Can(U)
      <4>1. n - 1 \notin Stuck BY <2>1, <3>1
      <4> HIDE DEF Can
      <4> QED BY <3>1, <4>1
    <3>3. CASE n \notin T
      <4>1. T \subseteq 1 .. n - 1 BY <3>1, <3>3
      <4> QED BY <2>2, <3>2, <4>1
    <3>4. CASE n \in T
      <4> DEFINE U == T \ {n}
      <4>1. U \in SUBSET (1 .. n - 1) /\ n \notin U /\ T = U \cup {n} BY <3>1, <3>4
      <4> HIDE DEF U
      <4> DEFINE c == Cardinality(U)
      <4>2. c \in Nat BY <3>2, <4>1
      <4>11. PICK s : Lists(s, c, U) BY <3>2, <4>1
      <4>3. s \in [1 .. c -> U] /\ Ascending(s) /\ \A u \in U : \E i \in 1 .. c : s[i] = u
        BY <4>11 DEF Lists
      <4>4. Cardinality(T) = c + 1
        <5>1. IsFiniteSet(U)
          <6>1. IsFiniteSet(1 .. n - 1) BY <3>1, FS_Interval
          <6> QED BY <4>1, <6>1, FS_Subset
        <5> QED BY <4>1, <5>1, FS_AddElement
      <4> HIDE DEF c
      <4> DEFINE t == [i \in 1 .. c + 1 |-> IF i = c + 1 THEN n ELSE s[i]]
      <4>5. t \in [1 .. c + 1 -> T] BY <4>1, <4>2, <4>3
      <4>6. \A i \in 1 .. c : t[i] = s[i] /\ s[i] \in U /\ s[i] \in Nat /\ s[i] < n
        <5>1. \A u \in U : u \in Nat /\ u < n BY <3>1, <4>1
        <5> QED BY <4>2, <4>3, <5>1
      <4>7. t[c + 1] = n BY <4>2
      <4>8. \A i \in 1 .. c + 1 : i \in 1 .. c \/ i = c + 1 BY <4>2
      <4>9. Ascending(t)
        <5> SUFFICES ASSUME NEW i \in 1 .. c + 1, NEW j \in 1 .. c + 1, i < j PROVE t[i] < t[j]
          BY DEF Ascending
        <5>1. i \in 1 .. c BY <4>2
        <5>2. CASE j = c + 1 BY <4>6, <4>7, <5>1, <5>2
        <5>3. CASE j \in 1 .. c
          <6>1. s[i] < s[j] BY <4>3, <5>1, <5>3 DEF Ascending
          <6> QED BY <4>6, <5>1, <5>3, <6>1
        <5> QED BY <4>8, <5>2, <5>3
      <4>10. \A u \in T : \E i \in 1 .. c + 1 : t[i] = u
        <5>1. \A u \in U : \E i \in 1 .. c : u = t[i] BY <4>3, <4>6
        <5>2. \A i \in 1 .. c : i \in 1 .. c + 1 BY <4>2
        <5>3. c + 1 \in 1 .. c + 1 BY <4>2
        <5>4. \A i \in 1 .. c + 1 : t[i] \in T BY <4>5
        <5> HIDE DEF t
        <5> QED BY <4>1, <4>7, <5>1, <5>2, <5>3, <5>4
      <4> HIDE DEF t
      <4>12. Lists(t, c + 1, T) BY <4>5, <4>9, <4>10 DEF Lists
      <4>13. c + 1 \in Nat BY <4>2
      <4> QED BY <2>2, <4>4, <4>12, <4>13
    <3> QED BY <3>3, <3>4
  <2> QED BY <2>4, <2>5
<1>2. k \notin Stuck /\ k \in 0 .. k
  <2>1. k \notin Stuck BY <1>1
  <2> HIDE DEF Stuck
  <2> QED BY <2>1
<1>3. Can(S)
  <2> HIDE DEF Can
  <2> QED BY <1>2
<1> QED BY <1>3

\* A sorted set is a sequence of its members, each of them once.
LEMMA SortedFacts ==
  ASSUME NEW k \in Nat, NEW S \in SUBSET (1 .. k)
  PROVE  /\ Sorted(S) \in Seq(S) /\ Len(Sorted(S)) = Cardinality(S) /\ Len(Sorted(S)) \in Nat
         /\ \A x \in S : \E i \in 1 .. Len(Sorted(S)) : Sorted(S)[i] = x
         /\ \A i, j \in 1 .. Len(Sorted(S)) : i # j => Sorted(S)[i] # Sorted(S)[j]
<1> DEFINE c == Cardinality(S)
           P(s) == \A i, j \in DOMAIN s : i < j => s[i] < s[j]
<1>1. c \in Nat /\ \E s : Lists(s, c, S) BY Sortable
<1> HIDE DEF c
<1>2. \E s \in [1 .. c -> S] : P(s) BY <1>1 DEF Lists, Ascending
<1>3. Sorted(S) = CHOOSE s \in [1 .. c -> S] : P(s) BY DEF Sorted, c
<1>4. Sorted(S) \in [1 .. c -> S] /\ P(Sorted(S))
  <2> HIDE DEF P
  <2> QED BY <1>2, <1>3
<1>5. \A i, j \in 1 .. c : i # j => Sorted(S)[i] # Sorted(S)[j]
  <2>0. \A x \in S : x \in Nat OBVIOUS
  <2>1. \A i \in 1 .. c : Sorted(S)[i] \in S BY <1>4
  <2>2. \A i, j \in 1 .. c : i < j => Sorted(S)[i] < Sorted(S)[j] BY <1>4
  <2> SUFFICES ASSUME NEW i \in 1 .. c, NEW j \in 1 .. c, i # j
               PROVE  Sorted(S)[i] # Sorted(S)[j]
    OBVIOUS
  <2>3. Sorted(S)[i] \in Nat /\ Sorted(S)[j] \in Nat BY <2>0, <2>1
  <2>4. i < j \/ j < i BY <1>1
  <2> QED BY <2>2, <2>3, <2>4
<1>6. \A x \in S : \E i \in 1 .. c : Sorted(S)[i] = x
  <2>1. IsFiniteSet(S)
    <3>1. IsFiniteSet(1 .. k) BY FS_Interval
    <3> QED BY <3>1, FS_Subset
  <2>2. Cardinality(1 .. c) = c BY <1>1, FS_Interval
  <2>3. Sorted(S) \in Injection(1 .. c, S) BY <1>4, <1>5 DEF Injection, IsInjective
  <2>4. Sorted(S) \in Surjection(1 .. c, S) BY <2>1, <2>2, <2>3, FS_Injection DEF c
  <2> QED BY <2>4 DEF Surjection
<1>7. Sorted(S) \in Seq(S) /\ Len(Sorted(S)) = c BY <1>1, <1>4
<1> QED BY <1>1, <1>5, <1>6, <1>7 DEF c

\* Members in an order in which every one comes after those it depends on.
InOrder(deps, s) ==
  /\ s \in Seq(Members)
  /\ \A i, j \in 1 .. Len(s) : i # j => s[i] # s[j]
  /\ \A i \in 1 .. Len(s) : \A q \in deps[s[i]] : \E j \in 1 .. Len(s) : j < i /\ s[j] = q

LEMMA GrownInOrder ==
  ASSUME N \in Nat, NEW deps, NEW s, InOrder(deps, s)
  PROVE  InOrder(deps, Grown(deps, s))
<1> DEFINE next == {m \in Members \ ToSet(s) : deps[m] \subseteq ToSet(s)}
           t == Sorted(next)
           g == s \o t
<1>1. /\ t \in Seq(next) /\ Len(t) \in Nat
      /\ \A i, j \in 1 .. Len(t) : i # j => t[i] # t[j]
  BY SortedFacts DEF Members
<1>2. s \in Seq(Members) /\ Len(s) \in Nat BY DEF InOrder
<1>11. next \subseteq Members OBVIOUS
<1> HIDE DEF t, next
<1>3. \A i \in 1 .. Len(t) : t[i] \in next BY <1>1
<1>4. t \in Seq(Members) BY <1>1, <1>11
<1>5. /\ g \in Seq(Members) /\ Len(g) = Len(s) + Len(t)
      /\ \A i \in 1 .. Len(s) : g[i] = s[i]
      /\ \A i \in 1 .. Len(t) : g[Len(s) + i] = t[i]
  BY <1>2, <1>4
<1>6. \A i \in 1 .. Len(g) : i \in 1 .. Len(s) \/ (i - Len(s) \in 1 .. Len(t) /\ g[i] = t[i - Len(s)])
  <2> TAKE i \in 1 .. Len(g)
  <2>1. CASE ~ (i <= Len(s))
    <3>1. i - Len(s) \in 1 .. Len(t) BY <1>1, <1>2, <1>5, <2>1
    <3>2. Len(s) + (i - Len(s)) = i BY <1>2, <1>5
    <3> QED BY <1>5, <3>1, <3>2
  <2> QED BY <1>2, <2>1
<1>7. \A x \in ToSet(s) : \E j \in 1 .. Len(s) : s[j] = x BY <1>2 DEF ToSet
<1> HIDE DEF g
<1>8. ASSUME NEW i \in 1 .. Len(g), NEW j \in 1 .. Len(g), i # j PROVE g[i] # g[j]
  <2>1. \A k \in 1 .. Len(t) : \A l \in 1 .. Len(s) : t[k] # s[l] BY <1>2, <1>3 DEF next, ToSet
  <2>2. CASE i \in 1 .. Len(s) /\ j \in 1 .. Len(s) BY <1>5, <1>8, <2>2 DEF InOrder
  <2>3. CASE i \in 1 .. Len(s) /\ j \notin 1 .. Len(s) BY <1>5, <1>6, <2>1, <2>3
  <2>4. CASE i \notin 1 .. Len(s) /\ j \in 1 .. Len(s) BY <1>5, <1>6, <2>1, <2>4
  <2>5. CASE i \notin 1 .. Len(s) /\ j \notin 1 .. Len(s)
    <3>1. i - Len(s) \in 1 .. Len(t) /\ j - Len(s) \in 1 .. Len(t) BY <1>6, <2>5
    <3>2. i - Len(s) # j - Len(s) BY <1>2, <1>5, <1>8
    <3> QED BY <1>1, <1>6, <2>5, <3>1, <3>2
  <2> QED BY <2>2, <2>3, <2>4, <2>5
<1>9. ASSUME NEW i \in 1 .. Len(g), NEW q \in deps[g[i]]
      PROVE  \E j \in 1 .. Len(g) : j < i /\ g[j] = q
  <2>1. \A j \in 1 .. Len(s) : j \in 1 .. Len(g) BY <1>1, <1>2, <1>5
  <2>2. CASE i \in 1 .. Len(s)
    <3>1. PICK j \in 1 .. Len(s) : j < i /\ s[j] = q BY <1>5, <1>9, <2>2 DEF InOrder
    <3> QED BY <1>5, <2>1, <3>1
  <2>3. CASE i \notin 1 .. Len(s)
    <3>1. g[i] \in next BY <1>3, <1>6, <2>3
    <3>2. q \in ToSet(s) BY <1>9, <3>1 DEF next
    <3>3. PICK j \in 1 .. Len(s) : s[j] = q BY <1>7, <3>2
    <3>4. j < i BY <1>2, <1>5, <2>3
    <3> QED BY <1>5, <2>1, <3>3, <3>4
  <2> QED BY <2>2, <2>3
<1>10. Grown(deps, s) = g BY DEF Grown, g, t, next
<1> QED BY <1>5, <1>8, <1>9, <1>10 DEF InOrder

LEMMA LayersInOrder ==
  ASSUME N \in Nat, NEW deps
  PROVE  InOrder(deps, Layers(deps))
<1> DEFINE Def(f, k) == f = [n \in 0 .. k |-> IF n = 0 THEN <<>> ELSE Grown(deps, f[n - 1])]
           Stuck == {k \in 0 .. N : ~ \E f : Def(f, k)}
           first == CHOOSE f : Def(f, N)
           Bad == {n \in 0 .. N : ~ InOrder(deps, first[n])}
<1>1. ASSUME Stuck # {} PROVE FALSE
  <2>1. PICK k \in Stuck : \A l \in Stuck : k <= l
    <3>1. Stuck \in SUBSET Nat OBVIOUS
    <3> HIDE DEF Stuck
    <3> QED BY <1>1, <3>1, Least
  <2>2. k \in 0 .. N /\ ~ \E f : Def(f, k) BY <2>1
  <2>3. CASE k = 0
    <3>1. Def([n \in 0 .. 0 |-> <<>>], 0) OBVIOUS
    <3> HIDE DEF Def
    <3> QED BY <2>2, <2>3, <3>1
  <2>4. CASE k # 0
    <3>1. k - 1 \in 0 .. N /\ ~ (k <= k - 1) BY <2>2, <2>4
    <3>2. k - 1 \notin Stuck BY <2>1, <3>1
    <3>3. PICK f : Def(f, k - 1)
      <4> HIDE DEF Def
      <4> QED BY <3>1, <3>2
    <3> DEFINE h == [n \in 0 .. k |-> IF n = k THEN Grown(deps, f[k - 1]) ELSE f[n]]
    <3>4. \A n \in 0 .. k - 1 : h[n] = f[n] /\ f[n] = IF n = 0 THEN <<>> ELSE Grown(deps, f[n - 1])
      BY <2>2, <3>1, <3>3
    <3>5. h[k] = Grown(deps, h[k - 1])
      <4>1. k \in 0 .. k /\ k - 1 \in 0 .. k - 1 BY <2>2, <2>4
      <4> QED BY <3>4, <4>1
    <3>6. h = [n \in 0 .. k |-> h[n]] OBVIOUS
    <3> HIDE DEF h
    <3>7. \A n \in 0 .. k : h[n] = IF n = 0 THEN <<>> ELSE Grown(deps, h[n - 1])
      <4> TAKE n \in 0 .. k
      <4>1. CASE n = k BY <2>4, <3>5, <4>1
      <4>2. CASE n # k
        <5>1. n \in 0 .. k - 1 /\ (n # 0 => n - 1 \in 0 .. k - 1) BY <2>2, <4>2
        <5> QED BY <3>4, <5>1
      <4> QED BY <4>1, <4>2
    <3>8. Def(h, k) BY <3>6, <3>7
    <3> HIDE DEF Def
    <3> QED BY <2>2, <3>8
  <2> QED BY <2>3, <2>4
<1>2. \E f : Def(f, N)
  <2>1. N \notin Stuck /\ N \in 0 .. N BY <1>1
  <2> HIDE DEF Def
  <2> QED BY <2>1
<1>3. Layers(deps) = first[N] BY DEF Layers
<1>4. Def(first, N)
  <2> HIDE DEF Def
  <2> QED BY <1>2
<1> HIDE DEF first
<1>5. ASSUME Bad # {} PROVE FALSE
  <2>1. PICK n \in Bad : \A l \in Bad : n <= l
    <3>1. Bad \in SUBSET Nat OBVIOUS
    <3> HIDE DEF Bad
    <3> QED BY <1>5, <3>1, Least
  <2>2. CASE n = 0
    <3>1. first[0] = <<>> BY <1>4
    <3>2. InOrder(deps, <<>>) BY DEF InOrder
    <3> QED BY <2>1, <2>2, <3>1, <3>2
  <2>3. CASE n # 0
    <3>1. n - 1 \in 0 .. N /\ ~ (n <= n - 1) BY <2>1, <2>3
    <3>2. InOrder(deps, first[n - 1]) BY <2>1, <3>1
    <3>3. first[n] = Grown(deps, first[n - 1]) BY <1>4, <2>1, <2>3
    <3> QED BY <2>1, <3>2, <3>3, GrownInOrder
  <2> QED BY <2>2, <2>3
<1>6. N \in 0 .. N /\ N \notin Bad BY <1>5
<1> QED BY <1>3, <1>6

(***************************************************************************)
(* Programs of reads.                                                      *)
(***************************************************************************)
Holds(rs, x) == \E i \in 1 .. Len(rs) : rs[i] = x
After(rs, i, x) == \E j \in 1 .. Len(rs) : i < j /\ rs[j] = x

LEMMA ConcatHolds ==
  ASSUME NEW S, NEW s \in Seq(S), NEW t \in Seq(S)
  PROVE  /\ s \o t \in Seq(S) /\ Len(s \o t) = Len(s) + Len(t)
         /\ Len(s) \in Nat /\ Len(t) \in Nat
         /\ \A i \in 1 .. Len(s) : i \in 1 .. Len(s \o t) /\ (s \o t)[i] = s[i]
         /\ \A i \in 1 .. Len(t) : Len(s) + i \in 1 .. Len(s \o t) /\ (s \o t)[Len(s) + i] = t[i]
         /\ \A i \in 1 .. Len(s \o t) :
              i \in 1 .. Len(s) \/ (i - Len(s) \in 1 .. Len(t) /\ (s \o t)[i] = t[i - Len(s)])
         /\ \A x : Holds(s \o t, x) <=> Holds(s, x) \/ Holds(t, x)
         /\ \A x : \A i \in 1 .. Len(s) : After(s, i, x) \/ Holds(t, x) => After(s \o t, i, x)
         /\ \A x : \A i \in 1 .. Len(t) : After(t, i, x) => After(s \o t, Len(s) + i, x)
<1> DEFINE g == s \o t
<1>1. /\ g \in Seq(S) /\ Len(g) = Len(s) + Len(t) /\ Len(s) \in Nat /\ Len(t) \in Nat
      /\ \A i \in 1 .. Len(s) : g[i] = s[i]
      /\ \A i \in 1 .. Len(t) : g[Len(s) + i] = t[i]
  OBVIOUS
<1> HIDE DEF g
<1>2. \A i \in 1 .. Len(s) : i \in 1 .. Len(g) BY <1>1
<1>3. \A i \in 1 .. Len(t) : Len(s) + i \in 1 .. Len(g) BY <1>1
<1>4. \A i \in 1 .. Len(g) :
        i \in 1 .. Len(s) \/ (i - Len(s) \in 1 .. Len(t) /\ g[i] = t[i - Len(s)])
  <2> TAKE i \in 1 .. Len(g)
  <2>1. CASE ~ (i <= Len(s))
    <3>1. i - Len(s) \in 1 .. Len(t) BY <1>1, <2>1
    <3>2. Len(s) + (i - Len(s)) = i BY <1>1
    <3> QED BY <1>1, <3>1, <3>2
  <2> QED BY <1>1, <2>1
<1>5. \A x : Holds(g, x) <=> Holds(s, x) \/ Holds(t, x)
  <2> TAKE x
  <2>1. Holds(s, x) => Holds(g, x) BY <1>1, <1>2 DEF Holds
  <2>2. Holds(t, x) => Holds(g, x) BY <1>1, <1>3 DEF Holds
  <2>3. Holds(g, x) => Holds(s, x) \/ Holds(t, x) BY <1>1, <1>4 DEF Holds
  <2> QED BY <2>1, <2>2, <2>3
<1>6. ASSUME NEW x, NEW i \in 1 .. Len(s), After(s, i, x) \/ Holds(t, x) PROVE After(g, i, x)
  <2>1. CASE After(s, i, x) BY <1>1, <1>2, <2>1 DEF After
  <2>2. CASE Holds(t, x)
    <3>1. PICK j \in 1 .. Len(t) : t[j] = x BY <2>2 DEF Holds
    <3>2. i < Len(s) + j BY <1>1
    <3> QED BY <1>1, <1>3, <3>1, <3>2 DEF After
  <2> QED BY <1>6, <2>1, <2>2
<1>7. ASSUME NEW x, NEW i \in 1 .. Len(t), After(t, i, x) PROVE After(g, Len(s) + i, x)
  <2>1. PICK j \in 1 .. Len(t) : i < j /\ t[j] = x BY <1>7 DEF After
  <2>2. Len(s) + i < Len(s) + j BY <1>1, <2>1
  <2> QED BY <1>1, <1>3, <2>1, <2>2 DEF After
<1> QED BY <1>1, <1>2, <1>3, <1>4, <1>5, <1>6, <1>7 DEF g

\* What is flattened holds what the sequences hold.
LEMMA FlattenFacts ==
  ASSUME NEW S, NEW ss \in Seq(Seq(S)), Len(ss) # 0
  PROVE  /\ FlattenSeq(ss) \in Seq(S)
         /\ \A x : Holds(FlattenSeq(ss), x) <=> \E a \in 1 .. Len(ss) : Holds(ss[a], x)
<1> DEFINE Def(f, k) == f = [i \in 1 .. k |-> IF i = 1 THEN ss[i] ELSE f[i - 1] \o ss[i]]
           l == Len(ss)
           Stuck == {k \in 1 .. l : ~ \E f : Def(f, k)}
           flat == CHOOSE f : Def(f, l)
           Fits(s, k) == s \in Seq(S) /\ \A x : Holds(s, x) <=> \E a \in 1 .. k : Holds(ss[a], x)
           Bad == {k \in 1 .. l : ~ Fits(flat[k], k)}
<1>0. l \in Nat /\ l # 0 /\ \A a \in 1 .. l : ss[a] \in Seq(S) OBVIOUS
<1>9. FlattenSeq(ss) = flat[l] BY <1>0 DEF FlattenSeq
<1> HIDE DEF l
<1>1. ASSUME Stuck # {} PROVE FALSE
  <2>1. PICK k \in Stuck : \A n \in Stuck : k <= n
    <3>2. 1 .. l \subseteq Nat BY <1>0
    <3> HIDE DEF Def
    <3>1. Stuck \in SUBSET Nat BY <3>2
    <3> HIDE DEF Stuck
    <3> QED BY <1>1, <3>1, Least
  <2>2. k \in 1 .. l /\ ~ \E f : Def(f, k) BY <2>1
  <2>3. CASE k = 1
    <3>1. Def([i \in 1 .. 1 |-> ss[i]], 1) OBVIOUS
    <3> HIDE DEF Def
    <3> QED BY <2>2, <2>3, <3>1
  <2>4. CASE k # 1
    <3>1. k - 1 \in 1 .. l /\ ~ (k <= k - 1) BY <1>0, <2>2, <2>4
    <3>2. k - 1 \notin Stuck BY <2>1, <3>1
    <3>3. PICK f : Def(f, k - 1)
      <4> HIDE DEF Def
      <4> QED BY <3>1, <3>2
    <3> DEFINE h == [i \in 1 .. k |-> IF i = k THEN f[k - 1] \o ss[k] ELSE f[i]]
    <3>4. \A i \in 1 .. k - 1 : h[i] = f[i] /\ f[i] = IF i = 1 THEN ss[i] ELSE f[i - 1] \o ss[i]
      <4>1. \A i \in 1 .. k - 1 : i \in 1 .. k /\ i # k BY <1>0, <2>2
      <4> QED BY <3>3, <4>1
    <3>5. h[k] = h[k - 1] \o ss[k]
      <4>1. k \in 1 .. k /\ k - 1 \in 1 .. k - 1 BY <2>2, <2>4
      <4> QED BY <3>4, <4>1
    <3>6. h = [i \in 1 .. k |-> h[i]] OBVIOUS
    <3> HIDE DEF h
    <3>7. \A i \in 1 .. k : h[i] = IF i = 1 THEN ss[i] ELSE h[i - 1] \o ss[i]
      <4> TAKE i \in 1 .. k
      <4>1. CASE i = k BY <2>4, <3>5, <4>1
      <4>2. CASE i # k
        <5>1. i \in 1 .. k - 1 /\ (i # 1 => i - 1 \in 1 .. k - 1) BY <2>2, <4>2
        <5> QED BY <3>4, <5>1
      <4> QED BY <4>1, <4>2
    <3>8. Def(h, k) BY <3>6, <3>7
    <3> HIDE DEF Def
    <3> QED BY <2>2, <3>8
  <2> QED BY <2>3, <2>4
<1>2. \E f : Def(f, l)
  <2>1. l \notin Stuck BY <1>1
  <2>2. l \in 1 .. l BY <1>0
  <2> QED BY <2>1, <2>2
<1>4. Def(flat, l)
  <2> HIDE DEF Def
  <2> QED BY <1>2
<1> HIDE DEF flat
<1>5. ASSUME Bad # {} PROVE FALSE
  <2>1. PICK k \in Bad : \A n \in Bad : k <= n
    <3>1. Bad \in SUBSET Nat BY <1>0
    <3> HIDE DEF Bad
    <3> QED BY <1>5, <3>1, Least
  <2>5. k \in 1 .. l /\ ~ Fits(flat[k], k) BY <2>1
  <2>2. CASE k = 1
    <3>1. flat[1] = ss[1] BY <1>0, <1>4
    <3>2. \A a : a \in 1 .. 1 <=> a = 1 OBVIOUS
    <3>3. Fits(ss[1], 1) BY <1>0, <3>2
    <3> HIDE DEF Fits
    <3> QED BY <2>2, <2>5, <3>1, <3>3
  <2>3. CASE k # 1
    <3>1. k - 1 \in 1 .. l /\ ~ (k <= k - 1) BY <1>0, <2>5, <2>3
    <3>2. Fits(flat[k - 1], k - 1)
      <4> HIDE DEF Fits
      <4> QED BY <2>1, <3>1
    <3>3. flat[k] = flat[k - 1] \o ss[k] BY <1>4, <2>5, <2>3
    <3>4. \A a : a \in 1 .. k <=> a \in 1 .. k - 1 \/ a = k BY <2>5
    <3>5. flat[k] \in Seq(S) /\ \A x : Holds(flat[k], x) <=> Holds(flat[k - 1], x) \/ Holds(ss[k], x)
      <4>1. flat[k - 1] \in Seq(S) BY <3>2
      <4>2. ss[k] \in Seq(S) BY <1>0, <2>5
      <4> QED BY <3>3, <4>1, <4>2, ConcatHolds
    <3>6. Fits(flat[k], k) BY <3>2, <3>4, <3>5
    <3> HIDE DEF Fits
    <3> QED BY <2>5, <3>6
  <2> QED BY <2>2, <2>3
<1>7. Fits(flat[l], l)
  <2>1. l \notin Bad BY <1>5
  <2>2. l \in 1 .. l BY <1>0
  <2> HIDE DEF Fits
  <2> QED BY <2>1, <2>2
<1> QED BY <1>7, <1>9 DEF l

Operations == {"lineage", "lineage again", "edge", "edge again"}

\* The members a reader asks about.
Asks(p) == IF p \in {Accept, Envelope} THEN Members ELSE parents[p]
Steps(p) == (Operations \X Asks(p)) \cup {TheEnd}

\* What still has to be read after a read: the edge of a member whose lineage is
\* noted, everything again, and at acceptance the edges of those it is a parent of.
Owed(p, r) ==
  IF r[1] = "lineage" THEN {<<"edge", r[2]>>}
  ELSE IF r[1] = "edge"
  THEN {<<"edge again", q>> : q \in Asks(p)}
         \cup (IF p = Accept THEN {<<"edge", m>> : m \in {n \in Members : r[2] \in parents[n]}}
               ELSE {})
  ELSE IF r[1] = "edge again" /\ p # Envelope THEN {<<"lineage again", q>> : q \in Asks(p)}
  ELSE {}

Sound(p, rs) ==
  /\ rs \in Seq(Steps(p))
  /\ \A i \in 1 .. Len(rs) : \A x \in Owed(p, rs[i]) : After(rs, i, x)

LEMMA SoundEnd == ASSUME NEW p PROVE Sound(p, <<TheEnd>>) /\ <<TheEnd>> \in Seq(Steps(p))
<1>1. <<TheEnd>> \in Seq(Steps(p)) /\ Len(<<TheEnd>>) = 1 /\ <<TheEnd>>[1] = TheEnd
  BY DEF Steps
<1>2. Owed(p, TheEnd) = {} BY DEF Owed, TheEnd
<1> QED BY <1>1, <1>2 DEF Sound

LEMMA SoundBefore ==
  ASSUME NEW p, NEW s \in Seq(Steps(p)), NEW t, Sound(p, t),
         \A i \in 1 .. Len(s) : \A x \in Owed(p, s[i]) : After(s, i, x) \/ Holds(t, x)
  PROVE  Sound(p, s \o t) /\ \A x : Holds(s \o t, x) <=> Holds(s, x) \/ Holds(t, x)
<1>1. t \in Seq(Steps(p)) BY DEF Sound
<1> DEFINE g == s \o t
<1>2. /\ g \in Seq(Steps(p)) /\ Len(g) = Len(s) + Len(t) /\ Len(s) \in Nat /\ Len(t) \in Nat
      /\ \A i \in 1 .. Len(s) : g[i] = s[i]
      /\ \A i \in 1 .. Len(g) :
           i \in 1 .. Len(s) \/ (i - Len(s) \in 1 .. Len(t) /\ g[i] = t[i - Len(s)])
      /\ \A x : Holds(g, x) <=> Holds(s, x) \/ Holds(t, x)
      /\ \A x : \A i \in 1 .. Len(s) : After(s, i, x) \/ Holds(t, x) => After(g, i, x)
      /\ \A x : \A i \in 1 .. Len(t) : After(t, i, x) => After(g, Len(s) + i, x)
  BY <1>1, ConcatHolds
<1> HIDE DEF g
<1>3. ASSUME NEW i \in 1 .. Len(g), NEW x \in Owed(p, g[i]) PROVE After(g, i, x)
  <2>1. CASE i \in 1 .. Len(s) BY <1>2, <1>3, <2>1
  <2>2. CASE i - Len(s) \in 1 .. Len(t) /\ g[i] = t[i - Len(s)]
    <3>1. After(t, i - Len(s), x) BY <1>3, <2>2 DEF Sound
    <3>2. Len(s) + (i - Len(s)) = i BY <1>2
    <3> QED BY <1>2, <2>2, <3>1, <3>2
  <2> QED BY <1>2, <2>1, <2>2
<1> QED BY <1>2, <1>3 DEF Sound, g

LEMMA ReadsFacts ==
  ASSUME NEW p, NEW op \in Operations, NEW from \in Seq(Asks(p))
  PROVE  /\ Reads(op, from) \in Seq(Steps(p)) /\ Len(Reads(op, from)) = Len(from)
         /\ \A i \in 1 .. Len(from) : Reads(op, from)[i] = <<op, from[i]>> /\ from[i] \in Asks(p)
         /\ \A q : Holds(from, q) => Holds(Reads(op, from), <<op, q>>)
<1>1. Len(from) \in Nat /\ \A i \in 1 .. Len(from) : from[i] \in Asks(p) OBVIOUS
<1>2. \A i \in 1 .. Len(from) : <<op, from[i]>> \in Steps(p) BY <1>1 DEF Steps
<1>3. /\ Reads(op, from) \in Seq(Steps(p)) /\ Len(Reads(op, from)) = Len(from)
      /\ \A i \in 1 .. Len(from) : Reads(op, from)[i] = <<op, from[i]>>
  BY <1>1, <1>2 DEF Reads
<1> QED BY <1>1, <1>3 DEF Holds

\* A block of reads of one kind, before a program that pays what they owe.
LEMMA SoundBlock ==
  ASSUME NEW p, NEW op \in Operations, NEW from \in Seq(Asks(p)), NEW t, Sound(p, t),
         \A m \in Asks(p) : Holds(from, m) => \A x \in Owed(p, <<op, m>>) : Holds(t, x)
  PROVE  /\ Sound(p, Reads(op, from) \o t)
         /\ \A x : Holds(t, x) => Holds(Reads(op, from) \o t, x)
         /\ \A q : Holds(from, q) => Holds(Reads(op, from) \o t, <<op, q>>)
<1> DEFINE s == Reads(op, from)
<1>1. /\ s \in Seq(Steps(p)) /\ Len(s) = Len(from)
      /\ \A i \in 1 .. Len(from) : s[i] = <<op, from[i]>> /\ from[i] \in Asks(p)
      /\ \A q : Holds(from, q) => Holds(s, <<op, q>>)
  BY ReadsFacts
<1> HIDE DEF s
<1>2. ASSUME NEW i \in 1 .. Len(s), NEW x \in Owed(p, s[i]) PROVE Holds(t, x)
  <2>1. s[i] = <<op, from[i]>> /\ from[i] \in Asks(p) /\ i \in 1 .. Len(from) BY <1>1
  <2>2. Holds(from, from[i]) BY <2>1 DEF Holds
  <2>3. x \in Owed(p, <<op, from[i]>>) BY <1>2, <2>1
  <2> QED BY <2>1, <2>2, <2>3
<1>3. Sound(p, s \o t) /\ \A x : Holds(s \o t, x) <=> Holds(s, x) \/ Holds(t, x)
  BY <1>1, <1>2, SoundBefore
<1> QED BY <1>1, <1>3 DEF s

\* Concatenation, whose own operator the provers hide from each other.
Cat(s, t) == s \o t

LEMMA Associative ==
  ASSUME NEW S, NEW s \in Seq(S), NEW t \in Seq(S), NEW u \in Seq(S)
  PROVE  Cat(s, t) \in Seq(S) /\ Cat(Cat(s, t), u) = Cat(s, Cat(t, u))
<1>1. s \o t \in Seq(S) OBVIOUS
<1>2. (s \o t) \o u = s \o (t \o u) OBVIOUS
<1> QED BY <1>1, <1>2 DEF Cat

LEMMA Regroup ==
  ASSUME NEW S, NEW l \in Seq(S), NEW g \in Seq(S), NEW h \in Seq(S), NEW k \in Seq(S),
         NEW e \in Seq(S)
  PROVE  Cat(Cat(Cat(Cat(Cat(l, g), h), h), k), e) = Cat(l, Cat(g, Cat(h, Cat(h, Cat(k, e)))))
<1>1. \A s, t, u \in Seq(S) : Cat(s, t) \in Seq(S) /\ Cat(Cat(s, t), u) = Cat(s, Cat(t, u))
  BY Associative
<1>2. Cat(l, g) \in Seq(S) /\ Cat(k, e) \in Seq(S) BY <1>1
<1>3. Cat(Cat(l, g), h) \in Seq(S) /\ Cat(h, Cat(k, e)) \in Seq(S) BY <1>1, <1>2
<1>4. Cat(Cat(Cat(l, g), h), h) \in Seq(S) /\ Cat(h, Cat(h, Cat(k, e))) \in Seq(S) BY <1>1, <1>3
<1>5. Cat(Cat(Cat(Cat(Cat(l, g), h), h), k), e) = Cat(Cat(Cat(Cat(l, g), h), h), Cat(k, e))
  BY <1>1, <1>4
<1>6. Cat(Cat(Cat(Cat(l, g), h), h), Cat(k, e)) = Cat(Cat(Cat(l, g), h), Cat(h, Cat(k, e)))
  BY <1>1, <1>2, <1>3
<1>7. Cat(Cat(Cat(l, g), h), Cat(h, Cat(k, e))) = Cat(Cat(l, g), Cat(h, Cat(h, Cat(k, e))))
  BY <1>1, <1>2, <1>3
<1>8. Cat(Cat(l, g), Cat(h, Cat(h, Cat(k, e)))) = Cat(l, Cat(g, Cat(h, Cat(h, Cat(k, e)))))
  BY <1>1, <1>4
<1> QED BY <1>5, <1>6, <1>7, <1>8

\* What a freezer reads is sound, and asks for the edge of every parent.
AsksAll(p, rs) == Sound(p, rs) /\ \A q \in Asks(p) : Holds(rs, <<"edge", q>>)

LEMMA FreezerProgram ==
  ASSUME parents \in Requests, NEW m \in Members
  PROVE  AsksAll(m, Append(Program(m), TheEnd))
<1>1. /\ N \in Nat /\ parents[m] \in SUBSET Members /\ m \in 1 .. N
  BY RequestFacts DEF Members
<1>2. m \notin {Accept, Envelope} BY <1>1 DEF Accept, Envelope
<1>3. Asks(m) = parents[m] BY <1>2 DEF Asks
<1> DEFINE from == Sorted(parents[m])
<1>4. from \in Seq(Asks(m)) /\ \A q \in Asks(m) : Holds(from, q)
  <2>1. parents[m] \in SUBSET (1 .. N) BY <1>1 DEF Members
  <2>2. /\ from \in Seq(parents[m])
        /\ \A x \in parents[m] : \E i \in 1 .. Len(from) : from[i] = x
    BY <1>1, <2>1, SortedFacts
  <2> HIDE DEF from
  <2> QED BY <1>3, <2>2 DEF Holds
<1> HIDE DEF from
<1> DEFINE e == <<TheEnd>>
           a == Reads("lineage again", from) \o e
           b == Reads("edge again", from) \o a
           c == Reads("edge again", from) \o b
           d == Reads("edge", from) \o c
           f == Reads("lineage", from) \o d
<1>5. Sound(m, e) BY SoundEnd
<1> HIDE DEF e
<1> DEFINE Pays(op, t) ==
             \A q \in Asks(m) : Holds(from, q) => \A x \in Owed(m, <<op, q>>) : Holds(t, x)
           Whole(op, t) == \A q \in Asks(m) : Holds(t, <<op, q>>)
<1>6. ASSUME NEW op \in Operations, NEW t, Sound(m, t), Pays(op, t)
      PROVE  /\ Sound(m, Reads(op, from) \o t) /\ Whole(op, Reads(op, from) \o t)
             /\ \A x : Holds(t, x) => Holds(Reads(op, from) \o t, x)
  BY <1>4, <1>6, SoundBlock
<1>7. /\ "lineage" \in Operations /\ "lineage again" \in Operations
      /\ "edge" \in Operations /\ "edge again" \in Operations
  BY DEF Operations
<1>8. Sound(m, a) /\ Whole("lineage again", a)
  <2>1. Pays("lineage again", e) BY DEF Owed
  <2> HIDE DEF Pays, Whole
  <2> QED BY <1>5, <1>6, <1>7, <2>1
<1> HIDE DEF a
<1>9. /\ Sound(m, b) /\ Whole("lineage again", b) /\ Whole("edge again", b)
  <2>1. Pays("edge again", a) BY <1>8 DEF Owed
  <2>2. /\ Sound(m, b) /\ Whole("edge again", b) /\ \A x : Holds(a, x) => Holds(b, x)
    <3> HIDE DEF Pays, Whole
    <3> QED BY <1>6, <1>7, <1>8, <2>1
  <2> QED BY <1>8, <2>2
<1> HIDE DEF b
<1>10. Sound(m, c) /\ Whole("edge again", c)
  <2>1. Pays("edge again", b) BY <1>9 DEF Owed
  <2> HIDE DEF Pays, Whole
  <2> QED BY <1>6, <1>7, <1>9, <2>1
<1> HIDE DEF c
<1>11. Sound(m, d) /\ Whole("edge", d)
  <2>1. Pays("edge", c) BY <1>2, <1>10 DEF Owed
  <2> HIDE DEF Pays, Whole
  <2> QED BY <1>6, <1>7, <1>10, <2>1
<1> HIDE DEF d
<1>13. Pays("lineage", d) BY <1>11 DEF Owed
<1>14. Sound(m, f) /\ \A q \in Asks(m) : Holds(f, <<"edge", q>>)
  <2>1. Sound(m, f) /\ \A x : Holds(d, x) => Holds(f, x)
    <3> HIDE DEF Pays, Whole
    <3> QED BY <1>6, <1>7, <1>11, <1>13
  <2> QED BY <1>11, <2>1
<1>15. Append(Program(m), TheEnd) = f
  <2> DEFINE S == Steps(m)
             l == Reads("lineage", from)
             g == Reads("edge", from)
             h == Reads("edge again", from)
             k == Reads("lineage again", from)
  <2>1. l \in Seq(S) /\ g \in Seq(S) /\ h \in Seq(S) /\ k \in Seq(S) /\ e \in Seq(S)
    BY <1>4, ReadsFacts, SoundEnd DEF Operations, e
  <2>2. Program(m) = (((l \o g) \o h) \o h) \o k
    BY <1>2 DEF Program, FreezerReads, BindingReads, GuardReads, from
  <2> HIDE DEF l, g, h, k, S
  <2>3. Program(m) \in Seq(S) /\ Append(Program(m), TheEnd) = Program(m) \o e
    BY <2>1, <2>2, AppendIsConcat DEF e
  <2>4. Program(m) \o e = l \o (g \o (h \o (h \o (k \o e))))
    <3>1. Cat(Cat(Cat(Cat(Cat(l, g), h), h), k), e) = Cat(l, Cat(g, Cat(h, Cat(h, Cat(k, e)))))
      BY <2>1, Regroup
    <3> QED BY <2>2, <3>1 DEF Cat
  <2> QED BY <2>3, <2>4 DEF f, d, c, b, a, l, g, h, k
<1> QED BY <1>14, <1>15 DEF AsksAll

\* A sequence of N different members has them all.
LEMMA OrderCovers ==
  ASSUME parents \in Requests, NEW s \in Seq(Members), Len(s) = N,
         \A i, j \in 1 .. Len(s) : i # j => s[i] # s[j]
  PROVE  \A m \in Members : Holds(s, m)
<1>1. N \in Nat /\ IsFiniteSet(Members) /\ Cardinality(Members) = N BY RequestFacts
<1>2. IsFiniteSet(1 .. N) /\ Cardinality(1 .. N) = N BY <1>1, FS_Interval
<1>3. s \in [1 .. N -> Members] OBVIOUS
<1> SUFFICES ASSUME NEW m \in Members, ~ Holds(s, m) PROVE FALSE OBVIOUS
<1> DEFINE T == Members \ {m}
<1>4. IsFiniteSet(T) /\ Cardinality(T) = N - 1 BY <1>1, FS_RemoveElement
<1>5. s \in [1 .. N -> T] BY <1>3 DEF Holds
<1> HIDE DEF T
<1>6. \E i, j \in 1 .. N : i # j /\ s[i] = s[j]
  <2>1. Cardinality(T) < Cardinality(1 .. N) BY <1>1, <1>2, <1>4
  <2> QED BY <1>2, <1>4, <1>5, <2>1, FS_PigeonHole
<1> QED BY <1>6

\* Where acceptance acquires what.
LEMMA AcquiredFacts ==
  ASSUME N \in Nat, NEW S, order \in Seq(S), Len(order) = N
  PROVE  /\ Acquired \in Seq({"lineage", "edge"} \X S) /\ Len(Acquired) = 2 * N
         /\ \A i \in 1 .. 2 * N : \E k \in 1 .. N :
              \/ i = 2 * k - 1 /\ Acquired[i] = <<"lineage", order[k]>>
              \/ i = 2 * k /\ Acquired[i] = <<"edge", order[k]>>
         /\ \A k \in 1 .. N : 2 * k \in 1 .. 2 * N /\ Acquired[2 * k] = <<"edge", order[k]>>
<1>1. 2 * N \in Nat OBVIOUS
<1>2. \A i \in 1 .. 2 * N : (i + 1) \div 2 \in 1 .. N OBVIOUS
<1>3. \A i \in 1 .. 2 * N : i % 2 = 1 => i = 2 * ((i + 1) \div 2) - 1 OBVIOUS
<1>4. \A i \in 1 .. 2 * N : i % 2 # 1 => i = 2 * ((i + 1) \div 2) OBVIOUS
<1>5. \A k \in 1 .. N : 2 * k \in 1 .. 2 * N /\ (2 * k + 1) \div 2 = k /\ (2 * k) % 2 # 1 OBVIOUS
<1>6. \A k \in 1 .. N : order[k] \in S OBVIOUS
<1> DEFINE f(i) == <<IF i % 2 = 1 THEN "lineage" ELSE "edge", order[(i + 1) \div 2]>>
<1>7. Acquired = [i \in 1 .. 2 * N |-> f(i)] BY DEF Acquired
<1>8. \A i \in 1 .. 2 * N : f(i) \in {"lineage", "edge"} \X S BY <1>2, <1>6
<1>9. Acquired \in Seq({"lineage", "edge"} \X S) /\ Len(Acquired) = 2 * N
      /\ \A i \in 1 .. 2 * N : Acquired[i] = f(i)
  <2> HIDE DEF f
  <2> QED BY <1>1, <1>7, <1>8
<1>10. ASSUME NEW i \in 1 .. 2 * N
       PROVE  \E k \in 1 .. N :
              \/ i = 2 * k - 1 /\ Acquired[i] = <<"lineage", order[k]>>
              \/ i = 2 * k /\ Acquired[i] = <<"edge", order[k]>>
  <2> DEFINE k == (i + 1) \div 2
  <2>1. k \in 1 .. N BY <1>2
  <2>2. CASE i % 2 = 1
    <3>1. i = 2 * k - 1 /\ Acquired[i] = <<"lineage", order[k]>> BY <1>3, <1>9, <2>2
    <3> HIDE DEF k
    <3> QED BY <2>1, <3>1
  <2>3. CASE i % 2 # 1
    <3>1. i = 2 * k /\ Acquired[i] = <<"edge", order[k]>> BY <1>4, <1>9, <2>3
    <3> HIDE DEF k
    <3> QED BY <2>1, <3>1
  <2> QED BY <2>2, <2>3
<1>11. ASSUME NEW k \in 1 .. N
       PROVE  2 * k \in 1 .. 2 * N /\ Acquired[2 * k] = <<"edge", order[k]>>
  <2>1. Acquired[2 * k] = f(2 * k) BY <1>5, <1>9
  <2> QED BY <1>5, <2>1
<1> QED BY <1>9, <1>10, <1>11

\* One read further.
LEMMA SoundTail ==
  ASSUME NEW p, NEW rs, Sound(p, rs), rs # <<>>
  PROVE  /\ Head(rs) \in Steps(p) /\ Sound(p, Tail(rs)) /\ Len(rs) \in Nat \ {0}
         /\ Head(rs) = rs[1]
         /\ \A x : Holds(rs, x) <=> x = Head(rs) \/ Holds(Tail(rs), x)
         /\ \A x \in Owed(p, Head(rs)) : Holds(Tail(rs), x)
         /\ Len(Tail(rs)) = Len(rs) - 1
         /\ \A i \in 1 .. Len(Tail(rs)) : Tail(rs)[i] = rs[i + 1] /\ i + 1 \in 2 .. Len(rs)
         /\ \A i \in 2 .. Len(rs) : rs[i] = Tail(rs)[i - 1] /\ i - 1 \in 1 .. Len(Tail(rs))
<1> DEFINE t == Tail(rs)
<1>1. rs \in Seq(Steps(p)) /\ \A i \in 1 .. Len(rs) : \A x \in Owed(p, rs[i]) : After(rs, i, x)
  BY DEF Sound
<1>2. /\ Len(rs) \in Nat \ {0} /\ Head(rs) = rs[1] /\ rs[1] \in Steps(p)
      /\ t \in Seq(Steps(p)) /\ Len(t) = Len(rs) - 1
      /\ \A i \in 1 .. Len(t) : t[i] = rs[i + 1]
  BY <1>1
<1> HIDE DEF t
<1>3. \A i \in 1 .. Len(t) : t[i] = rs[i + 1] /\ i + 1 \in 2 .. Len(rs) /\ i + 1 \in 1 .. Len(rs)
  BY <1>2
<1>4. \A i \in 2 .. Len(rs) : rs[i] = t[i - 1] /\ i - 1 \in 1 .. Len(t)
  <2> TAKE i \in 2 .. Len(rs)
  <2>1. i - 1 \in 1 .. Len(t) /\ (i - 1) + 1 = i BY <1>2
  <2> QED BY <1>3, <2>1
<1>5. \A i \in 1 .. Len(rs) : i = 1 \/ i \in 2 .. Len(rs) BY <1>2
<1>6. \A x : Holds(rs, x) <=> x = Head(rs) \/ Holds(t, x)
  <2> TAKE x
  <2>1. Holds(rs, x) => x = Head(rs) \/ Holds(t, x) BY <1>2, <1>4, <1>5 DEF Holds
  <2>2. Holds(t, x) => Holds(rs, x) BY <1>3 DEF Holds
  <2>3. x = Head(rs) => Holds(rs, x) BY <1>2 DEF Holds
  <2> QED BY <2>1, <2>2, <2>3
<1>7. \A x \in Owed(p, Head(rs)) : Holds(t, x)
  <2> TAKE x \in Owed(p, Head(rs))
  <2>0. 1 \in 1 .. Len(rs) /\ x \in Owed(p, rs[1]) BY <1>2
  <2>1. PICK j \in 1 .. Len(rs) : 1 < j /\ rs[j] = x BY <1>1, <2>0 DEF After
  <2>2. j \in 2 .. Len(rs) BY <1>2, <2>1
  <2> QED BY <1>4, <2>1, <2>2 DEF Holds
<1>8. ASSUME NEW i \in 1 .. Len(t), NEW x \in Owed(p, t[i]) PROVE After(t, i, x)
  <2>1. PICK j \in 1 .. Len(rs) : i + 1 < j /\ rs[j] = x BY <1>1, <1>3, <1>8 DEF After
  <2>2. j \in 2 .. Len(rs) /\ i < j - 1 BY <1>2, <2>1
  <2> QED BY <1>4, <2>1, <2>2 DEF After
<1> QED BY <1>2, <1>3, <1>4, <1>6, <1>7, <1>8 DEF Sound, t

\* What a block of reads does to the program after it.
LEMMA BlockOf ==
  ASSUME NEW p, NEW op \in Operations, NEW from \in Seq(Asks(p)), NEW t, Sound(p, t),
         \A q \in Asks(p) : \A x \in Owed(p, <<op, q>>) : Holds(t, x)
  PROVE  /\ Sound(p, Reads(op, from) \o t)
         /\ \A x : Holds(t, x) => Holds(Reads(op, from) \o t, x)
         /\ \A q : Holds(from, q) => Holds(Reads(op, from) \o t, <<op, q>>)
BY SoundBlock

LEMMA AcceptProgram ==
  ASSUME parents \in Requests, InOrder(parents, order), Len(order) = N
  PROVE  AsksAll(Accept, Append(Program(Accept), TheEnd))
<1>1. /\ N \in Nat \ {0} /\ parents \in [Members -> SUBSET Members] BY RequestFacts
<1>2. Accept # Envelope /\ Asks(Accept) = Members BY <1>1 DEF Accept, Envelope, Asks
<1>3. /\ order \in Seq(Members) /\ \A m \in Members : Holds(order, m)
      /\ \A i, j \in 1 .. N : i # j => order[i] # order[j]
      /\ \A i \in 1 .. N : \A q \in parents[order[i]] : \E j \in 1 .. N : j < i /\ order[j] = q
  BY OrderCovers DEF InOrder
<1> DEFINE from == Sorted(Members)
<1>4. from \in Seq(Members) /\ \A m \in Members : Holds(from, m)
  <2>1. Members \in SUBSET (1 .. N) BY DEF Members
  <2> QED BY <1>1, <2>1, SortedFacts DEF Holds
<1> HIDE DEF from
<1> DEFINE e == <<TheEnd>>
           l == Reads("lineage again", order)
           h == Reads("edge again", from)
           a == l \o e
           b == h \o a
           c == h \o b
           d == Acquired \o c
           Whole(op, t) == \A q \in Members : Holds(t, <<op, q>>)
<1>5. Sound(Accept, e) BY SoundEnd
<1> HIDE DEF e
<1>7. /\ "lineage" \in Operations /\ "lineage again" \in Operations
      /\ "edge" \in Operations /\ "edge again" \in Operations
  BY DEF Operations
<1>8. Sound(Accept, a) /\ Whole("lineage again", a)
  <2>1. \A q \in Asks(Accept) : \A x \in Owed(Accept, <<"lineage again", q>>) : Holds(e, x)
    BY DEF Owed
  <2>2. /\ Sound(Accept, a) /\ \A q : Holds(order, q) => Holds(a, <<"lineage again", q>>)
    BY <1>2, <1>3, <1>5, <1>7, <2>1, BlockOf
  <2> QED BY <1>3, <2>2
<1> HIDE DEF a
<1>9. ASSUME NEW t, Sound(Accept, t), Whole("lineage again", t)
      PROVE  /\ Sound(Accept, h \o t) /\ Whole("edge again", h \o t) /\ Whole("lineage again", h \o t)
  <2>1. \A q \in Asks(Accept) : \A x \in Owed(Accept, <<"edge again", q>>) : Holds(t, x)
    BY <1>2, <1>9 DEF Owed
  <2>2. /\ Sound(Accept, h \o t) /\ \A q : Holds(from, q) => Holds(h \o t, <<"edge again", q>>)
        /\ \A x : Holds(t, x) => Holds(h \o t, x)
    BY <1>2, <1>4, <1>7, <1>9, <2>1, BlockOf
  <2> QED BY <1>4, <1>9, <2>2
<1>10. Sound(Accept, c) /\ Whole("edge again", c)
  <2>1. Sound(Accept, b) /\ Whole("lineage again", b) BY <1>8, <1>9
  <2> HIDE DEF b
  <2> QED BY <1>9, <2>1
<1> HIDE DEF c
<1>11. /\ Acquired \in Seq({"lineage", "edge"} \X Members) /\ Len(Acquired) = 2 * N
       /\ \A i \in 1 .. 2 * N : \E k \in 1 .. N :
              \/ i = 2 * k - 1 /\ Acquired[i] = <<"lineage", order[k]>>
              \/ i = 2 * k /\ Acquired[i] = <<"edge", order[k]>>
       /\ \A k \in 1 .. N : 2 * k \in 1 .. 2 * N /\ Acquired[2 * k] = <<"edge", order[k]>>
  BY <1>1, <1>3, AcquiredFacts
<1>12. Acquired \in Seq(Steps(Accept))
  <2>1. \A i \in 1 .. Len(Acquired) : Acquired[i] \in Steps(Accept)
    <3>1. {"lineage", "edge"} \X Members \subseteq Steps(Accept) BY <1>2 DEF Steps, Operations
    <3> QED BY <1>11, <3>1
  <2> QED BY <1>11, <2>1
<1>13. \A k \in 1 .. N : order[k] \in Members BY <1>3
<1>14. ASSUME NEW i \in 1 .. Len(Acquired), NEW x \in Owed(Accept, Acquired[i])
       PROVE  After(Acquired, i, x) \/ Holds(c, x)
  <2>1. PICK k \in 1 .. N :
              \/ i = 2 * k - 1 /\ Acquired[i] = <<"lineage", order[k]>>
              \/ i = 2 * k /\ Acquired[i] = <<"edge", order[k]>>
    BY <1>11
  <2>2. CASE i = 2 * k - 1 /\ Acquired[i] = <<"lineage", order[k]>>
    <3>1. x = <<"edge", order[k]>> BY <1>14, <2>2 DEF Owed
    <3>2. i < 2 * k BY <1>1, <2>2
    <3> QED BY <1>11, <3>1, <3>2 DEF After
  <2>3. CASE i = 2 * k /\ Acquired[i] = <<"edge", order[k]>>
    <3>1. CASE \E q \in Members : x = <<"edge again", q>> BY <1>10, <3>1
    <3>2. CASE \E m \in Members : order[k] \in parents[m] /\ x = <<"edge", m>>
      <4>1. PICK m \in Members : order[k] \in parents[m] /\ x = <<"edge", m>> BY <3>2
      <4>2. PICK j \in 1 .. N : order[j] = m
        <5>1. Holds(order, m) BY <1>3
        <5> QED BY <5>1 DEF Holds
      <4>3. PICK n \in 1 .. N : n < j /\ order[n] = order[k] BY <1>3, <4>1, <4>2
      <4>4. n = k BY <1>3, <4>3
      <4>5. i < 2 * j /\ 2 * j \in 1 .. Len(Acquired) /\ Acquired[2 * j] = x
        BY <1>1, <1>11, <2>3, <4>1, <4>2, <4>3, <4>4
      <4> QED BY <4>5 DEF After
    <3>3. x \in {<<"edge again", q>> : q \in Members}
                  \cup {<<"edge", m>> : m \in {n \in Members : order[k] \in parents[n]}}
      <4>1. \A q : Owed(Accept, <<"edge", q>>) =
                    {<<"edge again", r>> : r \in Members}
                      \cup {<<"edge", m>> : m \in {n \in Members : q \in parents[n]}}
        BY <1>2 DEF Owed
      <4> QED BY <1>14, <2>3, <4>1
    <3> QED BY <3>1, <3>2, <3>3
  <2> QED BY <2>1, <2>2, <2>3
<1>15. Sound(Accept, d) /\ \A x : Holds(d, x) <=> Holds(Acquired, x) \/ Holds(c, x)
  BY <1>10, <1>12, <1>14, SoundBefore
<1>16. \A q \in Members : Holds(d, <<"edge", q>>)
  <2> TAKE q \in Members
  <2>1. PICK k \in 1 .. N : order[k] = q
    <3>1. Holds(order, q) BY <1>3
    <3> QED BY <1>3, <3>1 DEF Holds
  <2>2. Holds(Acquired, <<"edge", q>>) BY <1>11, <2>1 DEF Holds
  <2> QED BY <1>15, <2>2
<1>17. Append(Program(Accept), TheEnd) = d
  <2> DEFINE S == Steps(Accept)
  <2>1. l \in Seq(S) /\ h \in Seq(S) /\ e \in Seq(S)
    BY <1>2, <1>3, <1>4, <1>7, ReadsFacts, SoundEnd DEF e
  <2>2. Program(Accept) = Cat(Cat(Acquired, Cat(h, h)), l)
    BY DEF Program, AcceptReads, AcceptReadsUnpinned, Assembly, from, Cat
  <2> HIDE DEF l, h, S
  <2>3. \A s, t, u \in Seq(S) : Cat(s, t) \in Seq(S) /\ Cat(Cat(s, t), u) = Cat(s, Cat(t, u))
    BY Associative
  <2>4. Acquired \in Seq(S) BY <1>12 DEF S
  <2>5. Cat(h, h) \in Seq(S) /\ Cat(l, e) \in Seq(S) BY <2>1, <2>3
  <2>6. Cat(Acquired, Cat(h, h)) \in Seq(S) BY <2>3, <2>4, <2>5
  <2>7. Cat(Program(Accept), e) = Cat(Cat(Acquired, Cat(h, h)), Cat(l, e)) BY <2>1, <2>2, <2>3, <2>6
  <2>8. Cat(Cat(Acquired, Cat(h, h)), Cat(l, e)) = Cat(Acquired, Cat(Cat(h, h), Cat(l, e)))
    BY <2>3, <2>4, <2>5
  <2>9. Cat(Cat(h, h), Cat(l, e)) = Cat(h, Cat(h, Cat(l, e))) BY <2>1, <2>3, <2>5
  <2>10. Append(Program(Accept), TheEnd) = Cat(Program(Accept), e)
    <3>1. Program(Accept) \in Seq(S) BY <2>1, <2>2, <2>3, <2>6
    <3>2. TheEnd \in S BY DEF S, Steps
    <3> QED BY <3>1, <3>2, AppendIsConcat DEF e, Cat
  <2> QED BY <2>7, <2>8, <2>9, <2>10 DEF d, c, b, a, Cat
<1> QED BY <1>2, <1>15, <1>16, <1>17 DEF AsksAll

LEMMA Elements ==
  ASSUME NEW S, NEW s \in Seq(S)
  PROVE  Len(s) \in Nat /\ \A i \in 1 .. Len(s) : s[i] \in S
OBVIOUS

LEMMA Widened ==
  ASSUME NEW S, NEW T, S \subseteq T, NEW s \in Seq(S)
  PROVE  s \in Seq(T)
<1>1. Len(s) \in Nat /\ \A i \in 1 .. Len(s) : s[i] \in T /\ s = [j \in 1 .. Len(s) |-> s[j]] OBVIOUS
<1> QED BY <1>1

LEMMA ReadsOf ==
  ASSUME NEW S, NEW op, NEW M, NEW from \in Seq(M), \A m \in M : <<op, m>> \in S
  PROVE  /\ Reads(op, from) \in Seq(S)
         /\ \A m : Holds(from, m) => Holds(Reads(op, from), <<op, m>>)
<1>1. Len(from) \in Nat /\ \A i \in 1 .. Len(from) : from[i] \in M BY Elements
<1>2. \A i \in 1 .. Len(from) : <<op, from[i]>> \in S BY <1>1
<1>3. /\ Reads(op, from) \in Seq(S) /\ Len(Reads(op, from)) = Len(from)
      /\ \A i \in 1 .. Len(from) : Reads(op, from)[i] = <<op, from[i]>>
  BY <1>1, <1>2 DEF Reads
<1> QED BY <1>1, <1>3 DEF Holds

\* The blocks of an envelope ask about every member of every architecture.
EachOf(op) ==
  FlattenSeq([a \in DOMAIN Architectures[N] |-> Assembly(op, Architectures[N][a])])

ReadsWith(op) == {<<op, m>> : m \in Members} \cup {<<"edge again", m>> : m \in Members}

LEMMA EachFacts ==
  ASSUME parents \in Requests, NEW op \in Operations
  PROVE  /\ EachOf(op) \in Seq(ReadsWith(op))
         /\ \A m \in Members : Holds(EachOf(op), <<op, m>>)
<1> DEFINE A == Architectures[N]
           S == ReadsWith(op)
           ss == [a \in DOMAIN A |-> Assembly(op, A[a])]
<1>1. /\ N \in Nat \ {0} /\ A \in Seq(Seq(Members))
      /\ \A m \in Members : \E a \in DOMAIN A : m \in ToSet(A[a])
  BY GraphAssumption DEF N, Members
<1> HIDE DEF A
<1>2. /\ Len(A) \in Nat /\ DOMAIN A = 1 .. Len(A)
      /\ \A a \in 1 .. Len(A) : A[a] \in Seq(Members)
  BY <1>1
<1>3. ASSUME NEW o \in {op, "edge again"}, NEW from \in Seq(Members)
      PROVE  /\ Reads(o, from) \in Seq(S)
             /\ \A m : Holds(from, m) => Holds(Reads(o, from), <<o, m>>)
  <2>1. \A m \in Members : <<o, m>> \in S BY DEF ReadsWith
  <2> HIDE DEF S
  <2> QED BY <2>1, ReadsOf
<1> HIDE DEF S
<1>4. ASSUME NEW a \in 1 .. Len(A)
      PROVE  /\ ss[a] \in Seq(S) /\ \A m : Holds(A[a], m) => Holds(ss[a], <<op, m>>)
  <2>1. A[a] \in Seq(Members) /\ ss[a] = Reads(op, A[a]) \o Reads("edge again", A[a])
    BY <1>2 DEF Assembly
  <2>2. Reads(op, A[a]) \in Seq(S) /\ Reads("edge again", A[a]) \in Seq(S) BY <1>3, <2>1
  <2>3. \A m : Holds(A[a], m) => Holds(Reads(op, A[a]), <<op, m>>) BY <1>3, <2>1
  <2> DEFINE y == Reads(op, A[a])
             z == Reads("edge again", A[a])
  <2> HIDE DEF ss, y, z
  <2>4. /\ y \o z \in Seq(S)
        /\ \A x : Holds(y \o z, x) <=> Holds(y, x) \/ Holds(z, x)
    <3>1. y \in Seq(S) /\ z \in Seq(S) BY <2>2 DEF y, z
    <3> QED BY <3>1, ConcatHolds
  <2>5. ss[a] = y \o z BY <2>1 DEF y, z
  <2>6. \A m : Holds(A[a], m) => Holds(y, <<op, m>>) BY <2>3 DEF y
  <2> QED BY <2>4, <2>5, <2>6
<1>5. ss \in Seq(Seq(S)) /\ Len(ss) = Len(A)
  <2>1. ss = [a \in 1 .. Len(A) |-> ss[a]] BY <1>2
  <2> HIDE DEF ss
  <2> QED BY <1>2, <1>4, <2>1
<1>6. \A m \in Members : \E a \in 1 .. Len(A) : Holds(A[a], m)
  <2> TAKE m \in Members
  <2>1. PICK a \in 1 .. Len(A) : m \in ToSet(A[a]) BY <1>1, <1>2
  <2>2. A[a] \in Seq(Members) BY <1>2
  <2>3. Holds(A[a], m) BY <2>1, <2>2 DEF ToSet, Holds
  <2> QED BY <2>3
<1>7. Len(ss) # 0
  <2>1. 1 \in Members BY <1>1 DEF Members
  <2> QED BY <1>2, <1>5, <1>6, <2>1
<1>8. EachOf(op) = FlattenSeq(ss) BY DEF EachOf, A
<1> HIDE DEF ss
<1>9. /\ FlattenSeq(ss) \in Seq(S)
      /\ \A x : Holds(FlattenSeq(ss), x) <=> \E a \in 1 .. Len(ss) : Holds(ss[a], x)
  BY <1>5, <1>7, FlattenFacts
<1>10. \A m \in Members : Holds(FlattenSeq(ss), <<op, m>>) BY <1>4, <1>5, <1>6, <1>9
<1> QED BY <1>8, <1>9, <1>10 DEF S

LEMMA EnvelopeProgram ==
  ASSUME parents \in Requests
  PROVE  AsksAll(Envelope, Append(Program(Envelope), TheEnd))
<1>1. Envelope # Accept /\ Asks(Envelope) = Members
  BY RequestFacts DEF Accept, Envelope, Asks
<1> DEFINE S == Steps(Envelope)
           e == <<TheEnd>>
           u == EachOf("edge")
           v == EachOf("edge again")
           a == v \o e
           b == u \o a
<1>2. Sound(Envelope, e) /\ e \in Seq(S) BY SoundEnd
<1> HIDE DEF e
<1>3. /\ u \in Seq(ReadsWith("edge")) /\ v \in Seq(ReadsWith("edge again"))
      /\ \A m \in Members : Holds(u, <<"edge", m>>) /\ Holds(v, <<"edge again", m>>)
  <2>1. "edge" \in Operations /\ "edge again" \in Operations BY DEF Operations
  <2> QED BY <2>1, EachFacts
<1>4. u \in Seq(S) /\ v \in Seq(S)
  <2>1. ReadsWith("edge") \subseteq S /\ ReadsWith("edge again") \subseteq S
    <3>1. \A op \in {"edge", "edge again"}, m \in Members : <<op, m>> \in S
      BY <1>1 DEF Steps, Operations
    <3> HIDE DEF S
    <3> QED BY <3>1 DEF ReadsWith
  <2> HIDE DEF S, u, v
  <2> QED BY <1>3, <2>1, Widened
<1> HIDE DEF u, v
<1>5. \A m : Owed(Envelope, <<"edge again", m>>) = {} BY DEF Owed
<1>6. \A m : Owed(Envelope, <<"edge", m>>) = {<<"edge again", q>> : q \in Members}
  BY <1>1 DEF Owed
<1>7. Sound(Envelope, a) /\ \A x : Holds(a, x) <=> Holds(v, x) \/ Holds(e, x)
  <2>1. \A i \in 1 .. Len(v) : \A x \in Owed(Envelope, v[i]) : After(v, i, x) \/ Holds(e, x)
    <3>1. \A i \in 1 .. Len(v) : \E m \in Members : v[i] = <<"edge again", m>>
      <4>1. \A i \in 1 .. Len(v) : v[i] \in ReadsWith("edge again") BY <1>3, Elements
      <4> QED BY <4>1 DEF ReadsWith
    <3> QED BY <1>5, <3>1
  <2> QED BY <1>2, <1>4, <2>1, SoundBefore
<1> HIDE DEF a
<1>8. Sound(Envelope, b) /\ \A x : Holds(b, x) <=> Holds(u, x) \/ Holds(a, x)
  <2>1. \A i \in 1 .. Len(u) : \A x \in Owed(Envelope, u[i]) : After(u, i, x) \/ Holds(a, x)
    <3>1. \A i \in 1 .. Len(u) : \E m \in Members :
            u[i] = <<"edge", m>> \/ u[i] = <<"edge again", m>>
      <4>1. \A i \in 1 .. Len(u) : u[i] \in ReadsWith("edge") BY <1>3, Elements
      <4> QED BY <4>1 DEF ReadsWith
    <3> TAKE i \in 1 .. Len(u)
    <3> TAKE x \in Owed(Envelope, u[i])
    <3>2. \E q \in Members : x = <<"edge again", q>> BY <1>5, <1>6, <3>1
    <3> QED BY <1>3, <1>7, <3>2
  <2> QED BY <1>4, <1>7, <2>1, SoundBefore
<1>9. Append(Program(Envelope), TheEnd) = b
  <2>1. Program(Envelope) = Cat(u, v) BY <1>1 DEF Program, EnvelopeReads, EachOf, u, v, Cat
  <2>2. TheEnd \in S BY DEF Steps
  <2> HIDE DEF S
  <2>3. Cat(u, v) \in Seq(S) /\ Cat(Cat(u, v), e) = Cat(u, Cat(v, e))
    BY <1>2, <1>4, Associative
  <2>4. Append(Program(Envelope), TheEnd) = Cat(Cat(u, v), e)
    BY <2>1, <2>2, <2>3, AppendIsConcat DEF e, Cat
  <2> QED BY <2>3, <2>4 DEF b, a, Cat
<1> QED BY <1>1, <1>3, <1>8, <1>9 DEF AsksAll

\* What a reader relies on, of the member q that it asks about.  The job it noted is
\* of a child that is there, and while the child has that job it was not changed.
Noted(p, q) ==
  LET r == lineage[p][q].route
      e == edges[p][q]
  IN  /\ r \in 1 .. Len(child[q])
      /\ e.job <= child[q][r].job
      /\ e.job = child[q][r].job =>
           child[q][r].state \in {"success", "erased"} /\ child[q][r].input = e.base

Matches(p, q) ==
  LET r == lineage[p][q].route
      e == edges[p][q]
  IN  child[q][r].job = e.job /\ child[q][r].state = "success"

Current(p, q) == p = Envelope \/ Route(q) = lineage[p][q].route
Kept(p, q) == moment[p][q] = [job |-> edges[p][q].job, base |-> edges[p][q].base]

Left(p, op, q) == Holds(reads[p], <<op, q>>)
Collected(p) == \A i \in 1 .. Len(reads[p]) : reads[p][i][1] # "edge"

ReaderMeans(p, q) ==
  /\ ~ Left(p, "edge", q) => Noted(p, q)
  /\ Collected(p) => 
       /\ Matches(p, q) /\ Current(p, q) => Kept(p, q)
       /\ ~ Left(p, "edge again", q) =>
            /\ Current(p, q) => Kept(p, q)
            /\ p # Envelope /\ ~ Left(p, "lineage again", q) => Kept(p, q)

ReaderInv(p) ==
  Reading(p) => Sound(p, reads[p]) /\ \A q \in Asks(p) : ReaderMeans(p, q)

\* A member is acquired after its parents.
BasesAreParents ==
  Reading(Accept) =>
    \A m \in Members : ~ Left(Accept, "edge", m) =>
      \A q \in parents[m] : edges[Accept][m].base[q] = edges[Accept][q].job

PublishedOK(m) ==
  /\ freezer[m].state \in {"success", "erased"} =>
       \A q \in parents[m] : freezer[m].base[q] = moment[m][q].job
  /\ Reading(m) => freezer[m].state = "running"

AcceptedOK(p) ==
  /\ receipt[p] \in {Blank(NoResult), moment[p]}
  /\ Reading(p) => receipt[p] = Blank(NoResult)

BasesAccepted ==
  receipt[Accept] # Blank(NoResult) =>
    \A m \in Members : \A q \in parents[m] :
      receipt[Accept][m].base[q] = receipt[Accept][q].job

OrderInv == order = <<>> \/ (InOrder(parents, order) /\ Len(order) = N)

Freezers ==
  [id : Ids, base : Inputs, state : {"waiting", "running", "success", "failed", "erased"}]
Kids == [input : Inputs, job : Ids, state : {"running", "success", "failed", "erased"}]
Lineages == [Members -> [freezer : Ids, route : Ids]]
EdgeNotes == [Members -> [job : Ids, freezer : Ids, base : Inputs]]
Results == [Members -> [job : Ids, base : Inputs]]
AnyRead == (Operations \X Members) \cup {TheEnd}

NotesOK ==
  /\ reads \in [Readers -> Seq(AnyRead)] /\ lineage \in [Readers -> Lineages]
  /\ edges \in [Readers -> EdgeNotes] /\ moment \in [Readers -> Results]

\* Nothing is counted beyond the retries.
CountOK(m) ==
  /\ Len(child[m]) <= made[m]
  /\ \A r \in 1 .. Len(child[m]) : child[m][r].job <= made[m]
  /\ made[m] <= retries + (IF child[m] = <<>> THEN 0 ELSE 1)
  /\ freezer[m].id <= retries + (IF freezer[m].state = "waiting" THEN 0 ELSE 1)

GitLabOK ==
  /\ freezer \in [Members -> Freezers] /\ child \in [Members -> Seq(Kids)]
  /\ made \in [Members -> Ids] /\ retries \in 0 .. MaxRetries[N]
  /\ \A m \in Members : CountOK(m)

Shape ==
  /\ parents \in Requests /\ Len(order) \in {0, N} /\ OrderInv
  /\ GitLabOK /\ NotesOK /\ receipt \in [Readers -> Results]

GraphInv ==
  /\ Shape /\ \A p \in Readers : ReaderInv(p)
  /\ \A m \in Members : PublishedOK(m)
  /\ AcceptedOK(Accept) /\ AcceptedOK(Envelope) /\ BasesAreParents /\ BasesAccepted

LEMMA ShapeFacts ==
  ASSUME parents \in Requests
  PROVE  /\ N \in Nat \ {0} /\ parents \in [Members -> SUBSET Members] /\ MaxRetries[N] \in Nat
         /\ Members \subseteq Readers /\ Accept \in Readers /\ Envelope \in Readers
         /\ Accept \notin Members /\ Envelope \notin Members /\ Accept # Envelope
         /\ \A p \in Readers : p \in Members \/ p = Accept \/ p = Envelope
         /\ \A p \in Readers : Asks(p) \subseteq Members /\ Steps(p) \subseteq AnyRead
         /\ Members \subseteq Nat /\ Ids \subseteq Nat /\ 0 \in Ids /\ Ids = 0 .. MaxRetries[N] + 1
         /\ NoInput \in Inputs
         /\ Blank(NoLineage) \in Lineages /\ Blank(NoEdge) \in EdgeNotes
         /\ Blank(NoResult) \in Results
<1>1. N \in Nat \ {0} /\ parents \in [Members -> SUBSET Members] /\ MaxRetries[N] \in Nat
  BY RequestFacts
<1>2. /\ Members \subseteq Readers /\ Accept \in Readers /\ Envelope \in Readers
      /\ Accept \notin Members /\ Envelope \notin Members /\ Accept # Envelope
      /\ \A p \in Readers : p \in Members \/ p = Accept \/ p = Envelope
      /\ Members \subseteq Nat
  BY <1>1 DEF Members, Readers, Accept, Envelope
<1>3. Ids \subseteq Nat /\ 0 \in Ids /\ Ids = 0 .. MaxRetries[N] + 1 BY <1>1 DEF Ids
<1>4. \A p \in Readers : Asks(p) \subseteq Members BY <1>1, <1>2 DEF Asks
<1>5. \A p \in Readers : Steps(p) \subseteq AnyRead BY <1>4 DEF Steps, AnyRead
<1>6. NoInput \in Inputs BY <1>3 DEF NoInput, Inputs
<1>7. Blank(NoLineage) \in Lineages BY <1>3 DEF NoLineage, Lineages, Blank
<1>8. Blank(NoEdge) \in EdgeNotes BY <1>3, <1>6 DEF NoEdge, EdgeNotes, Blank
<1>9. Blank(NoResult) \in Results BY <1>3, <1>6 DEF NoResult, Results, Blank
<1> QED BY <1>1, <1>2, <1>3, <1>4, <1>5, <1>6, <1>7, <1>8, <1>9

\* What does not change while the request does not.
LEMMA Fixed ==
  ASSUME parents' = parents
  PROVE  /\ N' = N /\ Members' = Members /\ Readers' = Readers /\ Envelope' = Envelope
         /\ Ids' = Ids /\ Inputs' = Inputs /\ Freezers' = Freezers /\ Kids' = Kids
         /\ Lineages' = Lineages /\ EdgeNotes' = EdgeNotes /\ Results' = Results
         /\ AnyRead' = AnyRead /\ Blank(NoResult)' = Blank(NoResult)
         /\ \A p : Asks(p)' = Asks(p) /\ Steps(p)' = Steps(p)
         /\ \A p, x : Owed(p, x)' = Owed(p, x)
<1>1. N' = N BY DEF N
<1>2. Members' = Members /\ Readers' = Readers /\ Envelope' = Envelope /\ Ids' = Ids
  BY <1>1 DEF Members, Readers, Envelope, Ids
<1>3. Inputs' = Inputs BY <1>2 DEF Inputs
<1>4. /\ Freezers' = Freezers /\ Kids' = Kids /\ Lineages' = Lineages
      /\ EdgeNotes' = EdgeNotes /\ Results' = Results /\ AnyRead' = AnyRead
  BY <1>2, <1>3 DEF Freezers, Kids, Lineages, EdgeNotes, Results, AnyRead
<1>5. Blank(NoResult)' = Blank(NoResult) BY <1>2 DEF Blank, NoResult, NoInput
<1>6. \A p : Asks(p)' = Asks(p) BY <1>2 DEF Asks
<1>7. \A p : Steps(p)' = Steps(p) BY <1>6 DEF Steps
<1>8. \A p, x : Owed(p, x)' = Owed(p, x) BY <1>2, <1>6 DEF Owed
<1> QED BY <1>1, <1>2, <1>3, <1>4, <1>5, <1>6, <1>7, <1>8

LEMMA SoundStays ==
  ASSUME parents' = parents, NEW p, Sound(p, reads'[p])
  PROVE  Sound(p, reads[p])'
<1>1. Steps(p)' = Steps(p) /\ \A x : Owed(p, x)' = Owed(p, x) BY Fixed
<1> QED BY <1>1 DEF Sound, After

NotesStay(p) ==
  /\ reads'[p] = reads[p] /\ lineage'[p] = lineage[p]
  /\ edges'[p] = edges[p] /\ moment'[p] = moment[p]

\* What may become of a route child: a later job, or the same one, finished or erased.
Older(c, d) ==
  /\ d.job \in Nat /\ c.input = d.input /\ c.job <= d.job
  /\ c.job = d.job /\ c.state \in {"success", "erased"} =>
       /\ d.state \in {"success", "erased"}
       /\ d.state = "success" => c.state = "success"

Grows ==
  \A q \in Members :
    /\ Len(child'[q]) \in Nat /\ Len(child[q]) <= Len(child'[q])
    /\ \A r \in 1 .. Len(child[q]) : Older(child[q][r], child'[q][r])

LEMMA ChildFacts ==
  ASSUME Shape, NEW q \in Members
  PROVE  /\ Len(child[q]) \in Nat /\ DOMAIN child[q] = 1 .. Len(child[q]) /\ Route(q) = Len(child[q])
         /\ child[q] \in Seq(Kids)
         /\ \A r \in 1 .. Len(child[q]) :
              child[q][r] \in Kids /\ child[q][r].job \in Nat /\ child[q][r].job \in Ids
<1>1. child[q] \in Seq(Kids) BY DEF Shape, GitLabOK
<1>2. Len(child[q]) \in Nat /\ DOMAIN child[q] = 1 .. Len(child[q])
      /\ \A r \in 1 .. Len(child[q]) : child[q][r] \in Kids
  BY <1>1
<1>3. \A k \in Kids : k.job \in Nat /\ k.job \in Ids
  <2>1. parents \in Requests BY DEF Shape
  <2> QED BY <2>1, ShapeFacts DEF Kids
<1> QED BY <1>1, <1>2, <1>3 DEF Route

LEMMA NoteFacts ==
  ASSUME Shape, NEW p \in Readers, NEW q \in Members
  PROVE  /\ lineage[p][q].route \in Nat /\ lineage[p][q] \in [freezer : Ids, route : Ids]
         /\ edges[p][q].job \in Nat /\ edges[p][q].job \in Ids /\ edges[p][q].base \in Inputs
         /\ edges[p][q] \in [job : Ids, freezer : Ids, base : Inputs]
         /\ moment[p][q] \in [job : Ids, base : Inputs]
<1>1. parents \in Requests /\ NotesOK BY DEF Shape
<1>2. lineage[p] \in Lineages /\ edges[p] \in EdgeNotes /\ moment[p] \in Results
  BY <1>1 DEF NotesOK
<1>3. /\ lineage[p][q] \in [freezer : Ids, route : Ids]
      /\ edges[p][q] \in [job : Ids, freezer : Ids, base : Inputs]
      /\ moment[p][q] \in [job : Ids, base : Inputs]
  BY <1>2 DEF Lineages, EdgeNotes, Results
<1> QED BY <1>1, <1>3, ShapeFacts

LEMMA CollectedAll ==
  ASSUME NEW p, NEW q, Collected(p) PROVE ~ Left(p, "edge", q)
<1> SUFFICES ASSUME Left(p, "edge", q) PROVE FALSE OBVIOUS
<1>1. PICK i \in 1 .. Len(reads[p]) : reads[p][i] = <<"edge", q>> BY DEF Left, Holds
<1>2. reads[p][i][1] = "edge" BY <1>1
<1> QED BY <1>1, <1>2 DEF Collected

LEMMA ReaderStays ==
  ASSUME Shape, parents' = parents, NEW p \in Readers, NotesStay(p), Grows, ReaderInv(p)
  PROVE  ReaderInv(p)'
<1> SUFFICES ASSUME Reading(p) PROVE Sound(p, reads[p])' /\ \A q \in Asks(p)' : ReaderMeans(p, q)'
  BY DEF ReaderInv, Reading, NotesStay
<1>1. Sound(p, reads[p]) /\ \A q \in Asks(p) : ReaderMeans(p, q) BY DEF ReaderInv
<1>2. Sound(p, reads[p])' BY <1>1, SoundStays DEF NotesStay
<1>3. /\ Asks(p)' = Asks(p) /\ Envelope' = Envelope /\ Asks(p) \subseteq Members
  BY Fixed, ShapeFacts DEF Shape
<1>4. ASSUME NEW q \in Asks(p) PROVE ReaderMeans(p, q)'
  <2> DEFINE r == lineage[p][q].route
             e == edges[p][q]
             c == child[q][r]
             d == child'[q][r]
  <2>1. q \in Members BY <1>3
  <2>2. ReaderMeans(p, q) BY <1>1
  <2>3. /\ r \in Nat /\ e.job \in Nat /\ Len(child[q]) \in Nat
        /\ r \in 1 .. Len(child[q]) => c.job \in Nat
    BY <2>1, ChildFacts, NoteFacts
  <2>4. /\ Len(child'[q]) \in Nat /\ Len(child[q]) <= Len(child'[q])
        /\ r \in 1 .. Len(child[q]) => Older(c, d)
    BY <2>1 DEF Grows
  <2>6. /\ Left(p, "edge", q)' <=> Left(p, "edge", q)
        /\ Left(p, "edge again", q)' <=> Left(p, "edge again", q)
        /\ Left(p, "lineage again", q)' <=> Left(p, "lineage again", q)
        /\ Collected(p)' <=> Collected(p) /\ (Kept(p, q)' <=> Kept(p, q))
    BY DEF Left, Holds, Collected, Kept, NotesStay
  <2>7. Collected(p) => ~ Left(p, "edge", q) BY CollectedAll
  <2>8. lineage'[p][q].route = r /\ edges'[p][q] = e BY DEF NotesStay
  <2>9. Noted(p, q) <=> /\ r \in 1 .. Len(child[q]) /\ e.job <= c.job
                        /\ e.job = c.job => c.state \in {"success", "erased"} /\ c.input = e.base
    BY DEF Noted
  <2>10. Noted(p, q)' <=> /\ r \in 1 .. Len(child'[q]) /\ e.job <= d.job
                          /\ e.job = d.job => d.state \in {"success", "erased"} /\ d.input = e.base
    BY <2>8 DEF Noted
  <2>11. Matches(p, q) <=> c.job = e.job /\ c.state = "success" BY DEF Matches
  <2>12. Matches(p, q)' <=> d.job = e.job /\ d.state = "success" BY <2>8 DEF Matches
  <2>13. /\ Current(p, q) <=> p = Envelope \/ Len(child[q]) = r
         /\ Current(p, q)' <=> p = Envelope \/ Len(child'[q]) = r
    BY <1>3, <2>8 DEF Current, Route
  <2> HIDE DEF r, e, c, d
  <2>14. Noted(p, q) => Noted(p, q)' BY <2>3, <2>4, <2>9, <2>10 DEF Older
  <2>15. Noted(p, q) /\ Current(p, q)' => Current(p, q) BY <2>3, <2>4, <2>9, <2>13
  <2>16. Noted(p, q) /\ Matches(p, q)' => Matches(p, q)
    BY <2>3, <2>4, <2>9, <2>11, <2>12 DEF Older
  <2> QED BY <1>3, <2>2, <2>6, <2>7, <2>14, <2>15, <2>16 DEF ReaderMeans
<1> QED BY <1>2, <1>3, <1>4

LEMMA ReaderBegins ==
  ASSUME Shape, parents' = parents, NEW p \in Readers, AsksAll(p, reads'[p])
  PROVE  ReaderInv(p)'
<1>1. Sound(p, reads[p])' BY SoundStays DEF AsksAll
<1>2. Asks(p)' = Asks(p) BY Fixed
<1>3. ASSUME NEW q \in Asks(p) PROVE ReaderMeans(p, q)'
  <2>1. PICK i \in 1 .. Len(reads'[p]) : reads'[p][i] = <<"edge", q>> BY DEF AsksAll, Holds
  <2>2. Left(p, "edge", q)' BY <2>1 DEF Left, Holds
  <2>3. ~ Collected(p)'
    <3>1. reads'[p][i][1] = "edge" BY <2>1
    <3> QED BY <2>1, <3>1 DEF Collected
  <2> QED BY <2>2, <2>3 DEF ReaderMeans
<1> QED BY <1>1, <1>2, <1>3 DEF ReaderInv

\* The next read of a reader, and what is left after it.
LEMMA NextRead ==
  ASSUME Shape, NEW p \in Readers, ReaderInv(p), Read(p)
  PROVE  \E op \in Operations, m \in Asks(p) :
           /\ m \in Members
           /\ Note(p, op, m, Collected(p)')
           /\ Sound(p, reads'[p])
           /\ \A x \in Owed(p, <<op, m>>) : Holds(reads'[p], x)
           /\ \A o, q : Left(p, o, q) <=> (o = op /\ q = m) \/ Left(p, o, q)'
           /\ Collected(p) <=> op # "edge" /\ Collected(p)'
           /\ reads'[p] \in Seq(AnyRead)
<1>1. Reading(p) /\ Sound(p, reads[p]) /\ reads[p] # <<>> BY DEF Read, ReaderInv, Reading
<1> DEFINE rs == reads[p]
           t == Tail(rs)
           last == \A i \in 2 .. Len(rs) : rs[i][1] # "edge"
<1>2. reads'[p] = t
  <2>1. reads \in [Readers -> Seq(AnyRead)] BY DEF Shape, NotesOK
  <2> QED BY <2>1 DEF Read
<1>3. Note(p, Head(rs)[1], Head(rs)[2], last) BY DEF Read
<1> HIDE DEF rs, t
<1>4. /\ Head(rs) \in Steps(p) /\ Sound(p, t) /\ Len(rs) \in Nat \ {0}
      /\ \A x : Holds(rs, x) <=> x = Head(rs) \/ Holds(t, x)
      /\ \A x \in Owed(p, Head(rs)) : Holds(t, x)
      /\ \A i \in 1 .. Len(t) : t[i] = rs[i + 1] /\ i + 1 \in 2 .. Len(rs)
      /\ \A i \in 2 .. Len(rs) : rs[i] = t[i - 1] /\ i - 1 \in 1 .. Len(t)
      /\ Head(rs) = rs[1]
  BY <1>1, SoundTail DEF rs, t
<1>5. Head(rs) # TheEnd
  <2>1. Head(rs)[1] # "end" BY <1>3 DEF Note
  <2> QED BY <2>1 DEF TheEnd
<1>6. PICK op \in Operations, m \in Asks(p) : Head(rs) = <<op, m>>
  <2>1. Head(rs) \in Operations \X Asks(p) BY <1>4, <1>5 DEF Steps
  <2> QED BY <2>1
<1>7. last <=> Collected(p)'
  <2>1. Collected(p)' <=> \A i \in 1 .. Len(t) : t[i][1] # "edge" BY <1>2 DEF Collected
  <2> QED BY <1>4, <2>1
<1>8. Collected(p) <=> op # "edge" /\ Collected(p)'
  <2>1. Collected(p) <=> \A i \in 1 .. Len(rs) : rs[i][1] # "edge" BY DEF Collected, rs
  <2>2. \A i : i \in 1 .. Len(rs) <=> i = 1 \/ i \in 2 .. Len(rs) BY <1>4
  <2>3. rs[1][1] = op BY <1>4, <1>6
  <2> QED BY <1>7, <2>1, <2>2, <2>3
<1>9. \A o, q : Left(p, o, q) <=> (o = op /\ q = m) \/ Left(p, o, q)'
  <2> TAKE o, q
  <2>1. Left(p, o, q) <=> Holds(rs, <<o, q>>) BY DEF Left, rs
  <2>2. Left(p, o, q)' <=> Holds(t, <<o, q>>) BY <1>2 DEF Left, Holds
  <2>3. <<o, q>> = Head(rs) <=> o = op /\ q = m BY <1>6
  <2> QED BY <1>4, <2>1, <2>2, <2>3
<1>10. Note(p, op, m, Collected(p)')
  <2>1. Head(rs)[1] = op /\ Head(rs)[2] = m BY <1>6
  <2>2. Note(p, op, m, last) BY <1>3, <2>1
  <2>3. last = Collected(p)' BY <1>7 DEF Collected
  <2> QED BY <2>2, <2>3
<1>11. m \in Members /\ Steps(p) \subseteq AnyRead BY ShapeFacts DEF Shape
<1>12. t \in Seq(AnyRead) BY <1>4, <1>11, Widened DEF Sound
<1> QED BY <1>2, <1>4, <1>6, <1>8, <1>9, <1>10, <1>11, <1>12

\* What a read notes, and what it found.
NoteMeans(p, op, m, last) ==
  /\ lineage' = [lineage EXCEPT ![p][m] = IF op = "lineage" THEN Lineage(m) ELSE @]
  /\ edges' = [edges EXCEPT ![p][m] = IF op = "edge" THEN Edge(m, lineage[p][m].route) ELSE @]
  /\ moment' = IF op = "edge" /\ last
               THEN [moment EXCEPT ![p] =
                       [x \in Members |->
                          Result(x, IF p = Envelope THEN lineage[p][x].route ELSE Route(x))]]
               ELSE moment
  /\ op = "lineage again" => lineage[p][m] = Lineage(m)
  /\ op \in {"edge", "edge again"} => EdgeRead(m, lineage[p][m].route)
  /\ op = "edge again" => edges[p][m] = Edge(m, lineage[p][m].route)
  /\ op = "edge" => FromParents(p, m)

LEMMA ReadEffect ==
  ASSUME Shape, NEW p \in Readers, NEW op \in Operations, NEW m \in Members, NEW last,
         Note(p, op, m, last)
  PROVE  NoteMeans(p, op, m, last)
<1>1. /\ lineage \in [Readers -> Lineages] /\ edges \in [Readers -> EdgeNotes]
  BY DEF Shape, NotesOK
<1>2. lineage = [lineage EXCEPT ![p][m] = @] BY <1>1 DEF Lineages
<1>3. edges = [edges EXCEPT ![p][m] = @] BY <1>1 DEF EdgeNotes
<1>4. CASE op = "lineage" BY <1>3, <1>4 DEF Note, NoteMeans
<1>5. CASE op = "lineage again" BY <1>2, <1>3, <1>5 DEF Note, NoteMeans
<1>6. CASE op = "edge" BY <1>2, <1>6 DEF Note, NoteMeans
<1>7. CASE op = "edge again" BY <1>2, <1>3, <1>7 DEF Note, NoteMeans
<1> QED BY <1>4, <1>5, <1>6, <1>7 DEF Operations

\* An edge that can be read is of a job that succeeded, built from what was frozen.
LEMMA EdgeFacts ==
  ASSUME Shape, NEW m \in Members, NEW r \in Nat, EdgeRead(m, r)
  PROVE  /\ r \in 1 .. Len(child[m]) /\ child[m][r].state = "success"
         /\ child[m][r].input = Edge(m, r).base /\ child[m][r].job = Edge(m, r).job
         /\ Edge(m, r) \in [job : Ids, freezer : Ids, base : Inputs]
         /\ Result(m, r) = [job |-> Edge(m, r).job, base |-> Edge(m, r).base]
<1>1. ResultRead(m, r) /\ BuiltFrom(m, r) BY DEF EdgeRead
<1>2. /\ r \in 1 .. Len(child[m]) /\ child[m][r].state = "success"
      /\ child[m][r].input = freezer[m].base /\ child[m][r] \in Kids
  BY <1>1, ChildFacts DEF ResultRead, BuiltFrom
<1>3. freezer[m] \in Freezers BY DEF Shape, GitLabOK
<1>4. Edge(m, r) \in [job : Ids, freezer : Ids, base : Inputs]
  BY <1>2, <1>3 DEF Edge, Kids, Freezers
<1> QED BY <1>1, <1>2, <1>4 DEF Edge, Result

LEMMA ReaderReads ==
  ASSUME Shape, NEW p \in Readers, ReaderInv(p), Read(p)
  PROVE  ReaderInv(p)'
<1>0. parents' = parents /\ child' = child /\ freezer' = freezer BY DEF Read, graph, gitlab
<1>1. PICK op \in Operations, m \in Asks(p) :
           /\ m \in Members
           /\ Note(p, op, m, Collected(p)')
           /\ Sound(p, reads'[p])
           /\ \A x \in Owed(p, <<op, m>>) : Holds(reads'[p], x)
           /\ \A o, q : Left(p, o, q) <=> (o = op /\ q = m) \/ Left(p, o, q)'
           /\ Collected(p) <=> op # "edge" /\ Collected(p)'
  BY NextRead
<1>2. \A q \in Asks(p) : ReaderMeans(p, q) BY DEF ReaderInv, Read
<1>3. Sound(p, reads[p])' BY <1>0, <1>1, SoundStays
<1>4. /\ Asks(p)' = Asks(p) /\ Envelope' = Envelope /\ Members' = Members
      /\ Asks(p) \subseteq Members
  BY <1>0, Fixed, ShapeFacts DEF Shape
<1> DEFINE last == Collected(p)'
           route == lineage[p][m].route
           known(x) == IF p = Envelope THEN lineage[p][x].route ELSE Route(x)
<1>5. /\ lineage' = [lineage EXCEPT ![p][m] = IF op = "lineage" THEN Lineage(m) ELSE @]
      /\ edges' = [edges EXCEPT ![p][m] = IF op = "edge" THEN Edge(m, route) ELSE @]
      /\ moment' = IF op = "edge" /\ last
                      THEN [moment EXCEPT ![p] = [x \in Members |-> Result(x, known(x))]]
                      ELSE moment
      /\ op = "lineage again" => lineage[p][m] = Lineage(m)
      /\ op \in {"edge", "edge again"} => EdgeRead(m, route)
      /\ op = "edge again" => edges[p][m] = Edge(m, route)
  <2> HIDE DEF last
  <2>1. m \in Members /\ Note(p, op, m, last) BY <1>1 DEF last
  <2>2. NoteMeans(p, op, m, last) BY <2>1, ReadEffect
  <2> QED BY <2>2 DEF NoteMeans, route, known
<1>6. /\ lineage \in [Readers -> Lineages] /\ edges \in [Readers -> EdgeNotes]
      /\ moment \in [Readers -> Results]
  BY DEF Shape, NotesOK
<1>7. \A q \in Members :
        /\ lineage'[p][q] = IF op = "lineage" /\ q = m THEN Lineage(m) ELSE lineage[p][q]
        /\ edges'[p][q] = IF op = "edge" /\ q = m THEN Edge(m, route) ELSE edges[p][q]
        /\ moment'[p][q] = IF op = "edge" /\ last THEN Result(q, known(q)) ELSE moment[p][q]
  BY <1>1, <1>5, <1>6 DEF Lineages, EdgeNotes
<1>8. route \in Nat BY <1>1, NoteFacts
<1> HIDE DEF last, route, known
<1>9. ASSUME NEW q \in Asks(p) PROVE ReaderMeans(p, q)'
  <2>1. q \in Members /\ ReaderMeans(p, q) BY <1>2, <1>4
  <2>2. CASE op = "lineage"
    <3>1. Left(p, "edge", m)'
      <4>1. Holds(reads'[p], <<"edge", m>>) BY <1>1, <2>2 DEF Owed
      <4> QED BY <4>1 DEF Left, Holds
    <3>2. ~ Collected(p)'
      <4>1. PICK i \in 1 .. Len(reads'[p]) : reads'[p][i] = <<"edge", m>> BY <3>1 DEF Left, Holds
      <4>2. reads'[p][i][1] = "edge" BY <4>1
      <4> QED BY <4>1, <4>2 DEF Collected
    <3>3. CASE q = m BY <3>1, <3>2, <3>3 DEF ReaderMeans
    <3>4. CASE q # m
      <4>1. Noted(p, q)' <=> Noted(p, q) BY <1>0, <1>7, <2>1, <2>2, <3>4 DEF Noted
      <4>2. Left(p, "edge", q)' <=> Left(p, "edge", q) BY <1>1, <2>2
      <4> QED BY <2>1, <3>2, <4>1, <4>2 DEF ReaderMeans
    <3> QED BY <3>3, <3>4
  <2>3. CASE op \in {"lineage again", "edge again"}
    <3>1. /\ lineage'[p][q] = lineage[p][q] /\ edges'[p][q] = edges[p][q]
          /\ moment'[p][q] = moment[p][q]
      BY <1>7, <2>1, <2>3
    <3>2. /\ Noted(p, q)' <=> Noted(p, q)
          /\ Matches(p, q)' <=> Matches(p, q)
          /\ Kept(p, q)' <=> Kept(p, q)
          /\ Current(p, q)' <=> Current(p, q)
      BY <1>0, <1>4, <3>1 DEF Noted, Matches, Kept, Current, Route
    <3>3. /\ Left(p, "edge", q)' <=> Left(p, "edge", q)
          /\ Collected(p)' <=> Collected(p)
      BY <1>1, <2>3
    <3>4. CASE op = "lineage again"
      <4>1. Left(p, "edge again", q)' <=> Left(p, "edge again", q) BY <1>1, <3>4
      <4>2. q # m => (Left(p, "lineage again", q)' <=> Left(p, "lineage again", q)) BY <1>1, <3>4
      <4>3. q = m => Current(p, q)
        <5>1. lineage[p][m] = Lineage(m) BY <1>5, <3>4
        <5>2. lineage[p][m].route = Route(m) BY <5>1 DEF Lineage
        <5> QED BY <5>2 DEF Current
      <4> QED BY <1>4, <2>1, <3>2, <3>3, <4>1, <4>2, <4>3 DEF ReaderMeans
    <3>5. CASE op = "edge again"
      <4>1. Left(p, "lineage again", q)' <=> Left(p, "lineage again", q) BY <1>1, <3>5
      <4>2. q # m => (Left(p, "edge again", q)' <=> Left(p, "edge again", q)) BY <1>1, <3>5
      <4>3. q = m => Matches(p, q)
        <5> HAVE q = m
        <5>1. EdgeRead(m, route) /\ edges[p][m] = Edge(m, route) BY <1>5, <3>5
        <5>2. child[m][route].state = "success" /\ child[m][route].job = Edge(m, route).job
          BY <1>1, <1>8, <5>1, EdgeFacts
        <5> QED BY <5>1, <5>2 DEF Matches, route
      <4>4. p # Envelope => Left(p, "lineage again", q)'
        <5> HAVE p # Envelope
        <5>1. <<"lineage again", q>> \in Owed(p, <<"edge again", m>>) BY DEF Owed
        <5>2. Holds(reads'[p], <<"lineage again", q>>) BY <1>1, <3>5, <5>1
        <5> QED BY <5>2 DEF Left, Holds
      <4> QED BY <1>4, <2>1, <3>2, <3>3, <4>1, <4>2, <4>3, <4>4 DEF ReaderMeans
    <3> QED BY <2>3, <3>4, <3>5
  <2>4. CASE op = "edge"
    <3>1. Left(p, "edge again", q)'
      <4>1. <<"edge again", q>> \in Owed(p, <<"edge", m>>) BY DEF Owed
      <4>2. Holds(reads'[p], <<"edge again", q>>) BY <1>1, <2>4, <4>1
      <4> QED BY <4>2 DEF Left, Holds
    <3>2. lineage'[p][q] = lineage[p][q] BY <1>7, <2>1, <2>4
    <3>3. EdgeRead(m, route) BY <1>5, <2>4
    <3>4. ~ Left(p, "edge", q)' => Noted(p, q)'
      <4>1. CASE q = m
        <5>1. /\ route \in 1 .. Len(child[m]) /\ child[m][route].state = "success"
              /\ child[m][route].input = Edge(m, route).base
              /\ child[m][route].job = Edge(m, route).job
              /\ Edge(m, route).job \in Nat
          <6>1. Edge(m, route) \in [job : Ids, freezer : Ids, base : Inputs]
            BY <1>1, <1>8, <3>3, EdgeFacts
          <6>2. Ids \subseteq Nat BY ShapeFacts DEF Shape
          <6>3. m \in Members BY <1>1
          <6>4. /\ route \in 1 .. Len(child[m]) /\ child[m][route].state = "success"
                /\ child[m][route].input = Edge(m, route).base
                /\ child[m][route].job = Edge(m, route).job
            BY <1>8, <3>3, <6>3, EdgeFacts
          <6>5. Edge(m, route).job \in Ids
            <7> DEFINE e == Edge(m, route)
            <7>1. e \in [job : Ids, freezer : Ids, base : Inputs] BY <6>1
            <7> HIDE DEF e
            <7>2. e.job \in Ids BY <7>1
            <7> QED BY <7>2 DEF e
          <6> QED BY <6>2, <6>4, <6>5
        <5>2. edges'[p][q] = Edge(m, route) BY <1>7, <2>1, <2>4, <4>1
        <5>3. lineage'[p][q].route = route BY <3>2, <4>1 DEF route
        <5> QED BY <1>0, <4>1, <5>1, <5>2, <5>3 DEF Noted
      <4>2. CASE q # m
        <5>1. edges'[p][q] = edges[p][q] BY <1>7, <2>1, <4>2
        <5>2. Noted(p, q)' <=> Noted(p, q) BY <1>0, <3>2, <5>1 DEF Noted
        <5>3. Left(p, "edge", q)' <=> Left(p, "edge", q) BY <1>1, <4>2
        <5> QED BY <2>1, <5>2, <5>3 DEF ReaderMeans
      <4> QED BY <4>1, <4>2
    <3>5. ASSUME Collected(p)', Matches(p, q)', Current(p, q)' PROVE Kept(p, q)'
      <4> DEFINE r == lineage[p][q].route
                 e == edges'[p][q]
      <4>1. Noted(p, q)'
        <5>1. ~ Left(p, "edge", q)'
          <6> SUFFICES ASSUME Left(p, "edge", q)' PROVE FALSE OBVIOUS
          <6>1. PICK i \in 1 .. Len(reads'[p]) : reads'[p][i] = <<"edge", q>> BY DEF Left, Holds
          <6>2. reads'[p][i][1] = "edge" BY <6>1
          <6> QED BY <3>5, <6>1, <6>2 DEF Collected
        <5> QED BY <3>4, <5>1
      <4>2. /\ r \in 1 .. Len(child[q])
            /\ e.job = child[q][r].job => child[q][r].input = e.base
        BY <1>0, <3>2, <4>1 DEF Noted
      <4>3. child[q][r].job = e.job /\ child[q][r].state = "success"
        BY <1>0, <3>2, <3>5 DEF Matches
      <4>4. known(q) = r BY <1>0, <1>4, <3>2, <3>5 DEF Current, Route, known
      <4>5. moment'[p][q] = Result(q, r)
        <5>1. last BY <3>5 DEF last
        <5> QED BY <1>7, <2>1, <2>4, <4>4, <5>1
      <4>6. DOMAIN child[q] = 1 .. Len(child[q]) BY <2>1, ChildFacts
      <4>7. Result(q, r) = [job |-> e.job, base |-> e.base]
        BY <4>2, <4>3, <4>6 DEF Result, ResultRead
      <4> QED BY <4>5, <4>7 DEF Kept
    <3> QED BY <3>1, <3>4, <3>5 DEF ReaderMeans
  <2> QED BY <2>2, <2>3, <2>4 DEF Operations
<1> QED BY <1>3, <1>4, <1>9 DEF ReaderInv

LEMMA BasesRead ==
  ASSUME Shape, ReaderInv(Accept), BasesAreParents, Read(Accept)
  PROVE  BasesAreParents'
<1>0. /\ parents' = parents /\ parents \in Requests /\ Accept \in Readers
      /\ parents \in [Members -> SUBSET Members] /\ Reading(Accept)
  BY ShapeFacts DEF Shape, Read, graph
<1>1. PICK op \in Operations, n \in Asks(Accept) :
           /\ n \in Members
           /\ Note(Accept, op, n, Collected(Accept)')
           /\ \A x \in Owed(Accept, <<op, n>>) : Holds(reads'[Accept], x)
           /\ \A o, q : Left(Accept, o, q) <=> (o = op /\ q = n) \/ Left(Accept, o, q)'
  BY <1>0, NextRead
<1> DEFINE last == Collected(Accept)'
<1> HIDE DEF last
<1>2. NoteMeans(Accept, op, n, last)
  <2>1. Note(Accept, op, n, last) BY <1>1 DEF last
  <2> QED BY <1>0, <1>1, <2>1, ReadEffect
<1>3. /\ edges' = [edges EXCEPT ![Accept][n] =
                    IF op = "edge" THEN Edge(n, lineage[Accept][n].route) ELSE @]
      /\ op = "edge" => FromParents(Accept, n)
  BY <1>2 DEF NoteMeans
<1>4. edges \in [Readers -> EdgeNotes] BY DEF Shape, NotesOK
<1>5. \A q \in Members :
        edges'[Accept][q] = IF op = "edge" /\ q = n THEN Edge(n, lineage[Accept][n].route)
                            ELSE edges[Accept][q]
  BY <1>0, <1>1, <1>3, <1>4 DEF EdgeNotes
<1>6. Members' = Members BY <1>0, Fixed
<1> SUFFICES ASSUME NEW m \in Members, ~ Left(Accept, "edge", m)', NEW q \in parents[m]
             PROVE  edges'[Accept][m].base[q] = edges'[Accept][q].job
  BY <1>0, <1>6 DEF BasesAreParents
<1>7. q \in Members BY <1>0
<1>8. ~ Left(Accept, "edge", m) => edges[Accept][m].base[q] = edges[Accept][q].job
  BY <1>0 DEF BasesAreParents
<1>9. CASE op # "edge"
  <2>1. ~ Left(Accept, "edge", m) BY <1>1, <1>9
  <2> QED BY <1>5, <1>7, <1>8, <1>9, <2>1
<1>10. CASE op = "edge"
  <2>1. q # n
    <3> SUFFICES ASSUME q = n PROVE FALSE OBVIOUS
    <3>1. <<"edge", m>> \in Owed(Accept, <<"edge", n>>) BY DEF Owed
    <3>2. Holds(reads'[Accept], <<"edge", m>>) BY <1>1, <1>10, <3>1
    <3> QED BY <3>2 DEF Left, Holds
  <2>2. edges'[Accept][q] = edges[Accept][q] BY <1>5, <1>7, <2>1
  <2>3. CASE m = n
    <3>1. freezer[m].base[q] = edges[Accept][q].job BY <1>3, <1>10, <2>3 DEF FromParents
    <3>2. edges'[Accept][m] = Edge(n, lineage[Accept][n].route) BY <1>5, <1>10, <2>3
    <3>3. Edge(n, lineage[Accept][n].route).base = freezer[n].base BY DEF Edge
    <3> QED BY <2>2, <2>3, <3>1, <3>2, <3>3
  <2>4. CASE m # n
    <3>1. ~ Left(Accept, "edge", m) BY <1>1, <2>4
    <3>2. edges'[Accept][m] = edges[Accept][m] BY <1>5, <2>4
    <3> QED BY <1>8, <2>2, <3>1, <3>2
  <2> QED BY <2>3, <2>4
<1> QED BY <1>9, <1>10

(***************************************************************************)
(* What GitLab does.                                                       *)
(***************************************************************************)
LEMMA StillGrows == ASSUME Shape, child' = child PROVE Grows
<1>1. ASSUME NEW q \in Members
      PROVE  /\ Len(child[q]) \in Nat /\ \A r \in 1 .. Len(child[q]) : child[q][r].job \in Nat
  BY ChildFacts
<1> QED BY <1>1 DEF Grows, Older

LEMMA GitLabRests ==
  ASSUME Shape, parents' = parents, UNCHANGED gitlab PROVE GitLabOK' /\ Grows
<1>1. Grows BY StillGrows DEF gitlab
<1>2. GitLabOK BY DEF Shape
<1>3. /\ N' = N /\ Members' = Members /\ Ids' = Ids /\ Freezers' = Freezers /\ Kids' = Kids
  BY Fixed
<1>4. freezer' = freezer /\ child' = child /\ made' = made /\ retries' = retries BY DEF gitlab
<1>5. \A m : CountOK(m)' <=> CountOK(m) BY <1>4 DEF CountOK
<1> QED BY <1>1, <1>2, <1>3, <1>4, <1>5 DEF GitLabOK

LEMMA FreezerChanges ==
  ASSUME Shape, parents' = parents, child' = child, made' = made, NEW m \in Members,
         NEW f \in Freezers, freezer' = [freezer EXCEPT ![m] = f],
         retries' \in 0 .. MaxRetries[N], retries <= retries',
         f.id <= retries' + (IF f.state = "waiting" THEN 0 ELSE 1)
  PROVE  GitLabOK' /\ Grows
<1>1. Grows BY StillGrows
<1>2. GitLabOK /\ parents \in Requests BY DEF Shape
<1>3. /\ N' = N /\ Members' = Members /\ Ids' = Ids /\ Freezers' = Freezers /\ Kids' = Kids
  BY Fixed
<1>4. /\ freezer \in [Members -> Freezers] /\ made \in [Members -> Ids] /\ retries \in Nat
      /\ retries' \in Nat /\ Ids \subseteq Nat
  BY <1>2, ShapeFacts DEF GitLabOK
<1>5. ASSUME NEW x \in Members PROVE CountOK(x)'
  <2>1. CountOK(x) BY <1>2 DEF GitLabOK
  <2>2. freezer'[x] = IF x = m THEN f ELSE freezer[x] BY <1>4
  <2>3. freezer'[x].id <= retries' + (IF freezer'[x].state = "waiting" THEN 0 ELSE 1)
    <3>1. CASE x = m BY <2>2, <3>1
    <3>2. CASE x # m
      <4>1. freezer[x].id \in Nat BY <1>4 DEF Freezers
      <4> QED BY <1>4, <2>1, <2>2, <3>2, <4>1 DEF CountOK
    <3> QED BY <3>1, <3>2
  <2>4. made[x] <= retries' + (IF child[x] = <<>> THEN 0 ELSE 1)
    <3>1. made[x] \in Nat BY <1>4
    <3> QED BY <1>4, <2>1, <3>1 DEF CountOK
  <2> QED BY <2>1, <2>3, <2>4 DEF CountOK
<1>6. freezer' \in [Members -> Freezers] BY <1>4
<1> QED BY <1>1, <1>2, <1>3, <1>5, <1>6 DEF GitLabOK

LEMMA ChildTriggered ==
  ASSUME Shape, parents' = parents, freezer' = freezer, NEW m \in Members, Triggered(m),
         retries' \in 0 .. MaxRetries[N], retries <= retries', made[m] <= retries'
  PROVE  GitLabOK' /\ Grows
<1> DEFINE k == [input |-> freezer[m].base, job |-> made[m] + 1, state |-> "running"]
<1>1. GitLabOK /\ parents \in Requests BY DEF Shape
<1>2. /\ N' = N /\ Members' = Members /\ Ids' = Ids /\ Freezers' = Freezers /\ Kids' = Kids
  BY Fixed
<1>3. /\ freezer \in [Members -> Freezers] /\ made \in [Members -> Ids] /\ retries \in Nat
      /\ retries' \in Nat /\ Ids \subseteq Nat /\ child \in [Members -> Seq(Kids)]
      /\ Ids = 0 .. MaxRetries[N] + 1 /\ MaxRetries[N] \in Nat
  BY <1>1, ShapeFacts DEF GitLabOK
<1>4. /\ child' = [child EXCEPT ![m] = Append(child[m], k)]
      /\ made' = [made EXCEPT ![m] = made[m] + 1]
  BY DEF Triggered, NewJob
<1>5. made[m] \in Nat /\ made[m] + 1 \in Ids BY <1>3
<1>6. k \in Kids /\ k.job = made[m] + 1 BY <1>3, <1>5 DEF Kids, Freezers
<1> HIDE DEF k
<1>7. /\ Len(child[m]) \in Nat /\ child[m] \in Seq(Kids)
      /\ \A r \in 1 .. Len(child[m]) : child[m][r].job \in Nat
  BY ChildFacts
<1> DEFINE s == Append(child[m], k)
<1>8. /\ s \in Seq(Kids) /\ Len(s) = Len(child[m]) + 1 /\ s[Len(child[m]) + 1] = k
      /\ s # <<>> /\ \A r \in 1 .. Len(child[m]) : s[r] = child[m][r]
  BY <1>6, <1>7, AppendProperties
<1> HIDE DEF s
<1>9. /\ child' \in [Members -> Seq(Kids)] /\ made' \in [Members -> Ids]
      /\ child'[m] = s /\ made'[m] = made[m] + 1
      /\ \A x \in Members : x # m => child'[x] = child[x] /\ made'[x] = made[x]
  BY <1>3, <1>4, <1>5, <1>8 DEF s
<1>10. Grows
  <2>1. ASSUME NEW q \in Members
        PROVE  /\ Len(child'[q]) \in Nat /\ Len(child[q]) <= Len(child'[q])
               /\ \A r \in 1 .. Len(child[q]) : Older(child[q][r], child'[q][r])
    <3>1. Len(child[q]) \in Nat /\ \A r \in 1 .. Len(child[q]) : child[q][r].job \in Nat
      BY ChildFacts
    <3>2. Len(child'[q]) \in Nat /\ Len(child[q]) <= Len(child'[q])
      BY <1>7, <1>8, <1>9, <3>1
    <3>3. \A r \in 1 .. Len(child[q]) : child'[q][r] = child[q][r] BY <1>8, <1>9
    <3> QED BY <3>1, <3>2, <3>3 DEF Older
  <2> QED BY <2>1 DEF Grows
<1>11. ASSUME NEW x \in Members PROVE CountOK(x)'
  <2>1. CountOK(x) /\ made[x] \in Nat BY <1>1, <1>3 DEF GitLabOK
  <2>2. freezer[x].id \in Nat BY <1>3 DEF Freezers
  <2>3. freezer[x].id <= retries' + (IF freezer[x].state = "waiting" THEN 0 ELSE 1)
    BY <1>3, <2>1, <2>2 DEF CountOK
  <2>4. CASE x # m
    <3>1. made[x] <= retries' + (IF child[x] = <<>> THEN 0 ELSE 1) BY <1>3, <2>1 DEF CountOK
    <3> QED BY <1>9, <2>1, <2>3, <2>4, <3>1 DEF CountOK
  <2>5. CASE x = m
    <3>1. Len(child[m]) <= made[m] /\ \A r \in 1 .. Len(child[m]) : child[m][r].job <= made[m]
      BY <2>1, <2>5 DEF CountOK
    <3>2. Len(child'[m]) <= made'[m] BY <1>5, <1>7, <1>8, <1>9, <3>1
    <3>3. ASSUME NEW r \in 1 .. Len(child'[m]) PROVE child'[m][r].job <= made'[m]
      <4>1. r \in 1 .. Len(child[m]) \/ r = Len(child[m]) + 1 BY <1>7, <1>8, <1>9
      <4>2. CASE r = Len(child[m]) + 1 BY <1>5, <1>6, <1>8, <1>9, <4>2
      <4>3. CASE r \in 1 .. Len(child[m])
        <5>1. child'[m][r] = child[m][r] BY <1>8, <1>9, <4>3
        <5> QED BY <1>5, <1>7, <1>9, <3>1, <4>3, <5>1
      <4> QED BY <4>1, <4>2, <4>3
    <3>4. made'[m] <= retries' + 1 BY <1>3, <1>5, <1>9
    <3> QED BY <1>8, <1>9, <2>3, <2>5, <3>2, <3>3, <3>4 DEF CountOK
  <2> QED BY <2>4, <2>5
<1> QED BY <1>1, <1>2, <1>9, <1>10, <1>11 DEF GitLabOK

\* One route child changes: its job ends, is erased or is run again.
LEMMA ChildChanges ==
  ASSUME Shape, parents' = parents, freezer' = freezer, NEW m \in Members,
         NEW r \in 1 .. Len(child[m]), NEW k \in Kids, Older(child[m][r], k),
         child' = [child EXCEPT ![m] = [child[m] EXCEPT ![r] = k]],
         NEW n \in Ids, made' = [made EXCEPT ![m] = n], made[m] <= n, k.job <= n,
         retries' \in 0 .. MaxRetries[N], retries <= retries', n <= retries' + 1
  PROVE  GitLabOK' /\ Grows
<1>1. GitLabOK /\ parents \in Requests BY DEF Shape
<1>2. /\ N' = N /\ Members' = Members /\ Ids' = Ids /\ Freezers' = Freezers /\ Kids' = Kids
  BY Fixed
<1>3. /\ freezer \in [Members -> Freezers] /\ made \in [Members -> Ids] /\ retries \in Nat
      /\ retries' \in Nat /\ Ids \subseteq Nat /\ child \in [Members -> Seq(Kids)]
  BY <1>1, ShapeFacts DEF GitLabOK
<1>4. /\ Len(child[m]) \in Nat /\ child[m] \in Seq(Kids) /\ n \in Nat /\ made[m] \in Nat
      /\ \A x \in 1 .. Len(child[m]) : child[m][x].job \in Nat
  BY <1>3, ChildFacts
<1> DEFINE s == [child[m] EXCEPT ![r] = k]
<1>5. /\ s \in Seq(Kids) /\ Len(s) = Len(child[m]) /\ s[r] = k /\ s # <<>> /\ child[m] # <<>>
      /\ \A x \in 1 .. Len(child[m]) : x # r => s[x] = child[m][x]
  BY <1>4, ExceptSeq
<1> HIDE DEF s
<1>6. /\ child' \in [Members -> Seq(Kids)] /\ made' \in [Members -> Ids]
      /\ child'[m] = s /\ made'[m] = n
      /\ \A x \in Members : x # m => child'[x] = child[x] /\ made'[x] = made[x]
  BY <1>3, <1>5 DEF s
<1>7. Grows
  <2>1. ASSUME NEW q \in Members
        PROVE  /\ Len(child'[q]) \in Nat /\ Len(child[q]) <= Len(child'[q])
               /\ \A x \in 1 .. Len(child[q]) : Older(child[q][x], child'[q][x])
    <3>1. Len(child[q]) \in Nat /\ \A x \in 1 .. Len(child[q]) : child[q][x].job \in Nat
      BY ChildFacts
    <3>2. Len(child'[q]) = Len(child[q]) BY <1>5, <1>6
    <3>3. ASSUME NEW x \in 1 .. Len(child[q]) PROVE Older(child[q][x], child'[q][x])
      <4>1. CASE q = m /\ x = r BY <1>5, <1>6, <4>1
      <4>2. CASE ~ (q = m /\ x = r)
        <5>1. child'[q][x] = child[q][x] BY <1>5, <1>6, <4>2
        <5> QED BY <3>1, <5>1 DEF Older
      <4> QED BY <4>1, <4>2
    <3> QED BY <3>1, <3>2, <3>3
  <2> QED BY <2>1 DEF Grows
<1>8. ASSUME NEW x \in Members PROVE CountOK(x)'
  <2>1. CountOK(x) /\ made[x] \in Nat BY <1>1, <1>3 DEF GitLabOK
  <2>2. freezer[x].id \in Nat BY <1>3 DEF Freezers
  <2>3. freezer[x].id <= retries' + (IF freezer[x].state = "waiting" THEN 0 ELSE 1)
    BY <1>3, <2>1, <2>2 DEF CountOK
  <2>4. CASE x # m
    <3>1. made[x] <= retries' + (IF child[x] = <<>> THEN 0 ELSE 1) BY <1>3, <2>1 DEF CountOK
    <3> QED BY <1>6, <2>1, <2>3, <2>4, <3>1 DEF CountOK
  <2>5. CASE x = m
    <3>1. Len(child[m]) <= made[m] /\ \A y \in 1 .. Len(child[m]) : child[m][y].job <= made[m]
      BY <2>1, <2>5 DEF CountOK
    <3>2. Len(child'[m]) <= made'[m] BY <1>4, <1>5, <1>6, <3>1
    <3>3. ASSUME NEW y \in 1 .. Len(child'[m]) PROVE child'[m][y].job <= made'[m]
      <4>1. y \in 1 .. Len(child[m]) BY <1>5, <1>6
      <4>2. CASE y = r BY <1>5, <1>6, <4>2
      <4>3. CASE y # r
        <5>1. child'[m][y] = child[m][y] BY <1>5, <1>6, <4>1, <4>3
        <5> QED BY <1>4, <1>6, <3>1, <4>1, <5>1
      <4> QED BY <4>2, <4>3
    <3> QED BY <1>5, <1>6, <2>3, <2>5, <3>2, <3>3 DEF CountOK
  <2> QED BY <2>4, <2>5
<1> QED BY <1>1, <1>2, <1>6, <1>7, <1>8 DEF GitLabOK

OthersKeep(p) == \A x \in Readers \ {p} : NotesStay(x)

LEMMA NotesRest ==
  ASSUME Shape, parents' = parents, UNCHANGED notes
  PROVE  NotesOK' /\ \A x : NotesStay(x)
<1>1. NotesOK BY DEF Shape
<1>2. /\ Readers' = Readers /\ AnyRead' = AnyRead /\ Lineages' = Lineages
      /\ EdgeNotes' = EdgeNotes /\ Results' = Results
  BY Fixed
<1> QED BY <1>1, <1>2 DEF NotesOK, notes, NotesStay

LEMMA BeginNotes ==
  ASSUME Shape, parents' = parents, NEW p \in Readers, NEW known \in Lineages, Begin(p, known),
         AsksAll(p, Append(Program(p), TheEnd))
  PROVE  /\ NotesOK' /\ OthersKeep(p) /\ AsksAll(p, reads'[p])
         /\ moment'[p] = Blank(NoResult)
<1>1. NotesOK /\ parents \in Requests BY DEF Shape
<1>2. /\ Readers' = Readers /\ AnyRead' = AnyRead /\ Lineages' = Lineages
      /\ EdgeNotes' = EdgeNotes /\ Results' = Results
  BY Fixed
<1>3. Blank(NoEdge) \in EdgeNotes /\ Blank(NoResult) \in Results /\ Steps(p) \subseteq AnyRead
  BY <1>1, ShapeFacts
<1> DEFINE t == Append(Program(p), TheEnd)
<1>4. t \in Seq(AnyRead)
  <2>1. t \in Seq(Steps(p)) BY DEF AsksAll, Sound
  <2> HIDE DEF t
  <2> QED BY <1>3, <2>1, Widened
<1>5. /\ reads' = [reads EXCEPT ![p] = t] /\ lineage' = [lineage EXCEPT ![p] = known]
      /\ edges' = [edges EXCEPT ![p] = Blank(NoEdge)]
      /\ moment' = [moment EXCEPT ![p] = Blank(NoResult)]
  BY DEF Begin
<1> HIDE DEF t
<1>6. NotesOK' BY <1>1, <1>2, <1>3, <1>4, <1>5 DEF NotesOK
<1>7. OthersKeep(p) BY <1>1, <1>5 DEF NotesOK, OthersKeep, NotesStay
<1>8. reads'[p] = t /\ moment'[p] = Blank(NoResult) BY <1>1, <1>5 DEF NotesOK
<1> QED BY <1>6, <1>7, <1>8 DEF t

LEMMA RestNotes ==
  ASSUME Shape, parents' = parents, NEW p \in Readers, Rest(p)
  PROVE  NotesOK' /\ OthersKeep(p) /\ reads'[p] = <<>> /\ moment' = moment
<1>1. NotesOK BY DEF Shape
<1>2. /\ Readers' = Readers /\ AnyRead' = AnyRead /\ Lineages' = Lineages
      /\ EdgeNotes' = EdgeNotes /\ Results' = Results
  BY Fixed
<1>3. <<>> \in Seq(AnyRead) OBVIOUS
<1> QED BY <1>1, <1>2, <1>3 DEF Rest, NotesOK, OthersKeep, NotesStay

LEMMA RefuseNotes ==
  ASSUME Shape, parents' = parents, NEW p \in Readers, Refuse(p)
  PROVE  /\ NotesOK' /\ OthersKeep(p) /\ reads'[p] = <<>> /\ moment'[p] = Blank(NoResult)
<1>1. NotesOK /\ parents \in Requests BY DEF Shape
<1>2. /\ Readers' = Readers /\ AnyRead' = AnyRead /\ Lineages' = Lineages
      /\ EdgeNotes' = EdgeNotes /\ Results' = Results
  BY Fixed
<1>3. /\ Blank(NoLineage) \in Lineages /\ Blank(NoEdge) \in EdgeNotes
      /\ Blank(NoResult) \in Results /\ <<>> \in Seq(AnyRead)
  BY <1>1, ShapeFacts
<1> QED BY <1>1, <1>2, <1>3 DEF Refuse, NotesOK, OthersKeep, NotesStay

LEMMA ReadNotes ==
  ASSUME Shape, NEW p \in Readers, ReaderInv(p), Read(p)
  PROVE  NotesOK' /\ OthersKeep(p)
<1>0. parents' = parents /\ parents \in Requests /\ NotesOK /\ GitLabOK
  BY DEF Shape, Read, graph
<1>1. PICK op \in Operations, m \in Asks(p) :
        /\ m \in Members /\ Note(p, op, m, Collected(p)') /\ reads'[p] \in Seq(AnyRead)
  BY NextRead
<1> DEFINE last == Collected(p)'
           route == lineage[p][m].route
<1> HIDE DEF last
<1>2. NoteMeans(p, op, m, last)
  <2>1. Note(p, op, m, last) BY <1>1 DEF last
  <2> QED BY <1>1, <2>1, ReadEffect
<1>3. /\ reads \in [Readers -> Seq(AnyRead)] /\ lineage \in [Readers -> Lineages]
      /\ edges \in [Readers -> EdgeNotes] /\ moment \in [Readers -> Results]
  BY <1>0 DEF NotesOK
<1>4. Lineage(m) \in [freezer : Ids, route : Ids]
  <2>1. freezer[m].id \in Ids BY <1>0, <1>1 DEF GitLabOK, Freezers
  <2>2. Route(m) \in Nat /\ Route(m) <= made[m] /\ made[m] \in Ids
    BY <1>0, <1>1, ChildFacts DEF GitLabOK, CountOK
  <2>3. Route(m) \in Ids BY <1>0, <2>2, ShapeFacts
  <2> QED BY <2>1, <2>3 DEF Lineage
<1>5. op = "edge" => Edge(m, route) \in [job : Ids, freezer : Ids, base : Inputs]
  <2>1. op = "edge" => EdgeRead(m, route) BY <1>2 DEF NoteMeans
  <2>2. route \in Nat BY <1>1, NoteFacts
  <2> HIDE DEF route
  <2> QED BY <1>1, <2>1, <2>2, EdgeFacts
<1>6. \A x \in Members : \A r : Result(x, r) \in [job : Ids, base : Inputs]
  <2> TAKE x \in Members
  <2> TAKE r
  <2>1. CASE ResultRead(x, r)
    <3>1. child[x][r] \in Kids BY <2>1, ChildFacts DEF ResultRead
    <3> QED BY <2>1, <3>1 DEF Result, Kids
  <2>2. CASE ~ ResultRead(x, r) BY <1>0, <2>2, ShapeFacts DEF Result, NoResult
  <2> QED BY <2>1, <2>2
<1> DEFINE known(x) == IF p = Envelope THEN lineage[p][x].route ELSE Route(x)
           all == [x \in Members |-> Result(x, known(x))]
<1>7. all \in Results
  <2> HIDE DEF known
  <2> QED BY <1>6 DEF Results
<1>8. /\ lineage' = [lineage EXCEPT ![p][m] = IF op = "lineage" THEN Lineage(m) ELSE @]
      /\ edges' = [edges EXCEPT ![p][m] = IF op = "edge" THEN Edge(m, route) ELSE @]
      /\ moment' = IF op = "edge" /\ last THEN [moment EXCEPT ![p] = all] ELSE moment
  BY <1>2 DEF NoteMeans
<1> HIDE DEF all, route
<1>9. lineage' \in [Readers -> Lineages] BY <1>1, <1>3, <1>4, <1>8 DEF Lineages
<1>10. edges' \in [Readers -> EdgeNotes] BY <1>1, <1>3, <1>5, <1>8 DEF EdgeNotes
<1>11. moment' \in [Readers -> Results] BY <1>3, <1>7, <1>8
<1>12. reads' = [reads EXCEPT ![p] = Tail(@)] BY DEF Read
<1>13. reads' \in [Readers -> Seq(AnyRead)]
  <2>1. reads'[p] = Tail(reads[p]) BY <1>3, <1>12
  <2> QED BY <1>1, <1>3, <1>12, <2>1
<1>14. OthersKeep(p) BY <1>3, <1>8, <1>12 DEF OthersKeep, NotesStay
<1>15. /\ Readers' = Readers /\ AnyRead' = AnyRead /\ Lineages' = Lineages
       /\ EdgeNotes' = EdgeNotes /\ Results' = Results
  BY <1>0, Fixed
<1> QED BY <1>9, <1>10, <1>11, <1>13, <1>14, <1>15 DEF NotesOK

\* What the others rely on, after a step of one reader or of GitLab.
LEMMA ReadersKeep ==
  ASSUME GraphInv, parents' = parents, Grows, NEW p \in Readers, OthersKeep(p), ReaderInv(p)'
  PROVE  \A x \in Readers : ReaderInv(x)'
<1> SUFFICES ASSUME NEW x \in Readers PROVE ReaderInv(x)' OBVIOUS
<1>1. CASE x = p BY <1>1
<1>2. CASE x # p
  <2>1. NotesStay(x) BY <1>2 DEF OthersKeep
  <2>2. Shape /\ ReaderInv(x) BY DEF GraphInv
  <2> QED BY <2>1, <2>2, ReaderStays
<1> QED BY <1>1, <1>2

LEMMA PublishedKeep ==
  ASSUME parents' = parents, NEW m, PublishedOK(m), NotesStay(m),
         \/ freezer'[m] = freezer[m]
         \/ /\ freezer[m].state = "success" /\ freezer'[m].state = "erased"
            /\ freezer'[m].base = freezer[m].base
  PROVE  PublishedOK(m)'
BY DEF PublishedOK, NotesStay, Reading

LEMMA AcceptedKeep ==
  ASSUME parents' = parents, NEW p, AcceptedOK(p), NotesStay(p), receipt'[p] = receipt[p]
  PROVE  AcceptedOK(p)'
<1>1. Blank(NoResult)' = Blank(NoResult) BY Fixed
<1> QED BY <1>1 DEF AcceptedOK, NotesStay, Reading

LEMMA BasesKeep ==
  ASSUME parents' = parents, BasesAreParents, NotesStay(Accept)
  PROVE  BasesAreParents'
<1>1. Members' = Members BY Fixed
<1>2. \A q : Left(Accept, "edge", q)' <=> Left(Accept, "edge", q) BY DEF Left, Holds, NotesStay
<1> QED BY <1>1, <1>2 DEF BasesAreParents, NotesStay, Reading

LEMMA BasesAcceptedKeep ==
  ASSUME parents' = parents, BasesAccepted, receipt'[Accept] = receipt[Accept]
  PROVE  BasesAccepted'
<1>1. Members' = Members /\ Blank(NoResult)' = Blank(NoResult) BY Fixed
<1> QED BY <1>1 DEF BasesAccepted

LEMMA OrderKeep ==
  ASSUME parents' = parents, order' = order, Shape PROVE OrderInv' /\ Len(order') \in {0, N}
<1>1. N' = N /\ Members' = Members BY Fixed
<1>2. InOrder(parents, order)' <=> InOrder(parents, order) BY <1>1 DEF InOrder
<1> QED BY <1>1, <1>2 DEF Shape, OrderInv

\* The invariant, of its parts after a step.
LEMMA Gathered ==
  ASSUME GraphInv, parents' = parents, OrderInv', Len(order') \in {0, N}, GitLabOK', NotesOK',
         receipt' \in [Readers -> Results],
         \A x \in Readers : ReaderInv(x)', \A m \in Members : PublishedOK(m)',
         \A p \in {Accept, Envelope} : AcceptedOK(p)', BasesAreParents', BasesAccepted'
  PROVE  GraphInv'
<1>1. /\ N' = N /\ Members' = Members /\ Readers' = Readers /\ Envelope' = Envelope
      /\ Results' = Results
  BY Fixed
<1>2. parents' \in Requests BY DEF GraphInv, Shape
<1>3. Shape' BY <1>1, <1>2 DEF Shape
<1>4. AcceptedOK(Accept)' /\ AcceptedOK(Envelope)' BY <1>1 DEF Accept
<1> QED BY <1>1, <1>3, <1>4 DEF GraphInv

\* A step of GitLab, which notes nothing.
LEMMA WorldStep ==
  ASSUME GraphInv, parents' = parents, OrderInv', Len(order') \in {0, N}, GitLabOK', Grows,
         UNCHANGED notes, receipt' = receipt,
         \A m \in Members :
           \/ freezer'[m] = freezer[m]
           \/ /\ freezer[m].state = "success" /\ freezer'[m].state = "erased"
              /\ freezer'[m].base = freezer[m].base
  PROVE  GraphInv'
<1>1. Shape /\ Accept \in Readers BY ShapeFacts DEF GraphInv, Shape
<1>2. NotesOK' /\ \A x : NotesStay(x) BY <1>1, NotesRest
<1>3. \A x \in Readers : ReaderInv(x)'
  <2> TAKE x \in Readers
  <2>1. ReaderInv(x) /\ NotesStay(x) BY <1>2 DEF GraphInv
  <2> QED BY <1>1, <2>1, ReaderStays
<1>4. \A m \in Members : PublishedOK(m)'
  <2> TAKE m \in Members
  <2>1. PublishedOK(m) /\ NotesStay(m) BY <1>2 DEF GraphInv
  <2> QED BY <2>1, PublishedKeep
<1>5. \A p \in {Accept, Envelope} : AcceptedOK(p)'
  <2> TAKE p \in {Accept, Envelope}
  <2>1. AcceptedOK(p) /\ NotesStay(p) BY <1>2 DEF GraphInv
  <2> QED BY <2>1, AcceptedKeep
<1>6. BasesAreParents' /\ BasesAccepted'
  <2>1. BasesAreParents /\ BasesAccepted /\ NotesStay(Accept) BY <1>2 DEF GraphInv
  <2> QED BY <2>1, BasesKeep, BasesAcceptedKeep
<1>7. receipt' \in [Readers -> Results] BY <1>1 DEF Shape
<1> QED BY <1>2, <1>3, <1>4, <1>5, <1>6, <1>7, Gathered

\* A step of the freezer of one member.
LEMMA MemberStep ==
  ASSUME GraphInv, parents' = parents, order' = order, receipt' = receipt, NEW m \in Members,
         GitLabOK', Grows, NotesOK', OthersKeep(m), ReaderInv(m)', PublishedOK(m)',
         \A x \in Members : x # m => freezer'[x] = freezer[x]
  PROVE  GraphInv'
<1>1. Shape BY DEF GraphInv
<1>2. /\ Members \subseteq Readers /\ Accept \in Readers /\ Envelope \in Readers
      /\ Accept # m /\ Envelope # m
  BY <1>1, ShapeFacts DEF Shape
<1>3. \A x \in Readers : ReaderInv(x)' BY <1>2, ReadersKeep
<1>4. \A x \in Members : PublishedOK(x)'
  <2> TAKE x \in Members
  <2>1. CASE x = m BY <2>1
  <2>2. CASE x # m
    <3>1. PublishedOK(x) /\ NotesStay(x) BY <1>2, <2>2 DEF GraphInv, OthersKeep
    <3> QED BY <2>2, <3>1, PublishedKeep
  <2> QED BY <2>1, <2>2
<1>5. \A p \in {Accept, Envelope} : AcceptedOK(p)'
  <2> TAKE p \in {Accept, Envelope}
  <2>1. AcceptedOK(p) /\ NotesStay(p) BY <1>2 DEF GraphInv, OthersKeep
  <2> QED BY <2>1, AcceptedKeep
<1>6. BasesAreParents' /\ BasesAccepted'
  <2>1. BasesAreParents /\ BasesAccepted /\ NotesStay(Accept) BY <1>2 DEF GraphInv, OthersKeep
  <2> QED BY <2>1, BasesKeep, BasesAcceptedKeep
<1>7. receipt' \in [Readers -> Results] BY <1>1 DEF Shape
<1>8. OrderInv' /\ Len(order') \in {0, N} BY <1>1, OrderKeep
<1> QED BY <1>3, <1>4, <1>5, <1>6, <1>7, <1>8, Gathered

\* A step of an acceptance.
LEMMA AcceptorStep ==
  ASSUME GraphInv, parents' = parents, order' = order, UNCHANGED gitlab,
         NEW p \in {Accept, Envelope}, NotesOK', OthersKeep(p), ReaderInv(p)', AcceptedOK(p)',
         receipt' \in [Readers -> Results], \A x \in Readers : x # p => receipt'[x] = receipt[x],
         p = Accept => BasesAreParents' /\ BasesAccepted'
  PROVE  GraphInv'
<1>1. Shape BY DEF GraphInv
<1>2. /\ Members \subseteq Readers /\ Accept \in Readers /\ Envelope \in Readers
      /\ Accept \notin Members /\ Envelope \notin Members /\ Accept # Envelope
  BY <1>1, ShapeFacts DEF Shape
<1>3. GitLabOK' /\ Grows BY <1>1, GitLabRests
<1>4. \A x \in Readers : ReaderInv(x)' BY <1>2, <1>3, ReadersKeep
<1>5. \A m \in Members : PublishedOK(m)'
  <2> TAKE m \in Members
  <2>1. PublishedOK(m) /\ NotesStay(m) /\ freezer' = freezer
    BY <1>2 DEF GraphInv, OthersKeep, gitlab
  <2> QED BY <2>1, PublishedKeep
<1>6. \A x \in {Accept, Envelope} : AcceptedOK(x)'
  <2> TAKE x \in {Accept, Envelope}
  <2>1. CASE x = p BY <2>1
  <2>2. CASE x # p
    <3>1. AcceptedOK(x) /\ NotesStay(x) /\ receipt'[x] = receipt[x]
      BY <1>2, <2>2 DEF GraphInv, OthersKeep
    <3> QED BY <3>1, AcceptedKeep
  <2> QED BY <2>1, <2>2
<1>7. BasesAreParents' /\ BasesAccepted'
  <2>1. CASE p = Accept BY <2>1
  <2>2. CASE p # Accept
    <3>1. /\ BasesAreParents /\ BasesAccepted /\ NotesStay(Accept)
          /\ receipt'[Accept] = receipt[Accept]
      BY <1>2, <2>2 DEF GraphInv, OthersKeep
    <3> QED BY <3>1, BasesKeep, BasesAcceptedKeep
  <2> QED BY <2>1, <2>2
<1>8. OrderInv' /\ Len(order') \in {0, N} BY <1>1, OrderKeep
<1> QED BY <1>3, <1>4, <1>5, <1>6, <1>7, <1>8, Gathered

(***************************************************************************)
(* Every step keeps the invariant.                                         *)
(***************************************************************************)
\* What a member's state is, and what its counters are bound by.
LEMMA Counters ==
  ASSUME GraphInv, NEW m \in Members
  PROVE  /\ freezer[m] \in Freezers /\ freezer[m].id \in Nat /\ freezer[m].base \in Inputs
         /\ freezer \in [Members -> Freezers] /\ child[m] \in Seq(Kids) /\ made[m] \in Nat
         /\ Len(child[m]) \in Nat /\ child \in [Members -> Seq(Kids)]
         /\ made \in [Members -> Ids]
         /\ retries \in Nat /\ MaxRetries[N] \in Nat /\ retries <= MaxRetries[N]
         /\ Ids = 0 .. MaxRetries[N] + 1 /\ CountOK(m) /\ m \in Readers
<1>1. GitLabOK /\ parents \in Requests BY DEF GraphInv, Shape
<1>2. Ids = 0 .. MaxRetries[N] + 1 /\ MaxRetries[N] \in Nat /\ m \in Readers
  BY <1>1, ShapeFacts
<1> QED BY <1>1, <1>2 DEF GitLabOK, Freezers

LEMMA CompileStep == ASSUME GraphInv, Compile PROVE GraphInv'
<1>1. Shape /\ parents \in Requests BY DEF GraphInv, Shape
<1>2. /\ parents' = parents /\ UNCHANGED gitlab /\ UNCHANGED notes /\ receipt' = receipt
      /\ order' = Layers(parents) /\ Len(Layers(parents)) = N
  BY DEF Compile
<1>3. N' = N /\ Members' = Members BY <1>2, Fixed
<1>4. InOrder(parents, Layers(parents)) BY <1>1, RequestFacts, LayersInOrder
<1>5. OrderInv' /\ Len(order') \in {0, N}
  <2>1. InOrder(parents, order)' BY <1>2, <1>3, <1>4 DEF InOrder
  <2> QED BY <1>2, <1>3, <2>1 DEF OrderInv
<1>6. GitLabOK' /\ Grows BY <1>1, <1>2, GitLabRests
<1> QED BY <1>2, <1>5, <1>6, WorldStep DEF gitlab

LEMMA StutterStep == ASSUME GraphInv, UNCHANGED graphVars PROVE GraphInv'
<1>1. Shape BY DEF GraphInv
<1>2. /\ parents' = parents /\ order' = order /\ UNCHANGED gitlab /\ UNCHANGED notes
      /\ receipt' = receipt
  BY DEF graphVars, gitlab, notes
<1>3. OrderInv' /\ Len(order') \in {0, N} BY <1>1, <1>2, OrderKeep
<1>4. GitLabOK' /\ Grows BY <1>1, <1>2, GitLabRests
<1> QED BY <1>2, <1>3, <1>4, WorldStep DEF gitlab

\* A freezer begins: for the first time, or again.
LEMMA FreezerBegins ==
  ASSUME GraphInv, NEW m \in Members, UNCHANGED graph, child' = child, made' = made,
         receipt' = receipt, Running(m), Begin(m, Blank(NoLineage)),
         retries' \in 0 .. MaxRetries[N], retries <= retries', freezer[m].id <= retries'
  PROVE  GraphInv'
<1>1. Shape /\ parents \in Requests BY DEF GraphInv, Shape
<1>2. parents' = parents /\ order' = order BY DEF graph
<1>3. /\ freezer[m] \in Freezers /\ freezer[m].id \in Nat /\ freezer \in [Members -> Freezers]
      /\ MaxRetries[N] \in Nat /\ Ids = 0 .. MaxRetries[N] + 1 /\ m \in Readers
      /\ freezer[m].base \in Inputs
  BY Counters
<1> DEFINE f == [freezer[m] EXCEPT !.id = freezer[m].id + 1, !.state = "running"]
<1>4. freezer' = [freezer EXCEPT ![m] = f] BY <1>3 DEF Running
<1>5. f \in Freezers /\ f.id = freezer[m].id + 1 /\ f.state = "running"
  <2>1. freezer[m].id + 1 \in Ids BY <1>3
  <2> QED BY <1>3, <2>1 DEF Freezers
<1> HIDE DEF f
<1>6. f.id <= retries' + (IF f.state = "waiting" THEN 0 ELSE 1) BY <1>3, <1>5
<1>7. GitLabOK' /\ Grows BY <1>1, <1>2, <1>4, <1>5, <1>6, FreezerChanges
<1>8. AsksAll(m, Append(Program(m), TheEnd)) BY <1>1, FreezerProgram
<1>9. NotesOK' /\ OthersKeep(m) /\ AsksAll(m, reads'[m])
  <2>1. Blank(NoLineage) \in Lineages BY <1>1, ShapeFacts
  <2> QED BY <1>1, <1>2, <1>3, <1>8, <2>1, BeginNotes
<1>10. ReaderInv(m)' BY <1>1, <1>2, <1>3, <1>9, ReaderBegins
<1>11. freezer'[m].state = "running" BY <1>3, <1>4, <1>5
<1>12. PublishedOK(m)' BY <1>11 DEF PublishedOK
<1>13. \A x \in Members : x # m => freezer'[x] = freezer[x] BY <1>3, <1>4
<1> QED BY <1>2, <1>7, <1>9, <1>10, <1>12, <1>13, MemberStep

LEMMA StartFreezerStep == ASSUME GraphInv, NEW m \in Members, StartFreezer(m) PROVE GraphInv'
<1>1. /\ UNCHANGED graph /\ child' = child /\ made' = made /\ receipt' = receipt
      /\ retries' = retries /\ Running(m) /\ Begin(m, Blank(NoLineage))
      /\ freezer[m].state = "waiting"
  BY DEF StartFreezer
<1>2. /\ freezer[m].id \in Nat /\ retries \in 0 .. MaxRetries[N] /\ retries \in Nat /\ CountOK(m)
  BY Counters
<1>3. freezer[m].id <= retries BY <1>1, <1>2 DEF CountOK
<1> QED BY <1>1, <1>2, <1>3, FreezerBegins

LEMMA RetryFreezerStep == ASSUME GraphInv, NEW m \in Members, RetryFreezer(m) PROVE GraphInv'
<1>1. /\ UNCHANGED graph /\ child' = child /\ made' = made /\ receipt' = receipt
      /\ retries' = retries + 1 /\ retries < MaxRetries[N]
      /\ Running(m) /\ Begin(m, Blank(NoLineage))
  BY DEF RetryFreezer, Again
<1>2. /\ freezer[m].id \in Nat /\ retries \in Nat /\ MaxRetries[N] \in Nat /\ CountOK(m)
  BY Counters
<1>3. /\ freezer[m].id <= retries' /\ retries' \in 0 .. MaxRetries[N] /\ retries <= retries'
  BY <1>1, <1>2 DEF CountOK
<1> QED BY <1>1, <1>3, FreezerBegins

\* Who has read all has kept all: the results were current when the last edge was noted.
LEMMA KeptAtTheEnd ==
  ASSUME GraphInv, NEW p \in Readers, Done(p)
  PROVE  /\ \A q : ~ Left(p, "edge", q)
         /\ \A q \in Asks(p) : Kept(p, q)
<1>1. Len(reads[p]) = 1 /\ reads[p][1][1] = "end" /\ Reading(p) BY DEF TheEnd, Done, Reading
<1>2. Collected(p) BY <1>1 DEF Collected
<1>3. \A o, q : o # "end" => ~ Left(p, o, q)
  <2> SUFFICES ASSUME NEW o, NEW q, o # "end", Left(p, o, q) PROVE FALSE OBVIOUS
  <2>1. PICK i \in 1 .. Len(reads[p]) : reads[p][i] = <<o, q>> BY DEF Left, Holds
  <2>2. reads[p][i][1] = o /\ i = 1 BY <1>1, <2>1
  <2> QED BY <1>1, <2>2
<1>4. \A q \in Asks(p) : ReaderMeans(p, q) BY <1>1 DEF GraphInv, ReaderInv
<1>5. \A q \in Asks(p) : Kept(p, q) BY <1>2, <1>3, <1>4 DEF ReaderMeans, Current
<1> QED BY <1>3, <1>5

\* What a freezer publishes is what the guard has just read again.
LEMMA PublishInputsStep == ASSUME GraphInv, NEW m \in Members, PublishInputs(m) PROVE GraphInv'
<1>1. Shape /\ parents \in Requests /\ ReaderInv(m) BY Counters DEF GraphInv, Shape
<1>2. /\ parents' = parents /\ order' = order /\ child' = child /\ made' = made
      /\ receipt' = receipt /\ retries' = retries /\ Rest(m)
      /\ freezer[m].state = "running" /\ reads[m] = <<TheEnd>>
  BY DEF PublishInputs, graph, Done
<1>3. /\ freezer[m] \in Freezers /\ freezer[m].id \in Nat /\ freezer \in [Members -> Freezers]
      /\ m \in Readers /\ CountOK(m) /\ retries \in 0 .. MaxRetries[N] /\ retries \in Nat
  BY Counters
<1> DEFINE b == [q \in Members |-> edges[m][q].job]
           f == [freezer[m] EXCEPT !.state = "success", !.base = b]
<1>4. freezer' = [freezer EXCEPT ![m] = f]
  <2>1. freezer' = [freezer EXCEPT ![m].state = "success", ![m].base = b]
    BY DEF PublishInputs
  <2> HIDE DEF b
  <2> QED BY <1>3, <2>1
<1>5. b \in Inputs
  <2>1. \A q \in Members : edges[m][q].job \in Ids BY <1>1, <1>3, NoteFacts
  <2> QED BY <2>1 DEF Inputs
<1>6. \A q \in Members : b[q] = edges[m][q].job OBVIOUS
<1> HIDE DEF b
<1>7. f \in Freezers /\ f.id = freezer[m].id /\ f.state = "success" /\ f.base = b
  BY <1>3, <1>5 DEF Freezers
<1> HIDE DEF f
<1>8. freezer[m].id <= retries + 1 BY <1>2, <1>3 DEF CountOK
<1>9. f.id <= retries' + (IF f.state = "waiting" THEN 0 ELSE 1) BY <1>2, <1>7, <1>8
<1>10. GitLabOK' /\ Grows
  <2>1. retries' \in 0 .. MaxRetries[N] /\ retries <= retries' BY <1>2, <1>3
  <2> QED BY <1>1, <1>2, <1>4, <1>7, <1>9, <2>1, FreezerChanges
<1>11. NotesOK' /\ OthersKeep(m) /\ reads'[m] = <<>> /\ moment' = moment
  BY <1>1, <1>2, <1>3, RestNotes
<1>12. ReaderInv(m)' BY <1>11 DEF ReaderInv, Reading
<1>13. \A q \in parents[m] : edges[m][q].job = moment[m][q].job
  <2>1. m \notin {Accept, Envelope} BY <1>1, ShapeFacts
  <2>2. Asks(m) = parents[m] BY <2>1 DEF Asks
  <2>3. Done(m) BY <1>2 DEF Done
  <2>4. \A q \in Asks(m) : Kept(m, q) BY <1>3, <2>3, KeptAtTheEnd
  <2> TAKE q \in parents[m]
  <2>5. moment[m][q] = [job |-> edges[m][q].job, base |-> edges[m][q].base]
    BY <2>2, <2>4 DEF Kept
  <2> QED BY <2>5
<1>14. PublishedOK(m)'
  <2>1. freezer'[m] = f BY <1>3, <1>4
  <2>2. \A q \in parents[m] : f.base[q] = moment'[m][q].job
    <3>1. parents[m] \subseteq Members BY <1>1, ShapeFacts
    <3> QED BY <1>6, <1>7, <1>11, <1>13, <3>1
  <2> QED BY <1>2, <1>11, <2>1, <2>2 DEF PublishedOK, Reading
<1>15. \A x \in Members : x # m => freezer'[x] = freezer[x] BY <1>3, <1>4
<1> QED BY <1>2, <1>10, <1>11, <1>12, <1>14, <1>15, MemberStep

LEMMA FreezerFailsStep == ASSUME GraphInv, NEW m \in Members, FreezerFails(m) PROVE GraphInv'
<1>1. Shape BY DEF GraphInv
<1>2. /\ parents' = parents /\ order' = order /\ child' = child /\ made' = made
      /\ receipt' = receipt /\ retries' = retries /\ Rest(m) /\ freezer[m].state = "running"
  BY DEF FreezerFails, graph
<1>3. /\ freezer[m] \in Freezers /\ freezer[m].id \in Nat /\ freezer \in [Members -> Freezers]
      /\ m \in Readers /\ CountOK(m) /\ retries \in 0 .. MaxRetries[N] /\ retries \in Nat
  BY Counters
<1> DEFINE f == [freezer[m] EXCEPT !.state = "failed"]
<1>4. freezer' = [freezer EXCEPT ![m] = f] BY DEF FreezerFails
<1>5. f \in Freezers /\ f.id = freezer[m].id /\ f.state = "failed" BY <1>3 DEF Freezers
<1> HIDE DEF f
<1>6. freezer[m].id <= retries + 1 BY <1>2, <1>3 DEF CountOK
<1>7. f.id <= retries' + (IF f.state = "waiting" THEN 0 ELSE 1) BY <1>2, <1>5, <1>6
<1>8. GitLabOK' /\ Grows
  <2>1. retries' \in 0 .. MaxRetries[N] /\ retries <= retries' BY <1>2, <1>3
  <2> QED BY <1>1, <1>2, <1>4, <1>5, <1>7, <2>1, FreezerChanges
<1>9. NotesOK' /\ OthersKeep(m) /\ reads'[m] = <<>> BY <1>1, <1>2, <1>3, RestNotes
<1>10. ReaderInv(m)' BY <1>9 DEF ReaderInv, Reading
<1>11. PublishedOK(m)'
  <2>1. freezer'[m].state = "failed" BY <1>3, <1>4, <1>5
  <2> QED BY <1>9, <2>1 DEF PublishedOK, Reading
<1>12. \A x \in Members : x # m => freezer'[x] = freezer[x] BY <1>3, <1>4
<1> QED BY <1>2, <1>8, <1>9, <1>10, <1>11, <1>12, MemberStep

\* GitLab changes nothing but children, or erases what a freezer published.
LEMMA WorldChanges ==
  ASSUME GraphInv, UNCHANGED <<graph, notes, receipt>>, GitLabOK', Grows,
         \A m \in Members :
           \/ freezer'[m] = freezer[m]
           \/ /\ freezer[m].state = "success" /\ freezer'[m].state = "erased"
              /\ freezer'[m].base = freezer[m].base
  PROVE  GraphInv'
<1>1. Shape BY DEF GraphInv
<1>2. parents' = parents /\ order' = order /\ UNCHANGED notes /\ receipt' = receipt
  BY DEF graph
<1>3. OrderInv' /\ Len(order') \in {0, N} BY <1>1, <1>2, OrderKeep
<1> QED BY <1>2, <1>3, WorldStep

LEMMA TriggerStep == ASSUME GraphInv, NEW m \in Members, Trigger(m) PROVE GraphInv'
<1>1. Shape BY DEF GraphInv
<1>2. /\ parents' = parents /\ freezer' = freezer /\ retries' = retries /\ Triggered(m)
      /\ UNCHANGED <<graph, notes, receipt>> /\ child[m] = <<>>
  BY DEF Trigger, graph
<1>3. /\ CountOK(m) /\ made[m] \in Nat /\ retries \in 0 .. MaxRetries[N] /\ retries \in Nat
  BY Counters
<1>4. made[m] <= retries' /\ retries' \in 0 .. MaxRetries[N] /\ retries <= retries'
  BY <1>2, <1>3 DEF CountOK
<1>5. GitLabOK' /\ Grows BY <1>1, <1>2, <1>4, ChildTriggered
<1> QED BY <1>2, <1>5, WorldChanges

LEMMA RetryBridgeStep == ASSUME GraphInv, NEW m \in Members, RetryBridge(m) PROVE GraphInv'
<1>1. Shape BY DEF GraphInv
<1>2. /\ parents' = parents /\ freezer' = freezer /\ Triggered(m)
      /\ retries' = retries + 1 /\ retries < MaxRetries[N]
      /\ UNCHANGED <<graph, notes, receipt>>
  BY DEF RetryBridge, Again, graph
<1>3. CountOK(m) /\ made[m] \in Nat /\ MaxRetries[N] \in Nat /\ retries \in Nat BY Counters
<1>4. made[m] <= retries' /\ retries' \in 0 .. MaxRetries[N] /\ retries <= retries'
  BY <1>2, <1>3 DEF CountOK
<1>5. GitLabOK' /\ Grows BY <1>1, <1>2, <1>4, ChildTriggered
<1> QED BY <1>2, <1>5, WorldChanges

LEMMA FinishStep ==
  ASSUME GraphInv, NEW m \in Members, NEW r \in Ids, Finish(m, r) PROVE GraphInv'
<1>1. Shape BY DEF GraphInv
<1>2. /\ parents' = parents /\ freezer' = freezer /\ made' = made /\ retries' = retries
      /\ UNCHANGED <<graph, notes, receipt>> /\ r \in DOMAIN child[m]
      /\ child[m][r].state = "running"
  BY DEF Finish, graph
<1>3. /\ CountOK(m) /\ made \in [Members -> Ids] /\ made[m] \in Nat /\ retries \in Nat
      /\ retries \in 0 .. MaxRetries[N] /\ child \in [Members -> Seq(Kids)]
  BY Counters
<1>4. r \in 1 .. Len(child[m]) /\ child[m][r] \in Kids /\ child[m][r].job \in Nat
  BY <1>1, <1>2, ChildFacts
<1>5. PICK state \in {"success", "failed"} : child' = [child EXCEPT ![m][r].state = state]
  BY DEF Finish
<1> DEFINE k == [child[m][r] EXCEPT !.state = state]
<1>6. child' = [child EXCEPT ![m] = [child[m] EXCEPT ![r] = k]] BY <1>3, <1>4, <1>5
<1>7. k \in Kids /\ k.job = child[m][r].job /\ k.input = child[m][r].input /\ k.state = state
  BY <1>4 DEF Kids
<1> HIDE DEF k
<1>8. Older(child[m][r], k) BY <1>2, <1>4, <1>7 DEF Older
<1>9. /\ made' = [made EXCEPT ![m] = made[m]] /\ k.job <= made[m]
      /\ made[m] <= made[m] /\ made[m] <= retries' + 1 /\ made[m] \in Ids
      /\ retries' \in 0 .. MaxRetries[N] /\ retries <= retries'
  BY <1>2, <1>3, <1>4, <1>7 DEF CountOK
<1>10. GitLabOK' /\ Grows BY <1>1, <1>2, <1>4, <1>6, <1>7, <1>8, <1>9, ChildChanges
<1> QED BY <1>2, <1>10, WorldChanges

LEMMA RetryBuildStep ==
  ASSUME GraphInv, NEW m \in Members, NEW r \in Ids, RetryBuild(m, r) PROVE GraphInv'
<1>1. Shape BY DEF GraphInv
<1>2. /\ parents' = parents /\ freezer' = freezer
      /\ retries' = retries + 1 /\ retries < MaxRetries[N]
      /\ UNCHANGED <<graph, notes, receipt>> /\ r \in DOMAIN child[m]
      /\ child' = [child EXCEPT ![m][r].job = made[m] + 1, ![m][r].state = "running"]
      /\ made' = [made EXCEPT ![m] = made[m] + 1]
  BY DEF RetryBuild, Again, NewJob, graph
<1>3. /\ CountOK(m) /\ made[m] \in Nat /\ retries \in Nat /\ MaxRetries[N] \in Nat
      /\ Ids = 0 .. MaxRetries[N] + 1 /\ child \in [Members -> Seq(Kids)]
  BY Counters
<1>4. r \in 1 .. Len(child[m]) /\ child[m][r] \in Kids /\ child[m][r].job \in Nat
  BY <1>1, <1>2, ChildFacts
<1> DEFINE n == made[m] + 1
           k == [child[m][r] EXCEPT !.job = n, !.state = "running"]
<1>5. n \in Nat /\ n \in Ids /\ made[m] <= n /\ n <= retries' + 1 /\ made[m] < n
      /\ retries' \in 0 .. MaxRetries[N] /\ retries <= retries' /\ child[m][r].job <= made[m]
  BY <1>2, <1>3, <1>4 DEF CountOK
<1> HIDE DEF n
<1>6. child' = [child EXCEPT ![m] = [child[m] EXCEPT ![r] = k]]
  <2>1. child' = [child EXCEPT ![m][r].job = n, ![m][r].state = "running"] BY <1>2 DEF n
  <2> QED BY <1>3, <1>4, <2>1
<1>7. k \in Kids /\ k.job = n /\ k.input = child[m][r].input BY <1>4, <1>5 DEF Kids
<1> HIDE DEF k
<1>8. Older(child[m][r], k) BY <1>3, <1>4, <1>5, <1>7 DEF Older
<1>9. made' = [made EXCEPT ![m] = n] /\ k.job <= n BY <1>2, <1>5, <1>7 DEF n
<1>10. GitLabOK' /\ Grows BY <1>1, <1>2, <1>4, <1>5, <1>6, <1>7, <1>8, <1>9, ChildChanges
<1> QED BY <1>2, <1>10, WorldChanges

LEMMA EraseStep == ASSUME GraphInv, NEW m \in Members, Erase(m) PROVE GraphInv'
<1>1. Shape BY DEF GraphInv
<1>2. /\ parents' = parents /\ made' = made /\ retries' = retries + 1 /\ retries < MaxRetries[N]
      /\ UNCHANGED <<graph, notes, receipt>>
  BY DEF Erase, Again, graph
<1>3. /\ CountOK(m) /\ made \in [Members -> Ids] /\ made[m] \in Nat /\ retries \in Nat
      /\ MaxRetries[N] \in Nat /\ child \in [Members -> Seq(Kids)]
      /\ freezer \in [Members -> Freezers] /\ freezer[m] \in Freezers /\ freezer[m].id \in Nat
  BY Counters
<1>4. retries' \in 0 .. MaxRetries[N] /\ retries <= retries' BY <1>2, <1>3
<1>5. CASE freezer[m].state = "success" /\ child' = child
           /\ freezer' = [freezer EXCEPT ![m].state = "erased"]
  <2> DEFINE f == [freezer[m] EXCEPT !.state = "erased"]
  <2>1. freezer' = [freezer EXCEPT ![m] = f] BY <1>5
  <2>2. /\ f \in Freezers /\ f.state = "erased" /\ f.id = freezer[m].id
        /\ f.base = freezer[m].base
    BY <1>3 DEF Freezers
  <2> HIDE DEF f
  <2>3. freezer[m].id <= retries + 1 BY <1>3, <1>5 DEF CountOK
  <2>4. f.id <= retries' + (IF f.state = "waiting" THEN 0 ELSE 1) BY <1>2, <1>3, <2>2, <2>3
  <2>5. GitLabOK' /\ Grows BY <1>1, <1>2, <1>4, <1>5, <2>1, <2>2, <2>4, FreezerChanges
  <2>6. \A x \in Members :
          \/ freezer'[x] = freezer[x]
          \/ /\ freezer[x].state = "success" /\ freezer'[x].state = "erased"
             /\ freezer'[x].base = freezer[x].base
    BY <1>3, <1>5, <2>1, <2>2
  <2> QED BY <1>2, <2>5, <2>6, WorldChanges
<1>6. ASSUME NEW r \in DOMAIN child[m], child[m][r].state = "success", freezer' = freezer,
             child' = [child EXCEPT ![m][r].state = "erased"]
      PROVE  GraphInv'
  <2>1. r \in 1 .. Len(child[m]) /\ child[m][r] \in Kids /\ child[m][r].job \in Nat
    BY <1>1, <1>6, ChildFacts
  <2> DEFINE k == [child[m][r] EXCEPT !.state = "erased"]
  <2>2. child' = [child EXCEPT ![m] = [child[m] EXCEPT ![r] = k]] BY <1>3, <1>6, <2>1
  <2>3. /\ k \in Kids /\ k.job = child[m][r].job /\ k.input = child[m][r].input
        /\ k.state = "erased"
    BY <2>1 DEF Kids
  <2> HIDE DEF k
  <2>4. Older(child[m][r], k) BY <1>6, <2>1, <2>3 DEF Older
  <2>5. /\ made' = [made EXCEPT ![m] = made[m]] /\ k.job <= made[m]
        /\ made[m] <= made[m] /\ made[m] <= retries' + 1 /\ made[m] \in Ids
    BY <1>2, <1>3, <2>1, <2>3 DEF CountOK
  <2>6. GitLabOK' /\ Grows
    BY <1>1, <1>2, <1>4, <1>6, <2>1, <2>2, <2>3, <2>4, <2>5, ChildChanges
  <2> QED BY <1>2, <1>6, <2>6, WorldChanges
<1> QED BY <1>5, <1>6 DEF Erase

LEMMA AcceptorBegins ==
  ASSUME GraphInv, UNCHANGED <<graph, gitlab, receipt>>, NEW p \in {Accept, Envelope},
         receipt[p] = Blank(NoResult), NEW known \in Lineages, Begin(p, known),
         AsksAll(p, Append(Program(p), TheEnd))
  PROVE  GraphInv'
<1>1. Shape /\ parents \in Requests BY DEF GraphInv, Shape
<1>2. parents' = parents /\ order' = order /\ UNCHANGED gitlab /\ receipt' = receipt
  BY DEF graph
<1>3. p \in Readers BY <1>1, ShapeFacts
<1>4. NotesOK' /\ OthersKeep(p) /\ AsksAll(p, reads'[p]) BY <1>1, <1>2, <1>3, BeginNotes
<1>5. ReaderInv(p)' BY <1>1, <1>2, <1>3, <1>4, ReaderBegins
<1>6. AcceptedOK(p)'
  <2>1. Blank(NoResult)' = Blank(NoResult) BY <1>2, Fixed
  <2> QED BY <1>2, <2>1 DEF AcceptedOK
<1>7. receipt' \in [Readers -> Results] BY <1>1, <1>2 DEF Shape
<1>8. p = Accept => BasesAreParents' /\ BasesAccepted'
  <2> SUFFICES ASSUME p = Accept PROVE BasesAreParents' /\ BasesAccepted' OBVIOUS
  <2>1. Asks(Accept) = Members BY DEF Asks
  <2>2. Members' = Members BY <1>2, Fixed
  <2>3. \A m \in Members : Holds(reads'[Accept], <<"edge", m>>)
    BY <1>4, <2>1 DEF AsksAll
  <2>4. \A m \in Members : Left(Accept, "edge", m)' BY <2>3 DEF Left, Holds
  <2>5. BasesAreParents' BY <2>2, <2>4 DEF BasesAreParents
  <2>6. BasesAccepted' BY <1>2, BasesAcceptedKeep DEF GraphInv
  <2> QED BY <2>5, <2>6
<1>9. \A x \in Readers : x # p => receipt'[x] = receipt[x] BY <1>2
<1> QED BY <1>2, <1>4, <1>5, <1>6, <1>7, <1>8, <1>9, AcceptorStep

LEMMA StartAcceptStep == ASSUME GraphInv, StartAccept PROVE GraphInv'
<1>1. Shape /\ parents \in Requests /\ OrderInv BY DEF GraphInv, Shape
<1>2. /\ UNCHANGED <<graph, gitlab, receipt>> /\ receipt[Accept] = Blank(NoResult)
      /\ order # <<>> /\ Begin(Accept, Blank(NoLineage))
  BY DEF StartAccept
<1>3. AsksAll(Accept, Append(Program(Accept), TheEnd))
  BY <1>1, <1>2, AcceptProgram DEF OrderInv
<1>4. Blank(NoLineage) \in Lineages BY <1>1, ShapeFacts
<1> QED BY <1>2, <1>3, <1>4, AcceptorBegins

LEMMA StartEnvelopeStep == ASSUME GraphInv, StartEnvelope PROVE GraphInv'
<1>1. parents \in Requests BY DEF GraphInv, Shape
<1>2. PICK r \in [Members -> Ids \ {0}] :
        Begin(Envelope, [m \in Members |-> [freezer |-> 0, route |-> r[m]]])
  BY DEF StartEnvelope
<1> DEFINE known == [m \in Members |-> [freezer |-> 0, route |-> r[m]]]
<1>3. known \in Lineages
  <2>1. 0 \in Ids BY <1>1, ShapeFacts
  <2> QED BY <2>1 DEF Lineages
<1>4. Begin(Envelope, known) BY <1>2
<1> HIDE DEF known
<1>5. UNCHANGED <<graph, gitlab, receipt>> /\ receipt[Envelope] = Blank(NoResult)
  BY DEF StartEnvelope
<1>6. AsksAll(Envelope, Append(Program(Envelope), TheEnd)) BY <1>1, EnvelopeProgram
<1> QED BY <1>3, <1>4, <1>5, <1>6, AcceptorBegins

\* What is accepted is what was kept.
LEMMA RecordStep == ASSUME GraphInv, NEW p \in Readers, Record(p) PROVE GraphInv'
<1>1. Shape /\ parents \in Requests /\ NotesOK BY DEF GraphInv, Shape
<1>2. /\ parents' = parents /\ order' = order /\ UNCHANGED gitlab /\ Rest(p) /\ Done(p)
      /\ p \in {Accept, Envelope}
  BY DEF Record, graph
<1> DEFINE all == [m \in Members |-> [job |-> edges[p][m].job, base |-> edges[p][m].base]]
<1>3. receipt' = [receipt EXCEPT ![p] = all] BY DEF Record
<1>4. receipt \in [Readers -> Results] /\ moment[p] \in Results BY <1>1 DEF Shape, NotesOK
<1>5. \A m \in Members : moment[p][m] = [job |-> edges[p][m].job, base |-> edges[p][m].base]
  <2>1. Asks(p) = Members BY <1>2 DEF Asks
  <2>2. \A m \in Members : Kept(p, m) BY <1>2, <2>1, KeptAtTheEnd
  <2> QED BY <2>2 DEF Kept
<1>6. all = moment[p] BY <1>4, <1>5 DEF Results
<1> HIDE DEF all
<1>7. receipt' \in [Readers -> Results] /\ receipt'[p] = moment[p] BY <1>3, <1>4, <1>6
<1>8. NotesOK' /\ OthersKeep(p) /\ reads'[p] = <<>> /\ moment' = moment
  BY <1>1, <1>2, RestNotes
<1>9. ReaderInv(p)' BY <1>8 DEF ReaderInv, Reading
<1>10. AcceptedOK(p)' BY <1>7, <1>8 DEF AcceptedOK, Reading
<1>11. p = Accept => BasesAreParents' /\ BasesAccepted'
  <2> SUFFICES ASSUME p = Accept PROVE BasesAreParents' /\ BasesAccepted' OBVIOUS
  <2>1. BasesAreParents' BY <1>8 DEF BasesAreParents, Reading
  <2>2. \A m \in Members : \A q \in parents[m] : edges[Accept][m].base[q] = edges[Accept][q].job
    <3>1. Reading(Accept) BY <1>2 DEF Done, Reading
    <3>2. \A m : ~ Left(Accept, "edge", m) BY <1>2, KeptAtTheEnd
    <3>3. BasesAreParents BY DEF GraphInv
    <3> QED BY <3>1, <3>2, <3>3 DEF BasesAreParents
  <2>3. \A m \in Members : \A q \in parents[m] : q \in Members BY <1>1, ShapeFacts
  <2>4. \A m \in Members : \A q \in parents[m] :
          moment[Accept][m].base[q] = moment[Accept][q].job
    <3> TAKE m \in Members
    <3> TAKE q \in parents[m]
    <3>1. q \in Members BY <2>3
    <3>2. /\ moment[Accept][m] = [job |-> edges[Accept][m].job, base |-> edges[Accept][m].base]
          /\ moment[Accept][q] = [job |-> edges[Accept][q].job, base |-> edges[Accept][q].base]
      BY <1>5, <3>1
    <3>3. edges[Accept][m].base[q] = edges[Accept][q].job BY <2>2
    <3> QED BY <3>2, <3>3
  <2>5. Members' = Members BY <1>2, Fixed
  <2>6. BasesAccepted' BY <1>2, <1>7, <2>4, <2>5 DEF BasesAccepted
  <2> QED BY <2>1, <2>6
<1>12. \A x \in Readers : x # p => receipt'[x] = receipt[x] BY <1>3, <1>4
<1> QED BY <1>2, <1>7, <1>8, <1>9, <1>10, <1>11, <1>12, AcceptorStep

LEMMA RefuseStep == ASSUME GraphInv, NEW p \in Readers, Refuse(p) PROVE GraphInv'
<1>1. Shape BY DEF GraphInv
<1>2. /\ parents' = parents /\ order' = order /\ UNCHANGED gitlab /\ receipt' = receipt
      /\ p \in {Accept, Envelope} /\ Reading(p)
  BY DEF Refuse, graph
<1>3. NotesOK' /\ OthersKeep(p) /\ reads'[p] = <<>> BY <1>1, <1>2, RefuseNotes
<1>4. ReaderInv(p)' BY <1>3 DEF ReaderInv, Reading
<1>5. AcceptedOK(p)'
  <2>1. receipt[p] = Blank(NoResult) BY <1>2 DEF GraphInv, AcceptedOK
  <2>2. Blank(NoResult)' = Blank(NoResult) BY <1>2, Fixed
  <2> QED BY <1>2, <2>1, <2>2 DEF AcceptedOK
<1>6. receipt' \in [Readers -> Results] BY <1>1, <1>2 DEF Shape
<1>7. p = Accept => BasesAreParents' /\ BasesAccepted'
  <2>1. p = Accept => BasesAreParents' BY <1>3 DEF BasesAreParents, Reading
  <2>2. BasesAccepted' BY <1>2, BasesAcceptedKeep DEF GraphInv
  <2> QED BY <2>1, <2>2
<1> QED BY <1>2, <1>3, <1>4, <1>5, <1>6, <1>7, AcceptorStep

LEMMA ReadStep == ASSUME GraphInv, NEW p \in Readers, Read(p) PROVE GraphInv'
<1>1. Shape /\ ReaderInv(p) /\ parents \in Requests BY DEF GraphInv, Shape
<1>2. /\ parents' = parents /\ order' = order /\ UNCHANGED gitlab /\ receipt' = receipt
      /\ Reading(p)
  BY DEF Read, graph
<1>3. NotesOK' /\ OthersKeep(p) BY <1>1, ReadNotes
<1>4. ReaderInv(p)' BY <1>1, ReaderReads
<1>5. CASE p \in Members
  <2>1. freezer[p].state = "running" /\ freezer' = freezer
    BY <1>2, <1>5 DEF GraphInv, PublishedOK, gitlab
  <2>2. PublishedOK(p)' BY <2>1 DEF PublishedOK
  <2>3. GitLabOK' /\ Grows BY <1>1, <1>2, GitLabRests
  <2> QED BY <1>2, <1>3, <1>4, <1>5, <2>1, <2>2, <2>3, MemberStep
<1>6. CASE p \in {Accept, Envelope}
  <2>1. AcceptedOK(p)'
    <3>1. receipt[p] = Blank(NoResult) BY <1>2, <1>6 DEF GraphInv, AcceptedOK
    <3>2. Blank(NoResult)' = Blank(NoResult) BY <1>2, Fixed
    <3> QED BY <1>2, <3>1, <3>2 DEF AcceptedOK
  <2>2. receipt' \in [Readers -> Results] BY <1>1, <1>2 DEF Shape
  <2>3. p = Accept => BasesAreParents' /\ BasesAccepted'
    <3>1. p = Accept => BasesAreParents' BY <1>1, BasesRead DEF GraphInv
    <3>2. BasesAccepted' BY <1>2, BasesAcceptedKeep DEF GraphInv
    <3> QED BY <3>1, <3>2
  <2> QED BY <1>2, <1>3, <1>4, <1>6, <2>1, <2>2, <2>3, AcceptorStep
<1> QED BY <1>1, <1>5, <1>6, ShapeFacts

LEMMA GraphStep == ASSUME GraphInv, [GraphNext]_graphVars PROVE GraphInv'
<1>1. CASE UNCHANGED graphVars BY <1>1, StutterStep
<1>2. CASE GraphNext
  <2>1. ASSUME NEW m \in Members,
               \/ StartFreezer(m) \/ PublishInputs(m) \/ FreezerFails(m)
               \/ Trigger(m) \/ RetryFreezer(m) \/ RetryBridge(m) \/ Erase(m)
               \/ \E r \in Ids : Finish(m, r) \/ RetryBuild(m, r)
        PROVE  GraphInv'
    BY <2>1, StartFreezerStep, PublishInputsStep, FreezerFailsStep, TriggerStep,
       RetryFreezerStep, RetryBridgeStep, EraseStep, FinishStep, RetryBuildStep
  <2>2. ASSUME NEW p \in Readers, Read(p) \/ Record(p) \/ Refuse(p) PROVE GraphInv'
    BY <2>2, ReadStep, RecordStep, RefuseStep
  <2> QED BY <1>2, <2>1, <2>2, CompileStep, StartAcceptStep, StartEnvelopeStep DEF GraphNext
<1> QED BY <1>1, <1>2

LEMMA GraphStart == ASSUME GraphInit PROVE GraphInv
<1>1. /\ parents \in Requests /\ order = <<>>
      /\ freezer = Blank([id |-> 0, base |-> NoInput, state |-> "waiting"])
      /\ child = Blank(<<>>) /\ made = Blank(0) /\ retries = 0
      /\ reads = [p \in Readers |-> <<>>]
      /\ lineage = [p \in Readers |-> Blank(NoLineage)]
      /\ edges = [p \in Readers |-> Blank(NoEdge)]
      /\ receipt = [p \in Readers |-> Blank(NoResult)]
      /\ moment = [p \in Readers |-> Blank(NoResult)]
  BY DEF GraphInit
<1>2. /\ Members \subseteq Readers /\ Accept \in Readers /\ Envelope \in Readers
      /\ Blank(NoLineage) \in Lineages /\ Blank(NoEdge) \in EdgeNotes
      /\ Blank(NoResult) \in Results /\ NoInput \in Inputs
      /\ MaxRetries[N] \in Nat /\ Ids = 0 .. MaxRetries[N] + 1
  BY <1>1, ShapeFacts
<1>3. NotesOK BY <1>1, <1>2 DEF NotesOK
<1>4. GitLabOK
  <2>1. freezer \in [Members -> Freezers] BY <1>1, <1>2 DEF Blank, Freezers
  <2>2. child \in [Members -> Seq(Kids)] /\ \A m \in Members : child[m] = <<>> BY <1>1 DEF Blank
  <2>3. made \in [Members -> Ids] /\ \A m \in Members : made[m] = 0 BY <1>1, <1>2 DEF Blank
  <2>4. \A m \in Members : freezer[m].id = 0 /\ freezer[m].state = "waiting"
    BY <1>1 DEF Blank
  <2>5. \A m \in Members : CountOK(m) BY <1>1, <2>2, <2>3, <2>4 DEF CountOK
  <2> QED BY <1>1, <1>2, <2>1, <2>2, <2>3, <2>5 DEF GitLabOK
<1>5. Shape BY <1>1, <1>2, <1>3, <1>4 DEF Shape, OrderInv
<1>6. \A p \in Readers : ~ Reading(p) /\ receipt[p] = Blank(NoResult)
  BY <1>1 DEF Reading
<1>7. \A m \in Members : PublishedOK(m)
  <2>1. \A m \in Members : freezer[m].state = "waiting" BY <1>1 DEF Blank
  <2> QED BY <1>2, <1>6, <2>1 DEF PublishedOK
<1> QED BY <1>2, <1>5, <1>6, <1>7
    DEF GraphInv, ReaderInv, AcceptedOK, BasesAreParents, BasesAccepted

LEMMA GraphSafe == ASSUME GraphInv PROVE AcceptedIsOneGraph
BY DEF GraphInv, PublishedOK, AcceptedOK, BasesAccepted, AcceptedIsOneGraph

-----------------------------------------------------------------------------
(***************************************************************************)
(* The types of the roots.  What a job carries from one read to the next   *)
(* is typed by where the job is.                                           *)
(***************************************************************************)
Locations == {"idle", "parents", "child", "place", "reserve", "materialize", "repos", "extract",
           "compare", "seal", "sealed", "receipt", "publish", "create", "fill", "match",
           "close", "check", "record", "pack", "append", "tally"}
Chores == [kind : {"none", "provision", "finish", "receive", "export"}, place : Stagings]
Knowing == (Finishing \ {"materialize", "extract"}) \cup {"append", "tally"}

\* What a copy holds before its second half is there.
Copied == Builds \cup {Foreign} \cup {<<v, "none">> : v \in Versions}
Records == [content : Builds, id : 1 .. MaxJobs] \cup {Missing, Torn}

WordsOK ==
  /\ packing \in BOOLEAN /\ archive \in Copied \cup {Missing}
  /\ told \in Builds \cup {Missing, Torn} /\ ancestors \in 0 .. 2
  /\ root.content \in RootContents
  /\ materialized \in [Stagings -> Builds \cup {Missing, Torn}]
  /\ finished \in [Stagings -> Records]
  /\ \A p \in Stagings : staging[p].content \in RootContents

\* A root is made anew only after another one was destroyed.
CountsOK ==
  /\ jobs \in Nat /\ tampers \in 0 .. MaxTampers /\ jobs + tampers <= MaxJobs
  /\ root.id <= tampers + (IF root.made THEN 1 ELSE 0)
  /\ root.made => jobs # 0
  /\ \A p \in Stagings : fills[p] # 0 => jobs # 0
  /\ \A j \in Jobs : jobAt[j] # "idle" => jobs # 0

JobOK(j) ==
  /\ jobAt[j] \in Locations /\ task[j] \in Chores
  /\ saw[j] \in RootContents \cup {Missing} /\ noted[j] <= MaxJobs + 2
  /\ jobAt[j] \in Noting => noted[j] # 0
  /\ jobAt[j] \in Knowing => saw[j] \in Builds
  /\ jobAt[j] = "reserve" => task[j].kind \in {"finish", "receive"}
  /\ jobAt[j] = "extract" \/ (jobAt[j] = "reserve" /\ ~ Local(j)) => told \in Builds
  /\ jobAt[j] = "append" => archive \in Copied
  /\ jobAt[j] = "repos" /\ staging[task[j].place].state = "made" =>
       staging[task[j].place].content \in Copied

RootTypes == WordsOK /\ CountsOK /\ \A j \in Jobs : JobOK(j)


LEMMA BuildFacts ==
  /\ Builds \subseteq Copied /\ Copied \subseteq RootContents
  /\ Empty \in RootContents /\ Foreign \in Copied /\ Foreign \in RootContents
  /\ \A v, w \in Versions : <<v, w>> \in Builds
  /\ \A v \in Versions : <<v, "none">> \in Copied
  /\ \A c \in Copied, v \in Versions : c = Foreign \/ <<c[1], v>> \in Builds
<1>1. \A v, w \in Versions : <<v, w>> \in Builds BY DEF Builds
<1>2. \A c \in Copied, v \in Versions : c = Foreign \/ <<c[1], v>> \in Builds
  BY DEF Copied, Builds
<1> QED BY <1>1, <1>2 DEF Copied, RootContents

\* What the contents of the stagings become.
LEMMA ContentMoves ==
  ASSUME NEW j \in Jobs, RootInv, RootTypes, JobStep(j) \/ Tamper
  PROVE  \A p \in Stagings :
           /\ staging'[p].content \in RootContents
           /\ \/ staging'[p].content = staging[p].content
              \/ staging'[p].content = Foreign \/ staging'[p].state # "made"
              \/ /\ JobStep(j) /\ p = task[j].place
                 /\ jobAt[j] \in {"materialize", "repos", "extract"}
<1> DEFINE place == task[j].place
           Typed == \A p \in Stagings :
             /\ staging'[p].content \in RootContents
             /\ \/ staging'[p].content = staging[p].content
                \/ staging'[p].content = Foreign \/ staging'[p].state # "made"
                \/ /\ JobStep(j) /\ p = task[j].place
                   /\ jobAt[j] \in {"materialize", "repos", "extract"}
<1> SUFFICES Typed OBVIOUS
<1>0. /\ staging \in [Stagings -> StagingRows] /\ place \in Stagings
      /\ \A p \in Stagings : staging[p].content \in RootContents
      /\ layer \in Versions /\ repos \in Versions
  BY DEF RootInv, RootShape, RootTypes, WordsOK
<1>1. ASSUME UNCHANGED staging PROVE Typed BY <1>0, <1>1
<1> HIDE DEF place
<1>2. ASSUME NEW p \in Stagings, NEW row \in StagingRows, row.content = staging[p].content,
             staging' = [staging EXCEPT ![p] = row]
      PROVE  Typed
  BY <1>0, <1>2
<1>3. CASE MakeStaging(j)
  <2> DEFINE row == [staging[place] EXCEPT !.state = "made"]
  <2>1. staging' = [staging EXCEPT ![place] = row]
    BY <1>3, <1>0 DEF MakeStaging, Place, place
  <2>2. row \in StagingRows /\ row.content = staging[place].content
    BY <1>0, SetState, Zenon DEF States
  <2> HIDE DEF row, Typed
  <2> QED BY <1>0, <1>2, <2>1, <2>2
<1>4. CASE RecordPlacement(j)
  <2> DEFINE row == [staging[place] EXCEPT !.placed = TRUE]
  <2>1. staging' = [staging EXCEPT ![place] = row]
    BY <1>4, <1>0 DEF RecordPlacement, Place, place
  <2>2. row \in StagingRows /\ row.content = staging[place].content
    BY <1>0, SetPlaced, Zenon
  <2> HIDE DEF row, Typed
  <2> QED BY <1>0, <1>2, <2>1, <2>2
<1>5. CASE Seal(j)
  <2> DEFINE row == [staging[place] EXCEPT !.sealed = TRUE]
  <2>1. staging' = [staging EXCEPT ![place] = row]
    BY <1>5, <1>0 DEF Seal, Place, place
  <2>2. row \in StagingRows /\ row.content = staging[place].content
    BY <1>0, SetSealed, Zenon
  <2> HIDE DEF row, Typed
  <2> QED BY <1>0, <1>2, <2>1, <2>2
<1>6. ASSUME NEW p \in Stagings, NEW c \in RootContents,
             staging' = [staging EXCEPT ![p].content = c],
             \/ c = Foreign
             \/ JobStep(j) /\ p = place /\ jobAt[j] \in {"materialize", "repos", "extract"}
      PROVE  Typed
  <2> DEFINE row == [staging[p] EXCEPT !.content = c]
  <2>1. staging' = [staging EXCEPT ![p] = row] BY <1>0, <1>6
  <2>2. row.content = c BY <1>0, SetContent, PairFacts, Zenon
  <2> HIDE DEF row
  <2> QED BY <1>0, <1>6, <2>1, <2>2 DEF place
<1>7. CASE CopyLayer(j)
  <2>1. jobAt[j] = "materialize" /\ staging' = [staging EXCEPT ![place].content = <<layer, "none">>]
    BY <1>7 DEF CopyLayer, Fill, Place, JobMoves, place
  <2>2. <<layer, "none">> \in RootContents BY <1>0, BuildFacts
  <2>3. JobStep(j) BY <1>7 DEF JobStep
  <2> HIDE DEF Typed
  <2> QED BY <1>0, <1>6, <2>1, <2>2, <2>3
<1>8. CASE CopyRepositories(j)
  <2> DEFINE c == IF staging[place].content = Foreign THEN Foreign
                  ELSE <<staging[place].content[1], repos>>
  <2>1. /\ Writable(place) /\ jobAt[j] = "repos"
        /\ staging' = [staging EXCEPT ![place].content = c]
    BY <1>8, <1>0 DEF CopyRepositories, Place, JobMoves, place
  <2>2. staging[place].content \in Copied BY <2>1 DEF RootTypes, JobOK, Writable, place
  <2>3. c \in RootContents BY <1>0, <2>2, BuildFacts
  <2>4. JobStep(j) BY <1>8 DEF JobStep
  <2> HIDE DEF c, Typed
  <2> QED BY <1>0, <1>6, <2>1, <2>3, <2>4
<1>9. CASE Extract(j)
  <2>1. /\ jobAt[j] = "extract"
        /\ \E c \in RootContents : staging' = [staging EXCEPT ![place].content = c]
    BY <1>9, BuildFacts, Zenon DEF Extract, Fill, Place, JobMoves, place
  <2>2. JobStep(j) BY <1>9 DEF JobStep
  <2> HIDE DEF Typed
  <2> QED BY <1>0, <1>6, <2>1, <2>2
<1>10. CASE Tamper
  <2>1. CASE \E p \in Stagings : staging' = [staging EXCEPT ![p].content = Foreign]
    <3> HIDE DEF Typed
    <3> QED BY <1>6, <2>1, BuildFacts
  <2>2. ASSUME NEW p \in Stagings,
               staging' = [staging EXCEPT ![p].state = "gone", ![p].content = Empty,
                                          ![p].sealed = FALSE]
        PROVE  Typed
    <3> DEFINE first == [staging[p] EXCEPT !.state = "gone"]
               second == [first EXCEPT !.content = Empty]
               row == [second EXCEPT !.sealed = FALSE]
    <3>1. staging' = [staging EXCEPT ![p] = row] BY <1>0, <2>2
    <3>2. first \in StagingRows /\ first.state = "gone"
      BY <1>0, SetState, Zenon DEF States
    <3> HIDE DEF first
    <3>3. second \in StagingRows /\ second.state = "gone" /\ second.content = Empty
      BY <3>2, SetContent, PairFacts, Zenon
    <3> HIDE DEF second
    <3>4. row \in StagingRows /\ row.state = "gone" /\ row.content = Empty
      BY <3>3, SetSealed, Zenon
    <3> HIDE DEF row
    <3> QED BY <1>0, <3>1, <3>4, BuildFacts
  <2> HIDE DEF Typed
  <2> QED BY <1>1, <1>10, <2>1, <2>2, Zenon DEF Tamper
<1>11. CASE /\ JobStep(j) /\ ~MakeStaging(j) /\ ~RecordPlacement(j) /\ ~Seal(j)
            /\ ~CopyLayer(j) /\ ~CopyRepositories(j) /\ ~Extract(j)
  <2>1. UNCHANGED staging
    BY <1>11 DEF JobStep, Provision, MakeParent, Export, Pack, AppendRepositories, Tally,
         AdmitRoot, ReserveRoot, CompareRoot, CheckSeal, RecordMaterialized, PublishRoot,
         Create, FillRoot, Match, Close, Check, RecordRoot, StopJob
  <2> HIDE DEF Typed
  <2> QED BY <1>1, <2>1
<1> HIDE DEF Typed
<1> QED BY <1>3, <1>4, <1>5, <1>7, <1>8, <1>9, <1>10, <1>11


LEMMA ArchiveStep ==
  ASSUME NEW j \in Jobs, RootInv, RootTypes, JobStep(j) \/ Tamper
  PROVE  archive' \in Copied \cup {Missing} /\ (archive \in Copied => archive' \in Copied)
<1>0. /\ archive \in Copied \cup {Missing} /\ JobOK(j)
      /\ layer \in Versions /\ repos \in Versions
  BY DEF RootInv, RootShape, RootTypes, WordsOK
<1>1. CASE (JobStep(j) \/ Tamper) /\ ~ Pack(j) /\ ~ AppendRepositories(j)
  <2>1. archive' \in {archive, Foreign}
    BY <1>1, Zenon DEF JobStep, Tamper, bundle, Provision, MakeParent, MakeStaging,
                RecordPlacement, Export, Tally, AdmitRoot, ReserveRoot, CopyLayer,
                CopyRepositories, Extract, CompareRoot, Seal, CheckSeal,
                RecordMaterialized, PublishRoot, Create, FillRoot, Match, Close, Check,
                RecordRoot, StopJob
  <2> QED BY <1>0, <2>1, BuildFacts
<1>2. CASE Pack(j) BY <1>0, <1>2, BuildFacts DEF Pack
<1>3. CASE AppendRepositories(j)
  <2>1. archive \in Copied BY <1>0, <1>3 DEF AppendRepositories, JobMoves, JobOK
  <2> QED BY <1>0, <1>3, <2>1, BuildFacts DEF AppendRepositories
<1> QED BY <1>1, <1>2, <1>3

LEMMA JobsDoNotTamper ==
  ASSUME NEW j \in Jobs, JobStep(j)
  PROVE  tampers' = tampers
BY DEF JobStep, rest, Provision, MakeParent, MakeStaging, RecordPlacement, Export,
       Pack, AppendRepositories, Tally, AdmitRoot, ReserveRoot, CopyLayer,
       CopyRepositories, Extract, CompareRoot, Seal, CheckSeal, RecordMaterialized,
       PublishRoot, Create, FillRoot, Match, Close, Check, RecordRoot, StopJob

LEMMA WordsStep ==
  ASSUME NEW j \in Jobs, RootInv, RootTypes, JobStep(j) \/ Tamper
  PROVE  WordsOK'
<1>1. /\ RootShape /\ WordsOK /\ JobOK(j) /\ CountsOK /\ task[j].place \in Stagings
      /\ layer \in Versions /\ repos \in Versions
  BY DEF RootInv, RootShape, RootTypes
<1>2. packing' \in BOOLEAN
  <2>1. packing' \in {packing, TRUE}
    BY Zenon DEF JobStep, Tamper, bundle, Provision, MakeParent, MakeStaging, RecordPlacement,
                Export, Pack, AppendRepositories, Tally, AdmitRoot, ReserveRoot, CopyLayer,
                CopyRepositories, Extract, CompareRoot, Seal, CheckSeal, RecordMaterialized,
                PublishRoot, Create, FillRoot, Match, Close, Check, RecordRoot, StopJob
  <2> QED BY <1>1, <2>1 DEF WordsOK
<1>3. archive' \in Copied \cup {Missing} BY ArchiveStep
<1>4. told' \in Builds \cup {Missing, Torn}
  <2>1. CASE (JobStep(j) \/ Tamper) /\ ~ Tally(j) /\ ~ StopJob(j)
    <3>1. told' = told
      BY <2>1, Zenon DEF JobStep, Tamper, bundle, Provision, MakeParent, MakeStaging,
                  RecordPlacement, Export, Pack, AppendRepositories, AdmitRoot, ReserveRoot,
                  CopyLayer, CopyRepositories, Extract, CompareRoot, Seal, CheckSeal,
                  RecordMaterialized, PublishRoot, Create, FillRoot, Match, Close, Check,
                  RecordRoot
    <3> QED BY <1>1, <3>1 DEF WordsOK
  <2>2. CASE Tally(j) BY <1>1, <2>2 DEF Tally, JobMoves, JobOK, Knowing
  <2>3. CASE StopJob(j) BY <1>1, <2>3 DEF StopJob, WordsOK
  <2> QED BY <2>1, <2>2, <2>3
<1>5. ancestors' \in 0 .. 2
  <2>1. CASE (JobStep(j) \/ Tamper) /\ ~ MakeParent(j)
    <3>1. ancestors' = ancestors
      BY <2>1, Zenon DEF JobStep, Tamper, rest, Provision, MakeStaging, RecordPlacement, Export,
                  Pack, AppendRepositories, Tally, AdmitRoot, ReserveRoot, CopyLayer,
                  CopyRepositories, Extract, CompareRoot, Seal, CheckSeal,
                  RecordMaterialized, PublishRoot, Create, FillRoot, Match, Close, Check,
                  RecordRoot, StopJob
    <3> QED BY <1>1, <3>1 DEF WordsOK
  <2>2. CASE MakeParent(j) BY <1>1, <2>2 DEF MakeParent, WordsOK
  <2> QED BY <2>1, <2>2
<1>6. root'.content \in RootContents
  <2>0. root \in RootRows BY <1>1 DEF RootShape
  <2>1. CASE FillRoot(j)
    <3>1. staging[task[j].place].content \in RootContents BY <1>1 DEF WordsOK
    <3>2. \E c \in RootContents : root' = [root EXCEPT !.content = c]
      BY <2>1, <3>1, BuildFacts DEF FillRoot, Place
    <3> QED BY <2>0, <3>2, RootContent, PairFacts, Zenon
  <2>2. CASE Tamper
    <3>1. CASE root' = [root EXCEPT !.content = Foreign]
      BY <2>0, <3>1, RootContent, PairFacts, BuildFacts, Zenon
    <3>2. CASE root' = [root EXCEPT !.made = FALSE, !.reserved = FALSE,
                                    !.sealed = FALSE, !.content = Empty]
      <4>1. root'.content = Empty BY <2>0, <3>2 DEF RootRows
      <4> QED BY <4>1, BuildFacts
    <3>3. CASE UNCHANGED root BY <1>1, <3>3 DEF WordsOK
    <3> QED BY <2>2, <3>1, <3>2, <3>3, Zenon DEF Tamper
  <2>3. CASE PublishRoot(j)
    <3>1. root' = [root EXCEPT !.reserved = TRUE] BY <2>3 DEF PublishRoot
    <3>2. root'.content = root.content BY <2>0, <3>1, RootReserved, Zenon
    <3> QED BY <1>1, <3>2 DEF WordsOK
  <2>4. CASE Create(j)
    <3>1. root'.content = root.content BY <2>0, <2>4 DEF Create, RootRows
    <3> QED BY <1>1, <3>1 DEF WordsOK
  <2>5. CASE Close(j)
    <3>1. root' = [root EXCEPT !.sealed = TRUE] BY <2>5 DEF Close
    <3>2. root'.content = root.content BY <2>0, <3>1, RootSealed, Zenon
    <3> QED BY <1>1, <3>2 DEF WordsOK
  <2>6. CASE /\ JobStep(j) /\ ~PublishRoot(j) /\ ~Create(j) /\ ~FillRoot(j) /\ ~Close(j)
    <3>1. UNCHANGED root
      BY <2>6 DEF JobStep, Provision, MakeParent, MakeStaging, RecordPlacement, Export, Pack,
           AppendRepositories, Tally, AdmitRoot, ReserveRoot, CopyLayer, CopyRepositories,
           Extract, CompareRoot, Seal, CheckSeal, RecordMaterialized, Match, Check,
           RecordRoot, StopJob
    <3> QED BY <1>1, <3>1 DEF WordsOK
  <2> QED BY <2>1, <2>2, <2>3, <2>4, <2>5, <2>6
<1>7. materialized' \in [Stagings -> Builds \cup {Missing, Torn}]
  <2>1. CASE (JobStep(j) \/ Tamper) /\ ~ RecordMaterialized(j) /\ ~ StopJob(j)
    <3>1. materialized' = materialized
      BY <2>1, Zenon DEF JobStep, Tamper, paper, Provision, MakeParent, MakeStaging,
                  RecordPlacement, Export, Pack, AppendRepositories, Tally, AdmitRoot,
                  ReserveRoot, CopyLayer, CopyRepositories, Extract, CompareRoot, Seal,
                  CheckSeal, PublishRoot, Create, FillRoot, Match, Close, Check, RecordRoot
    <3> QED BY <1>1, <3>1 DEF WordsOK
  <2>2. CASE RecordMaterialized(j)
    <3>1. saw[j] \in Builds
      BY <1>1, <2>2 DEF RecordMaterialized, JobMoves, JobOK, Knowing, Finishing
    <3> QED BY <1>1, <2>2, <3>1 DEF RecordMaterialized, Place, WordsOK
  <2>3. CASE StopJob(j) BY <1>1, <2>3 DEF StopJob, WordsOK
  <2> QED BY <2>1, <2>2, <2>3
<1>8. finished' \in [Stagings -> Records]
  <2>1. CASE (JobStep(j) \/ Tamper) /\ ~RecordRoot(j) /\ ~StopJob(j)
    <3>1. UNCHANGED finished
      BY <2>1, Zenon DEF JobStep, Tamper, JobMoves, paper, Provision, MakeParent, MakeStaging,
                  RecordPlacement, Export, Pack, AppendRepositories, Tally, AdmitRoot,
                  ReserveRoot, CopyLayer, CopyRepositories, Extract, CompareRoot, Seal,
                  CheckSeal, RecordMaterialized, PublishRoot, Create, FillRoot, Match,
                  Close, Check
    <3> QED BY <1>1, <3>1 DEF WordsOK
  <2>2. CASE RecordRoot(j)
    <3>1. jobAt[j] = "record" /\ saw[j] \in Builds /\ noted[j] \in Nat /\ noted[j] # 0
      BY <1>1, <2>2 DEF RecordRoot, JobMoves, JobOK, Knowing, Finishing, Noting, RootShape
    <3>2. noted[j] <= root.id /\ root.id \in Nat
      BY <3>1, RootFields DEF RootInv, RootShape, JobIsSound, Noting
    <3>3. root.id <= MaxJobs
      BY <1>1, <3>2, SuiteAssumption, RootAssumption DEF CountsOK
    <3>4. [content |-> saw[j], id |-> noted[j]] \in Records
      BY <3>1, <3>2, <3>3, SuiteAssumption DEF Records
    <3> QED BY <1>1, <2>2, <3>4 DEF RecordRoot, Place, WordsOK
  <2>3. CASE StopJob(j) BY <1>1, <2>3 DEF StopJob, WordsOK, Records
  <2> QED BY <2>1, <2>2, <2>3
<1>9. \A p \in Stagings : staging'[p].content \in RootContents BY ContentMoves
<1> QED BY <1>2, <1>3, <1>4, <1>5, <1>6, <1>7, <1>8, <1>9 DEF WordsOK


\* What the steps count, and what is counted.
LEMMA CountsStep ==
  ASSUME NEW j \in Jobs, RootInv, RootTypes, JobStep(j) \/ Tamper
  PROVE  CountsOK' /\ jobs' \in {jobs, jobs + 1}
<1>1. /\ RootShape /\ CountsOK /\ root \in RootRows /\ root.id \in Nat /\ root.made \in BOOLEAN
      /\ jobs \in Nat /\ tampers \in Nat /\ MaxJobs \in Nat /\ MaxTampers \in Nat
      /\ jobAt = [k \in Jobs |-> jobAt[k]]
  BY RootFields, SuiteAssumption, RootAssumption DEF RootInv, RootShape, RootTypes, CountsOK
<1>2. ASSUME JobStep(j)
      PROVE  /\ tampers' = tampers /\ jobs' \in {jobs, jobs + 1} /\ jobs' # 0
             /\ jobs' + tampers <= MaxJobs
  <2>1. CASE jobAt[j] = "idle"
    <3>1. jobs + tampers < MaxJobs /\ jobs' = jobs + 1
      BY <1>2, <2>1, Zenon DEF JobStep, BeginJob, JobMoves, Provision, MakeParent, MakeStaging,
           RecordPlacement, Export, Pack, AppendRepositories, Tally, AdmitRoot, ReserveRoot,
           CopyLayer, CopyRepositories, Extract, CompareRoot, Seal, CheckSeal,
           RecordMaterialized, PublishRoot, Create, FillRoot, Match, Close, Check,
           RecordRoot, StopJob
    <3>2. tampers' = tampers BY <1>2, JobsDoNotTamper
    <3> QED BY <1>1, <3>1, <3>2
  <2>2. CASE jobAt[j] # "idle"
    <3>1. jobs' = jobs
      BY <1>2, <2>2, Zenon DEF JobStep, BeginJob, JobMoves, Provision, MakeParent, MakeStaging,
           RecordPlacement, Export, Pack, AppendRepositories, Tally, AdmitRoot, ReserveRoot,
           CopyLayer, CopyRepositories, Extract, CompareRoot, Seal, CheckSeal,
           RecordMaterialized, PublishRoot, Create, FillRoot, Match, Close, Check,
           RecordRoot, StopJob
    <3>2. tampers' = tampers BY <1>2, JobsDoNotTamper
    <3> QED BY <1>1, <2>2, <3>1, <3>2 DEF CountsOK
  <2> QED BY <2>1, <2>2
<1>3. ASSUME Tamper
      PROVE  /\ tampers' = tampers + 1 /\ jobs' = jobs /\ tampers < MaxTampers
             /\ jobs + tampers < MaxJobs /\ fills' = fills /\ jobAt' = jobAt
  BY <1>3 DEF Tamper, job
<1>4. /\ root'.id <= tampers' + (IF root'.made THEN 1 ELSE 0)
      /\ root'.made => jobs' # 0
  <2>1. CASE Create(j)
    <3>1. ~ root.made /\ root' = [root EXCEPT !.made = TRUE, !.id = @ + 1] BY <2>1 DEF Create
    <3>2. root'.id = root.id + 1 /\ root'.made = TRUE BY <1>1, <3>1 DEF RootRows
    <3>3. JobStep(j) BY <2>1 DEF JobStep
    <3> QED BY <1>1, <1>2, <3>1, <3>2, <3>3 DEF CountsOK
  <2>2. ASSUME JobStep(j), ~ Create(j) PROVE root'.id = root.id /\ root'.made = root.made
    <3>1. CASE FillRoot(j)
      <4>1. staging[task[j].place].content \in Pairs
        <5>1. task[j].place \in Stagings /\ staging \in [Stagings -> StagingRows]
          BY <1>1 DEF RootShape
        <5> QED BY <5>1, StagingFields
      <4>2. PICK c \in Pairs : root' = [root EXCEPT !.content = c]
        BY <3>1, <4>1, PairFacts DEF FillRoot, Place
      <4>3. root \in RootRows BY <1>1
      <4> QED BY <4>2, <4>3, RootContent, Zenon
    <3>2. CASE PublishRoot(j)
      <4>1. root' = [root EXCEPT !.reserved = TRUE] BY <3>2 DEF PublishRoot
      <4> QED BY <1>1, <4>1, RootReserved, Zenon
    <3>3. CASE Close(j)
      <4>1. root' = [root EXCEPT !.sealed = TRUE] BY <3>3 DEF Close
      <4> QED BY <1>1, <4>1, RootSealed, Zenon
    <3>4. CASE ~PublishRoot(j) /\ ~FillRoot(j) /\ ~Close(j)
      BY <2>2, <3>4 DEF JobStep, Provision, MakeParent, MakeStaging, RecordPlacement, Export,
           Pack, AppendRepositories, Tally, AdmitRoot, ReserveRoot, CopyLayer,
           CopyRepositories, Extract, CompareRoot, Seal, CheckSeal, RecordMaterialized, Match,
           Check, RecordRoot, StopJob
    <3> QED BY <3>1, <3>2, <3>3, <3>4
  <2>3. CASE Tamper
    <3>1. CASE root' = [root EXCEPT !.content = Foreign]
      <4>1. root'.id = root.id /\ root'.made = root.made
        BY <1>1, <3>1, RootContent, PairFacts, Zenon
      <4> QED BY <1>1, <1>3, <2>3, <4>1 DEF CountsOK
    <3>2. CASE root.made /\ root' = [root EXCEPT !.made = FALSE, !.reserved = FALSE,
                                                 !.sealed = FALSE, !.content = Empty]
      <4>1. root'.id = root.id /\ root'.made = FALSE BY <1>1, <3>2 DEF RootRows
      <4> QED BY <1>1, <1>3, <2>3, <3>2, <4>1 DEF CountsOK
    <3>3. CASE UNCHANGED root BY <1>1, <1>3, <2>3, <3>3 DEF CountsOK
    <3> QED BY <2>3, <3>1, <3>2, <3>3, Zenon DEF Tamper
  <2>4. CASE JobStep(j) /\ ~ Create(j) BY <1>1, <1>2, <2>2, <2>4 DEF CountsOK
  <2> QED BY <2>1, <2>3, <2>4
<1>5. \A p \in Stagings : fills'[p] # 0 => jobs' # 0
  BY <1>1, <1>2, <1>3 DEF CountsOK
<1>6. \A k \in Jobs : jobAt'[k] # "idle" => jobs' # 0
  BY <1>1, <1>2, <1>3 DEF CountsOK
<1>7. jobs' \in Nat /\ tampers' \in 0 .. MaxTampers /\ jobs' + tampers' <= MaxJobs
      /\ jobs' \in {jobs, jobs + 1}
  <2>1. tampers \in 0 .. MaxTampers /\ jobs + tampers <= MaxJobs BY <1>1 DEF CountsOK
  <2> QED BY <1>1, <1>2, <1>3, <2>1
<1> QED BY <1>4, <1>5, <1>6, <1>7 DEF CountsOK

\* What the others rely on, of what is not theirs.
LEMMA OthersTyped ==
  ASSUME NEW j \in Jobs, RootInv, RootTypes, JobStep(j) \/ Tamper,
         NEW k \in Jobs, Tamper \/ k # j
  PROVE  JobOK(k)'
<1>1. RootShape /\ WordsOK /\ JobOK(k) /\ JobOK(j) BY DEF RootInv, RootTypes
<1>2. Same(k)
  <2>1. CASE Tamper BY <2>1 DEF Tamper, job, Same
  <2>2. CASE ~ Tamper BY <2>2, OthersStay
  <2> QED BY <2>1, <2>2
<1>3. told \in Builds => told' \in Builds
  <2>1. CASE Tally(j) BY <1>1, <2>1 DEF Tally, JobMoves, JobOK, Knowing
  <2>2. CASE StopJob(j) BY <2>2, RootAssumption DEF StopJob
  <2>3. CASE (JobStep(j) \/ Tamper) /\ ~ Tally(j) /\ ~ StopJob(j)
    <3>1. told' = told
      BY <2>3, Zenon DEF JobStep, Tamper, bundle, Provision, MakeParent, MakeStaging,
                  RecordPlacement, Export, Pack, AppendRepositories, AdmitRoot, ReserveRoot,
                  CopyLayer, CopyRepositories, Extract, CompareRoot, Seal, CheckSeal,
                  RecordMaterialized, PublishRoot, Create, FillRoot, Match, Close, Check,
                  RecordRoot
    <3> QED BY <3>1
  <2> QED BY <2>1, <2>2, <2>3
<1>4. archive \in Copied => archive' \in Copied BY ArchiveStep
<1>5. ASSUME jobAt[k] = "repos", staging'[task[k].place].state = "made"
      PROVE  staging'[task[k].place].content \in Copied
  <2> DEFINE p == task[k].place
  <2>1. p \in Stagings /\ task[j].place \in Stagings BY <1>1 DEF RootShape
  <2>2. "finish" \in begun[p] BY <1>5 DEF RootInv, JobIsSound, Finishing
  <2>3. staging[p].state # "absent" BY <2>1, <2>2 DEF RootInv, PlaceIsSound
  <2>4. staging[p].state = "made" BY <1>5, <2>1, <2>3, StagingMoves DEF StagingKept
  <2>5. staging[p].content \in Copied BY <1>1, <1>5, <2>4 DEF JobOK
  <2>6. \/ staging'[p].content = staging[p].content \/ staging'[p].content = Foreign
        \/ JobStep(j) /\ p = task[j].place /\ jobAt[j] \in {"materialize", "repos", "extract"}
    BY <1>5, <2>1, ContentMoves
  <2>7. ~ (p = task[j].place /\ jobAt[j] \in {"materialize", "repos", "extract"}) \/ k = j
    BY <1>5 DEF RootInv, OneJobEach, Finishing
  <2>8. Tamper => ~ JobStep(j)
    <3>1. tampers \in Nat BY SuiteAssumption, RootAssumption DEF RootTypes, CountsOK
    <3>2. Tamper => tampers' = tampers + 1 BY DEF Tamper
    <3> QED BY <3>1, <3>2, JobsDoNotTamper
  <2> QED BY <2>5, <2>6, <2>7, <2>8, BuildFacts
<1> QED BY <1>1, <1>2, <1>3, <1>4, <1>5 DEF JobOK, Same, Local


\* What the job that moves knows.
LEMMA OwnTyped ==
  ASSUME NEW j \in Jobs, RootInv, RootTypes, JobStep(j)
  PROVE  JobOK(j)'
<1>1. /\ RootShape /\ WordsOK /\ JobOK(j) /\ CountsOK /\ task[j].place \in Stagings
      /\ layer \in Versions /\ repos \in Versions /\ noted[j] \in Nat
      /\ staging \in [Stagings -> StagingRows] /\ MaxJobs \in Nat
      /\ jobAt = [k \in Jobs |-> jobAt[k]] /\ task = [k \in Jobs |-> task[k]]
      /\ saw = [k \in Jobs |-> saw[k]] /\ noted \in [Jobs -> Nat]
  BY SuiteAssumption DEF RootInv, RootShape, RootTypes
<1>2. build \in Builds BY <1>1, BuildFacts DEF build
<1>3. Builds \subseteq RootContents BY BuildFacts
<1>4. ASSUME NEW from, NEW to, JobMoves(j, from, to)
      PROVE  /\ jobAt[j] = from /\ jobAt'[j] = to /\ task'[j] = task[j]
             /\ noted'[j] = noted[j]
  BY <1>1, <1>4 DEF JobMoves, Goto
\* A job that goes on with what it knew.
<1>5. ASSUME NEW from \in Locations, NEW to \in Locations, JobMoves(j, from, to), saw' = saw,
             to \in Noting => from \in Noting,
             to \in Knowing => from \in Knowing,
             to \notin {"reserve", "extract", "append", "repos"}
      PROVE  JobOK(j)'
  BY <1>1, <1>4, <1>5 DEF JobOK
<1>6. ASSUME NEW kind \in {"provision", "export", "finish", "receive"}, NEW p \in Stagings,
             NEW to \in {"parents", "pack", "reserve"}, BeginJob(j, kind, p, to)
      PROVE  /\ jobAt'[j] = to /\ task'[j] \in Chores /\ task'[j].kind = kind
             /\ saw'[j] = Missing
  <2>1. /\ jobAt' = [jobAt EXCEPT ![j] = to] /\ saw' = [saw EXCEPT ![j] = Missing]
        /\ task' = [task EXCEPT ![j] = [kind |-> kind, place |-> p]]
    BY <1>6 DEF BeginJob, Goto
  <2>2. task'[j] = [kind |-> kind, place |-> p] BY <1>1, <2>1
  <2> QED BY <1>1, <2>1, <2>2 DEF Chores
<1>7. CASE Provision(j)
  <2>1. PICK p \in Stagings : BeginJob(j, "provision", p, "parents") BY <1>7 DEF Provision
  <2>2. noted'[j] = ancestors BY <1>1, <1>7 DEF Provision
  <2>3. noted'[j] <= MaxJobs + 2 BY <1>1, <2>2 DEF WordsOK
  <2>4. jobAt'[j] = "parents" /\ task'[j] \in Chores /\ saw'[j] = Missing BY <1>6, <2>1
  <2> QED BY <2>3, <2>4 DEF JobOK, Locations, Noting, Knowing, Finishing
<1>8. CASE Export(j)
  <2>1. PICK p \in Stagings : BeginJob(j, "export", p, "pack") BY <1>8 DEF Export
  <2>2. noted'[j] = noted[j] BY <1>8 DEF Export
  <2>3. jobAt'[j] = "pack" /\ task'[j] \in Chores /\ saw'[j] = Missing BY <1>6, <2>1
  <2> QED BY <1>1, <2>2, <2>3 DEF JobOK, Locations, Noting, Knowing, Finishing
<1>9. CASE AdmitRoot(j)
  <2>1. PICK kind \in {"finish", "receive"}, p \in Stagings :
          (kind = "receive" => Bundled) /\ BeginJob(j, kind, p, "reserve")
    BY <1>9 DEF AdmitRoot
  <2>2. noted'[j] = noted[j] /\ told' = told BY <1>9 DEF AdmitRoot, bundle
  <2>3. /\ jobAt'[j] = "reserve" /\ task'[j] \in Chores /\ task'[j].kind = kind
        /\ saw'[j] = Missing
    BY <1>6, <2>1
  <2>4. kind # "finish" => told \in Builds BY <2>1 DEF Bundled
  <2> QED BY <1>1, <2>2, <2>3, <2>4 DEF JobOK, Locations, Noting, Knowing, Finishing, Local
<1>10. CASE MakeParent(j)
  <2>1. /\ jobAt[j] = "parents" /\ jobAt'[j] \in {"parents", "child"} /\ task' = task
        /\ saw' = saw /\ noted'[j] \in {noted[j], ancestors + 1} /\ (ancestors < 2 \/ noted' = noted)
    BY <1>1, <1>10 DEF MakeParent, Goto
  <2>2. noted'[j] <= MaxJobs + 2 BY <1>1, <2>1 DEF JobOK, WordsOK
  <2> QED BY <1>1, <2>1, <2>2 DEF JobOK, Locations, Noting, Knowing, Finishing
<1>11. CASE MakeStaging(j) \/ RecordPlacement(j)
  BY <1>5, <1>11, Zenon DEF MakeStaging, RecordPlacement, Locations, Noting, Knowing, Finishing
<1>12. CASE Pack(j)
  <2>1. /\ JobMoves(j, "pack", "append") /\ saw'[j] = build /\ archive' = <<layer, "none">>
    BY <1>1, <1>12 DEF Pack, See
  <2>2. archive' \in Copied BY <1>1, <2>1, BuildFacts
  <2>3. jobAt'[j] = "append" /\ task'[j] = task[j] /\ noted'[j] = noted[j] BY <1>4, <2>1
  <2> QED BY <1>1, <1>2, <1>3, <2>1, <2>2, <2>3 DEF JobOK, Locations, Noting, Finishing
<1>13. CASE AppendRepositories(j) \/ Tally(j)
  <2>1. \/ JobMoves(j, "append", "tally") /\ saw' = saw
        \/ JobMoves(j, "tally", "idle") /\ saw' = saw
    BY <1>13 DEF AppendRepositories, Tally
  <2> QED BY <1>5, <2>1, Zenon DEF Locations, Noting, Knowing, Finishing
<1>14. CASE ReserveRoot(j)
  <2>1. /\ JobMoves(j, "reserve", IF Local(j) THEN "materialize" ELSE "extract")
        /\ saw' = saw /\ told' = told
    BY <1>14 DEF ReserveRoot, bundle
  <2>2. /\ jobAt[j] = "reserve" /\ jobAt'[j] = (IF Local(j) THEN "materialize" ELSE "extract")
        /\ task'[j] = task[j] /\ noted'[j] = noted[j]
    BY <1>4, <2>1
  <2> QED BY <1>1, <2>1, <2>2 DEF JobOK, Locations, Noting, Knowing, Finishing
<1>15. CASE CopyLayer(j)
  <2>1. /\ JobMoves(j, "materialize", "repos") /\ saw'[j] = build
        /\ staging' = [staging EXCEPT ![task[j].place].content = <<layer, "none">>]
    BY <1>1, <1>15 DEF CopyLayer, See, Fill, Place
  <2>2. jobAt'[j] = "repos" /\ task'[j] = task[j] /\ noted'[j] = noted[j] BY <1>4, <2>1
  <2>3. staging'[task[j].place].content \in Copied
    <3> DEFINE p == task[j].place
               row == [staging[p] EXCEPT !.content = <<layer, "none">>]
    <3>1. staging'[p] = row BY <1>1, <2>1
    <3>2. row.content = <<layer, "none">> BY <1>1, SetContent, PairFacts, Zenon
    <3> QED BY <1>1, <3>1, <3>2, BuildFacts
  <2> QED BY <1>1, <1>2, <1>3, <2>1, <2>2, <2>3 DEF JobOK, Locations, Noting, Finishing
<1>16. CASE CopyRepositories(j)
  BY <1>5, <1>16, Zenon DEF CopyRepositories, Locations, Noting, Knowing, Finishing
<1>17. CASE Extract(j)
  <2>1. /\ JobMoves(j, "extract", "compare") /\ saw'[j] = told
    BY <1>1, <1>17 DEF Extract, See
  <2>2. /\ jobAt[j] = "extract" /\ jobAt'[j] = "compare" /\ task'[j] = task[j]
        /\ noted'[j] = noted[j]
    BY <1>4, <2>1
  <2>3. told \in Builds BY <1>1, <2>2 DEF JobOK
  <2> QED BY <1>1, <1>3, <2>1, <2>2, <2>3 DEF JobOK, Locations, Noting, Finishing
<1>18. CASE CompareRoot(j) \/ Seal(j)
  BY <1>5, <1>18, Zenon DEF CompareRoot, Seal, Locations, Noting, Knowing, Finishing
<1>19. CASE CheckSeal(j)
  <2>1. /\ JobMoves(j, "sealed", IF Local(j) THEN "receipt" ELSE "publish") /\ saw' = saw
    BY <1>19 DEF CheckSeal
  <2>2. JobMoves(j, "sealed", "receipt") \/ JobMoves(j, "sealed", "publish") BY <2>1, Zenon
  <2> QED BY <1>5, <2>1, <2>2, Zenon DEF Locations, Noting, Knowing, Finishing
<1>20. CASE RecordMaterialized(j) \/ PublishRoot(j)
  BY <1>5, <1>20, Zenon DEF RecordMaterialized, PublishRoot, Locations, Noting, Knowing, Finishing
<1>21. CASE Create(j)
  <2>1. /\ jobAt[j] = "create" /\ jobAt'[j] = "fill" /\ task' = task /\ saw' = saw
        /\ noted'[j] = root.id + 1 /\ ~ root.made
    BY <1>1, <1>21 DEF Create, Goto
  <2>2. root.id \in Nat BY <1>1, RootFields DEF RootShape
  <2>3. root.id <= MaxJobs
    BY <1>1, <2>1, <2>2, RootAssumption DEF CountsOK
  <2>4. noted'[j] <= MaxJobs + 2 /\ noted'[j] # 0 BY <1>1, <2>1, <2>2, <2>3
  <2> QED BY <1>1, <2>1, <2>4 DEF JobOK, Locations, Knowing, Finishing
<1>22. CASE FillRoot(j) \/ Match(j) \/ Close(j)
  BY <1>5, <1>22, Zenon DEF FillRoot, Match, Close, Locations, Noting, Knowing, Finishing
<1>23. CASE Check(j) \/ RecordRoot(j)
  BY <1>5, <1>23, Zenon DEF Check, RecordRoot, Locations, Noting, Knowing, Finishing
<1>24. CASE StopJob(j)
  <2>1. jobAt'[j] = "idle" /\ task' = task /\ saw' = saw /\ noted' = noted
    BY <1>1, <1>24 DEF StopJob, Goto
  <2> QED BY <1>1, <2>1 DEF JobOK, Locations, Noting, Knowing, Finishing
<1> QED BY <1>7, <1>8, <1>9, <1>10, <1>11, <1>12, <1>13, <1>14, <1>15, <1>16, <1>17, <1>18,
           <1>19, <1>20, <1>21, <1>22, <1>23, <1>24 DEF JobStep

LEMMA RootTypesStart == RootInit => RootTypes
<1> SUFFICES ASSUME RootInit PROVE RootTypes OBVIOUS
<1>1. (CHOOSE p \in Stagings : TRUE) \in Stagings BY SuiteAssumption
<1>2. CountsOK
  <2>1. root.id = 0 /\ root.made = FALSE BY DEF RootInit
  <2>2. jobs = 0 /\ tampers = 0 BY DEF RootInit
  <2>3. (\A p \in Stagings : fills[p] = 0) /\ \A j \in Jobs : jobAt[j] = "idle"
    BY DEF RootInit
  <2> QED BY <2>1, <2>2, <2>3, SuiteAssumption, RootAssumption DEF CountsOK
<1>3. WordsOK
  <2>1. \A p \in Stagings : staging[p].content = Empty BY DEF RootInit
  <2>2. root.content = Empty /\ ancestors \in 0 .. 2 BY DEF RootInit
  <2>3. /\ packing \in BOOLEAN /\ archive \in Copied \cup {Missing}
        /\ told \in Builds \cup {Missing, Torn}
        /\ materialized \in [Stagings -> Builds \cup {Missing, Torn}]
        /\ finished \in [Stagings -> Records]
    BY DEF RootInit, Records
  <2> QED BY <2>1, <2>2, <2>3, BuildFacts DEF WordsOK
<1>4. ASSUME NEW j \in Jobs PROVE JobOK(j)
  <2>1. /\ jobAt[j] = "idle" /\ saw[j] = Missing /\ noted[j] = 0
        /\ task[j] = [kind |-> "none", place |-> CHOOSE p \in Stagings : TRUE]
    BY DEF RootInit
  <2>2. task[j] \in Chores BY <1>1, <2>1 DEF Chores
  <2> QED BY <2>1, <2>2, SuiteAssumption DEF JobOK, Locations, Noting, Knowing, Finishing
<1> QED BY <1>2, <1>3, <1>4 DEF RootTypes

LEMMA RootTypesStep ==
  ASSUME RootInv, RootTypes, [RootNext]_rootVars
  PROVE  RootTypes'
<1>1. CASE UNCHANGED rootVars
  <2>1. WordsOK' BY <1>1 DEF rootVars, RootTypes, WordsOK
  <2>2. CountsOK' BY <1>1 DEF rootVars, RootTypes, CountsOK
  <2>3. ASSUME NEW j \in Jobs PROVE JobOK(j)' BY <1>1 DEF rootVars, RootTypes, JobOK, Local
  <2> QED BY <2>1, <2>2, <2>3 DEF RootTypes
<1>2. ASSUME NEW j \in Jobs, JobStep(j) PROVE RootTypes'
  <2>1. \A k \in Jobs : JobOK(k)' BY <1>2, OwnTyped, OthersTyped
  <2> QED BY <1>2, <2>1, WordsStep, CountsStep DEF RootTypes
<1>3. CASE Tamper
  <2>1. PICK j \in Jobs : TRUE BY SuiteAssumption
  <2>2. \A k \in Jobs : JobOK(k)' BY <1>3, OthersTyped
  <2> QED BY <1>3, <2>1, <2>2, WordsStep, CountsStep DEF RootTypes
<1> QED BY <1>1, <1>2, <1>3 DEF RootNext

LEMMA RootIsTyped == ASSUME RootInv, RootTypes PROVE RootTypeOK
<1>1. RootShape /\ WordsOK /\ CountsOK /\ \A j \in Jobs : JobOK(j) BY DEF RootInv, RootTypes
<1>2. /\ jobAt \in [Jobs -> Locations] /\ task \in [Jobs -> Chores]
      /\ saw \in [Jobs -> RootContents \cup {Missing}] /\ noted \in [Jobs -> 0 .. MaxJobs + 2]
  <2>1. \A j \in Jobs : noted[j] \in 0 .. MaxJobs + 2
    BY <1>1, SuiteAssumption DEF RootShape, JobOK
  <2> QED BY <1>1, <2>1 DEF RootShape, JobOK
<1>3. archive \in RootContents \cup {Missing} BY <1>1, BuildFacts DEF WordsOK
<1>4. jobs \in 0 .. MaxJobs /\ tampers \in 0 .. MaxTampers
  BY <1>1, SuiteAssumption, RootAssumption DEF CountsOK
<1>5. fills \in [Stagings -> 0 .. MaxJobs]
  <2>1. \A p \in Stagings : fills[p] \in 0 .. MaxJobs
    <3> TAKE p \in Stagings
    <3>1. fills[p] \in {0, 1} BY DEF RootInv, PlaceIsSound
    <3> QED BY <1>1, <1>4, <3>1, SuiteAssumption DEF CountsOK
  <2> QED BY <1>1, <2>1 DEF RootShape
<1>6. staging \in [Stagings -> [state : {"absent", "made", "gone"}, content : RootContents,
                               sealed : BOOLEAN, placed : BOOLEAN]]
  <2>1. \A p \in Stagings : staging[p] \in StagingRows /\ staging[p].content \in RootContents
    BY <1>1 DEF RootShape, WordsOK
  <2>2. \A p \in Stagings : staging[p] \in
          [state : {"absent", "made", "gone"}, content : RootContents, sealed : BOOLEAN,
           placed : BOOLEAN]
    BY <2>1 DEF StagingRows, States
  <2> QED BY <1>1, <2>2 DEF RootShape
<1>7. root \in [id : 0 .. MaxJobs, reserved : BOOLEAN, made : BOOLEAN, sealed : BOOLEAN,
                content : RootContents]
  <2>1. root \in RootRows /\ root.content \in RootContents /\ root.id \in Nat
    BY <1>1, RootFields DEF RootShape, WordsOK
  <2>2. root.id \in 0 .. MaxJobs
    BY <1>1, <2>1, SuiteAssumption, RootAssumption DEF CountsOK
  <2> QED BY <2>1, <2>2 DEF RootRows
<1> QED BY <1>1, <1>2, <1>3, <1>4, <1>5, <1>6, <1>7
    DEF RootTypeOK, RootShape, WordsOK, Records, Locations, Chores

\* The transfer: what the files and the history may hold.
MoveValues ==
  /\ source \in {"right", "wrong"} /\ content \in {"none", "part", "right", "wrong"}
  /\ verified \in {"unknown", "sealed", "refused"} /\ writes \in 0 .. MaxWrites
  /\ copies # 0 => Transfers # {}

LEMMA MoveValuesStart == Transfer!MoveInit => MoveValues
BY SuiteAssumption DEF Transfer!MoveInit, MoveValues

LEMMA MoveValuesStep ==
  ASSUME MoveValues, [Transfer!MoveNext]_moving
  PROVE  MoveValues'
<1>1. CASE UNCHANGED moving BY <1>1 DEF moving, MoveValues
<1>2. ASSUME NEW t \in Transfers, Transfer!Step(t) PROVE MoveValues'
  <2>1. UNCHANGED <<source, verified, writes>>
    BY <1>2 DEF Transfer!Step, Transfer!Examine, Transfer!Lock, Transfer!Admit,
                Transfer!Reserve, Transfer!Copy, Transfer!CopyRest, Transfer!CheckCopy,
                Transfer!Publish, Transfer!CheckSeal, Transfer!Record, Transfer!Die,
                Transfer!disk
  <2>2. content' \in {"none", "part", "right", "wrong"}
    BY <1>2 DEF MoveValues, Transfer!Step, Transfer!Examine, Transfer!Lock, Transfer!Admit,
                Transfer!Reserve, Transfer!Copy, Transfer!CopyRest, Transfer!CheckCopy,
                Transfer!Publish, Transfer!CheckSeal, Transfer!Record, Transfer!Die,
                Transfer!disk
  <2> QED BY <2>1, <2>2 DEF MoveValues
<1>3. CASE Transfer!Verify BY <1>3 DEF Transfer!Verify, Transfer!disk, MoveValues
<1>4. CASE Transfer!Changes
  <2>1. writes' \in 0 .. MaxWrites BY <1>4, SuiteAssumption DEF Transfer!Changes, MoveValues
  <2> QED BY <1>4, <2>1 DEF Transfer!Changes, MoveValues
<1> QED BY <1>1, <1>2, <1>3, <1>4 DEF Transfer!MoveNext

LEMMA MoveIsTyped ==
  ASSUME MoveInv, MoveValues
  PROVE  Transfer!MoveTypeOK
<1>1. copies \in 0 .. Transfer!Cardinality(Transfers)
  <2>1. Transfer!Cardinality(Transfers) = Cardinality(Transfers)
    BY Zenon DEF Transfer!Cardinality, Cardinality
  <2>2. Cardinality(Transfers) \in Nat /\ (Transfers # {} => Cardinality(Transfers) # 0)
    BY SuiteAssumption, FS_CardinalityType, FS_EmptySet
  <2>3. copies \in {0, 1} /\ (copies = 1 => Transfers # {})
    BY DEF MoveInv, OneAttempt, MoveValues
  <2> QED BY <2>1, <2>2, <2>3
<1> QED BY <1>1 DEF MoveInv, MoveShape, Moving, MoveValues, Transfer!MoveTypeOK

\* The builds: a shape is typed.
LEMMA GraphIsTyped ==
  ASSUME GraphInv
  PROVE  GraphTypeOK
<1>1. Shape BY DEF GraphInv
<1>2. \A m \in Members : \A r \in DOMAIN child[m] : child[m][r] \in Kids
  <2>1. \A m \in Members : child[m] \in Seq(Kids) BY <1>1 DEF Shape, GitLabOK
  <2> HIDE DEF Kids
  <2> QED BY <2>1
<1>3. \A p \in Readers :
        reads[p] \in Seq(({"lineage", "lineage again", "edge", "edge again"} \X Members)
                        \cup {TheEnd})
  <2>1. reads \in [Readers -> Seq(AnyRead)] BY <1>1 DEF Shape, NotesOK
  <2> QED BY <2>1, Zenon DEF AnyRead, Operations
<1> QED
  BY <1>1, <1>2, <1>3, Zenon DEF GraphTypeOK, Shape, GitLabOK, NotesOK, Freezers, Kids,
     Lineages, EdgeNotes, Results

-----------------------------------------------------------------------------
(***************************************************************************)
(* The suite: whichever part acts, the others rest.                        *)
(***************************************************************************)
everything == <<part, vars, preparing, moving, rootVars, graphVars, identityVars, manifestVars>>

LEMMA PartsNext ==
  ASSUME [SuiteNext]_everything
  PROVE  /\ [Next]_vars /\ [Transfer!MoveNext]_moving /\ [RootNext]_rootVars
         /\ [IdentityNext]_identityVars /\ [ManifestNext]_manifestVars
         /\ [Preparation!PrepNext]_preparing /\ [GraphNext]_graphVars
BY DEF SuiteNext, everything

\* Transfers and jobs are alone with their dataset, receipts true behind a seal.
THEOREM SuiteInvariant == SuiteSpec => [](MoveInv /\ RootInv)
<1>1. SuiteInit => MoveInv /\ RootInv
  BY MoveInitInv, RootInitInv DEF SuiteInit, TransferInit, RootsInit
<1>2. MoveInv /\ RootInv /\ [SuiteNext]_everything => (MoveInv /\ RootInv)'
  BY PartsNext, MoveStep, RootStep
<1> QED BY <1>1, <1>2, PTL DEF SuiteSpec, everything

\* A completed generation is sealed and holds its content, and so is a completed
\* root, for as long as their datasets exist, whatever others did meanwhile
\* (transfer-generation.py:253-281, finish-stage3-root.py:69-99).
THEOREM CompleteSafety == SuiteSpec => []CompleteIsWhole
<1>1. MoveInv /\ RootInv => CompleteIsWhole
  BY MoveIsWhole, RootIsWhole DEF CompleteIsWhole
<1> QED BY <1>1, SuiteInvariant, PTL

\* At most one copy is ever begun into a destination or a staging dataset
\* (transfer-generation.py:250-256, finish-stage3-root.py:72).
THEOREM CopiedSafety == SuiteSpec => []CopiedOnce
<1>1. MoveInv /\ RootInv => CopiedOnce
  BY MoveIsWhole, RootIsWhole DEF CopiedOnce
<1> QED BY <1>1, SuiteInvariant, PTL

\* A capture is of one instant of its source and of one consistent identity, and
\* every capture of a reference is the same one, whatever the renewals, publishers
\* and failures in between (check-stage3-paths.py:205-318).
THEOREM IdentitySafety == SuiteSpec => []ReferenceIsOneIdentity
<1>1. SuiteInit => IdentityInv BY IdentityStart DEF SuiteInit
<1>2. IdentityInv /\ [SuiteNext]_everything => IdentityInv'
  BY PartsNext, IdentityStepInv
<1> QED BY <1>1, <1>2, IdentityIsOne, PTL DEF SuiteSpec, everything

\* A manifest that is retained or bound is the release that was expected: every
\* member once, each host its own dataset and identity
\* (nest-release-manifest.py:102-325).
THEOREM ManifestSafety == SuiteSpec => []ManifestIsTheRelease
<1>1. SuiteInit => ManifestInv BY ManifestStart DEF SuiteInit
<1>2. ManifestInv /\ [SuiteNext]_everything => ManifestInv'
  BY PartsNext, ManifestStep
<1> QED BY <1>1, <1>2, ManifestIsOne, PTL DEF SuiteSpec, everything

\* Every host passes every gate before the first is reset, and its own again after
\* the earlier waves; the hosts reset and not known prepared fit into one wave of the
\* policy (update_wave_plan.py:143-158, update.pp:127-283).
THEOREM ResetSafety == SuiteSpec => []ResetsAreGated
<1>1. SuiteInit => PrepInv BY PrepStart DEF SuiteInit, PreparationInit
<1>2. PrepInv /\ [SuiteNext]_everything => PrepInv' BY PartsNext, PrepStep
<1>3. PrepInv => ResetsAreGated BY PrepIsGated DEF ResetsAreGated
<1> QED BY <1>1, <1>2, <1>3, PTL DEF SuiteSpec, everything

\* What is frozen, accepted or put into an envelope is one graph: all its results
\* were current together, and an accepted member was built from the accepted results
\* of its parents, whatever was retried, erased or superseded between two reads
\* (nest-release-graph.py:320-341, 371-422).
THEOREM GraphSafety == SuiteSpec => []AcceptedIsOneGraph
<1>1. SuiteInit => GraphInv BY GraphStart DEF SuiteInit, BuildsInit
<1>2. GraphInv /\ [SuiteNext]_everything => GraphInv' BY PartsNext, GraphStep
<1> QED BY <1>1, <1>2, GraphSafe, PTL DEF SuiteSpec, everything

\* The promotions of the suite are those of ReleasePromotion: whatever is proved
\* of them holds here.
THEOREM SuiteRunsPromotions == SuiteSpec => Spec
<1>1. SuiteInit => Init BY DEF SuiteInit, PromotionInit
<1>2. [SuiteNext]_everything => [Next]_vars BY PartsNext
<1> QED BY <1>1, <1>2, PTL DEF SuiteSpec, Spec, everything

\* Whichever part acts keeps its types, for any hosts, releases, jobs and builds:
\* nothing a root, a copy, a wave, a freezer, an identity or a receipt holds is ever
\* a value its readers have no case for, and no counter passes its bound
\* (finish-stage3-root.py:69-99, transfer-generation.py:224-281,
\* nest-release-graph.py:320-341).
THEOREM SuiteTypes == SuiteSpec => []TypesOK
<1> DEFINE MovesOK == MoveInv /\ MoveValues
           RootsOK == RootInv /\ RootTypes
           Others == PrepInv /\ GraphInv /\ IdentityInv /\ ManifestInv
<1>1. SuiteInit => MovesOK BY MoveInitInv, MoveValuesStart DEF SuiteInit, TransferInit
<1>2. SuiteInit => RootsOK BY RootInitInv, RootTypesStart DEF SuiteInit, RootsInit
<1>3. SuiteInit => Others
  BY PrepStart, GraphStart, IdentityStart, ManifestStart
  DEF SuiteInit, PreparationInit, BuildsInit
<1>4. MovesOK /\ [SuiteNext]_everything => MovesOK'
  BY PartsNext, MoveStep, MoveValuesStep
<1>5. RootsOK /\ [SuiteNext]_everything => RootsOK'
  BY PartsNext, RootStep, RootTypesStep
<1>6. Others /\ [SuiteNext]_everything => Others'
  BY PartsNext, PrepStep, GraphStep, IdentityStepInv, ManifestStep
<1>7. SuiteSpec => []TypeOK BY SuiteRunsPromotions, PromotionTypes, PTL
<1>8. MovesOK /\ RootsOK /\ Others /\ TypeOK => TypesOK
  BY MoveIsTyped, RootIsTyped, GraphIsTyped
  DEF TypesOK, PrepInv, IdentityInv, ManifestInv
<1> HIDE DEF MovesOK, RootsOK, Others
<1> QED BY <1>1, <1>2, <1>3, <1>4, <1>5, <1>6, <1>7, <1>8, PTL DEF SuiteSpec, everything
================================================================================
