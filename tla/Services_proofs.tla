---------------------------- MODULE Services_proofs ----------------------------
(***************************************************************************)
(* Proofs about the programs that serve calls and retain files: the        *)
(* dispatch of a lifecycle with the delivery of its reports, the downloads *)
(* of photos, the backup of the media applications and the bootstrap of a  *)
(* config executor, for all values of their constants.                     *)
(***************************************************************************)
EXTENDS MCServices, TLAPS

(***************************************************************************)
(* Media.  While a run is before its publication its stamp is newer than   *)
(* any archive, and what was copied is of the instant of its snapshots.    *)
(***************************************************************************)
CopiesAreOfTheInstant ==
  /\ doing \in {"snapshot", "stage", "publish"} => stamp \notin kept
  /\ doing = "snapshot" => copied = {}
  /\ doing \in {"stage", "publish"} =>
       /\ captured = instants[stamp]
       /\ \A a \in copied : staged[a] = instants[stamp][a]
  /\ doing = "publish" => copied = Apps

\* The run that is over its publication has its archive, the newest.
RunsAreCounted ==
  /\ doing # "nothing" => stamp \in Stamps /\ stamp \notin succeeded
  /\ doing \in {"destroy", "expire"} => stamp \in kept
  /\ \A n \in kept \cup succeeded : n <= stamp

MediaInv ==
  /\ MediaTypeOK /\ CopiesAreOfTheInstant /\ RunsAreCounted
  /\ ArchivesAreOfOneInstant /\ TwoNewerFirst

LEMMA MediaStart == MediaInit => MediaInv
BY MediaAssumption DEF MediaInit, MediaInv, MediaTypeOK, CopiesAreOfTheInstant, RunsAreCounted,
   ArchivesAreOfOneInstant, TwoNewerFirst, Empty, Whole, Stamps

LEMMA MediaTypes == MediaInv /\ [MediaNext]_mediaVars => MediaTypeOK'
<1> SUFFICES ASSUME MediaInv, [MediaNext]_mediaVars PROVE MediaTypeOK' OBVIOUS
<1> USE MediaAssumption DEF MediaInv, MediaTypeOK, Whole, Stamps, RunsAreCounted
<1>1. CASE TakeLock BY <1>1 DEF TakeLock
<1>2. CASE TakeSnapshots BY <1>2 DEF TakeSnapshots
<1>3. CASE Compress BY <1>3 DEF Compress
<1>4. CASE Publish BY <1>4 DEF Publish, Appear
<1>5. CASE DestroyedAll BY <1>5 DEF DestroyedAll
<1>6. CASE Succeed BY <1>6 DEF Succeed
<1>7. CASE FailBackup BY <1>7 DEF FailBackup, Appear
<1>8. CASE SnapshotsReconciled BY <1>8 DEF SnapshotsReconciled
<1>9. CASE \E a \in Apps : StageApp(a) BY <1>9 DEF StageApp, Root
<1>10. CASE \E a \in Apps : DestroySnapshot(a) BY <1>10 DEF DestroySnapshot
<1>11. CASE \E a \in Apps : AppWrites(a)
  <2> PICK a \in Apps : AppWrites(a) BY <1>11
  <2>1. live' = [live EXCEPT ![a] = live[a] + 1] /\ live[a] \in Nat BY DEF AppWrites
  <2>2. live' \in [Apps -> Nat] BY <2>1
  <2> QED BY <2>2 DEF AppWrites
<1>12. CASE \E n \in Stamps : ExpireArchive(n) BY <1>12 DEF ExpireArchive
<1>13. CASE UNCHANGED mediaVars BY <1>13 DEF mediaVars
<1> QED BY <1>1, <1>2, <1>3, <1>4, <1>5, <1>6, <1>7, <1>8, <1>9, <1>10, <1>11, <1>12, <1>13
  DEF MediaNext

\* The archive of run n, of which instants[n] is what was live, appears.
LEMMA Appears ==
  ASSUME MediaInv, doing = "publish", Appear, UNCHANGED <<stamp, instants, succeeded>>
  PROVE  ArchivesAreOfOneInstant' /\ TwoNewerFirst' /\ (\A n \in kept' \cup succeeded' : n <= stamp')
<1> USE MediaAssumption DEF MediaInv, MediaTypeOK, Whole, Stamps, RunsAreCounted, CopiesAreOfTheInstant, Appear
<1>1. staged = instants[stamp] OBVIOUS
<1>2. ArchivesAreOfOneInstant' BY <1>1 DEF ArchivesAreOfOneInstant
<1>3. TwoNewerFirst' BY DEF TwoNewerFirst
<1> QED BY <1>2, <1>3

LEMMA MediaStep == MediaInv /\ [MediaNext]_mediaVars => MediaInv'
<1> SUFFICES ASSUME MediaInv, [MediaNext]_mediaVars PROVE MediaInv' OBVIOUS
<1>0. MediaTypeOK' BY MediaTypes
<1> USE MediaAssumption DEF MediaInv, MediaTypeOK, Whole, Stamps, RunsAreCounted,
       CopiesAreOfTheInstant, ArchivesAreOfOneInstant
<1>1. CASE TakeLock BY <1>0, <1>1 DEF TakeLock, TwoNewerFirst
<1>2. CASE TakeSnapshots BY <1>0, <1>2 DEF TakeSnapshots, TwoNewerFirst
<1>3. CASE Compress BY <1>0, <1>3 DEF Compress, TwoNewerFirst
<1>4. CASE Publish BY <1>0, <1>4, Appears DEF Publish, Appear
<1>5. CASE DestroyedAll BY <1>0, <1>5 DEF DestroyedAll, TwoNewerFirst
<1>6. CASE Succeed BY <1>0, <1>6 DEF Succeed, TwoNewerFirst
<1>7. CASE FailBackup BY <1>0, <1>7, Appears DEF FailBackup, Appear, TwoNewerFirst
<1>8. CASE SnapshotsReconciled BY <1>0, <1>8 DEF SnapshotsReconciled, TwoNewerFirst
<1>9. CASE \E a \in Apps : StageApp(a)
  <2> PICK a \in Apps : StageApp(a) BY <1>9
  <2>1. staged' = [staged EXCEPT ![a] = captured[a]] /\ copied' = copied \cup {a}
    BY DEF StageApp, Root
  <2>2. \A b \in copied' : staged'[b] = instants[stamp][b] BY <2>1 DEF StageApp
  <2> QED BY <1>0, <2>2 DEF StageApp, TwoNewerFirst
<1>10. CASE \E a \in Apps : DestroySnapshot(a) BY <1>0, <1>10 DEF DestroySnapshot, TwoNewerFirst
<1>11. CASE \E a \in Apps : AppWrites(a)
  <2> PICK a \in Apps : AppWrites(a) BY <1>11
  <2>1. UNCHANGED <<stamp, captured, doing, copied, staged, kept, archives, instants, succeeded>>
    BY DEF AppWrites
  <2> QED BY <1>0, <2>1 DEF TwoNewerFirst
<1>12. CASE \E n \in Stamps : ExpireArchive(n)
  <2> PICK n \in Stamps : ExpireArchive(n) BY <1>12
  <2>1. PICK m \in kept, l \in kept : n < m /\ m < l BY DEF ExpireArchive, NewestTwo
  <2>2. m \in kept' /\ l \in kept' /\ \A k \in kept : n <= k BY <2>1 DEF ExpireArchive
  <2>3. TwoNewerFirst' BY <2>1, <2>2 DEF ExpireArchive, TwoNewerFirst
  <2>4. doing = "expire" => stamp \in kept' BY <2>1, <2>2 DEF ExpireArchive
  <2> QED BY <1>0, <2>3, <2>4 DEF ExpireArchive
<1>13. CASE UNCHANGED mediaVars BY <1>0, <1>13 DEF mediaVars, TwoNewerFirst
<1> QED BY <1>1, <1>2, <1>3, <1>4, <1>5, <1>6, <1>7, <1>8, <1>9, <1>10, <1>11, <1>12, <1>13
  DEF MediaNext
-------------------------------------------------------------------------------
(***************************************************************************)
(* Dispatch.  The parameters are created once, so one call launches the    *)
(* unit; from then on they are what the plan was given, and whoever has    *)
(* compared them asked for them.                                           *)
(***************************************************************************)
Launching == {"write", "launch"}
Resuming  == {"look", "results", "restart"}
Receiving == {"receive", "index"}

DispatchOnce ==
  /\ \A d, e \in Dispatchers : stand[d] \in Launching /\ stand[e] \in Launching => d = e
  /\ \A d \in Dispatchers :
       /\ stand[d] = "write" => paramsFile = "torn"
       /\ stand[d] = "launch" => paramsFile = wish[d]
       /\ stand[d] \in Launching => dispatched = 0
       /\ stand[d] \in Resuming => paramsFile = wish[d]
  /\ paramsFile = Void => dispatched = 0
  /\ dispatched = 0 => unit = "absent" /\ given = Void /\ granted = {}
  /\ dispatched # 0 => dispatched = 1 /\ given = paramsFile /\ given \in Params
  /\ granted \subseteq {given}

\* A run of the plan that none of these calls began is one they would count.
RestartsAreCurrent ==
  \A d \in Dispatchers :
    /\ lookedAt[d] <= launches
    /\ stand[d] \in {"results", "restart"} /\ lookedAt[d] = launches => unit # "active"
    /\ stand[d] = "restart" /\ lookedAt[d] = launches => filed[Result] = "absent"

\* What is exported is closed but for what is still to be visited, and what is
\* received is in place but for what is still to be published.
BundlesAreClosed ==
  \A d \in Dispatchers :
    /\ stand[d] \notin Receiving \cup {"visit"} => bundle[d] = {} /\ frontier[d] = {}
    /\ \A p \in bundle[d] : Cites[p] \subseteq bundle[d] \cup frontier[d]
    /\ bundle[d] \cup frontier[d] # {} => Result \in bundle[d] \cup frontier[d]
    /\ stand[d] \in Receiving => bundle[d] # {} /\ frontier[d] \subseteq bundle[d]

PapersAreInPlace ==
  \A d \in Dispatchers :
    /\ stand[d] # "index" => \A p \in Papers : placed[p] # d
    /\ \A p, q \in Papers : placed[p] = d /\ placed[q] = d => p = q
    /\ stand[d] \in Receiving =>
         \A p \in bundle[d] \ frontier[d] : placed[p] \in {"whole", d}

DispatchInv ==
  /\ DispatchTypeOK /\ DispatchOnce /\ RestartsAreCurrent
  /\ BundlesAreClosed /\ PapersAreInPlace /\ DeliveryIsClosed

LEMMA DispatchStart == DispatchInit => DispatchInv
<1> SUFFICES ASSUME DispatchInit PROVE DispatchInv OBVIOUS
<1> USE DispatchAssumption DEF DispatchInit
<1>1. DispatchTypeOK
  <2>1. (CHOOSE w \in Params : TRUE) \in Params OBVIOUS
  <2> QED BY <2>1 DEF DispatchTypeOK, FileStates
<1>2. DispatchOnce BY DEF DispatchOnce, Launching, Resuming
<1>3. RestartsAreCurrent BY DEF RestartsAreCurrent
<1>4. BundlesAreClosed BY DEF BundlesAreClosed, Receiving
<1>5. PapersAreInPlace BY DEF PapersAreInPlace, Receiving
<1>6. DeliveryIsClosed BY DEF DeliveryIsClosed
<1> QED BY <1>1, <1>2, <1>3, <1>4, <1>5, <1>6 DEF DispatchInv

LEMMA DispatchTypes == DispatchInv /\ [DispatchNext]_dispatchVars => DispatchTypeOK'
<1> SUFFICES ASSUME DispatchInv, [DispatchNext]_dispatchVars PROVE DispatchTypeOK' OBVIOUS
<1> USE DispatchAssumption DEF DispatchInv, Go, native, delivery, carried, DispatchTypeOK, FileStates
<1>1. CASE \E d \in Dispatchers : \E w \in Params : \E action \in {"create", "compare", "visit"} : Ask(d, action, w) BY <1>1 DEF Ask
<1>2. CASE \E d \in Dispatchers : CreateParams(d) BY <1>2 DEF CreateParams
<1>3. CASE \E d \in Dispatchers : WriteParams(d) BY <1>3 DEF WriteParams
<1>4. CASE \E d \in Dispatchers : LaunchUnit(d) BY <1>4 DEF LaunchUnit, RunPlan, Grant
<1>5. CASE \E d \in Dispatchers : CompareParams(d) BY <1>5 DEF CompareParams, SameParams
<1>6. CASE \E d \in Dispatchers : LookAtUnit(d) BY <1>6 DEF LookAtUnit, Resumable
<1>7. CASE \E d \in Dispatchers : LookForResult(d) BY <1>7 DEF LookForResult
<1>8. CASE \E d \in Dispatchers : RestartUnit(d) BY <1>8 DEF RestartUnit, RunPlan, Grant
<1>9. CASE \E d \in Dispatchers : FindResult(d) BY <1>9 DEF FindResult
<1>10. CASE \E d \in Dispatchers : \E p \in Papers : Visit(d, p) BY <1>10 DEF Visit, Unvisited
<1>11. CASE \E d \in Dispatchers : Exported(d) BY <1>11 DEF Exported
<1>12. CASE \E d \in Dispatchers : \E p \in Papers : LinkPaper(d, p) BY <1>12 DEF LinkPaper
<1>13. CASE \E d \in Dispatchers : \E p \in Papers : UnlinkPaper(d, p) BY <1>13 DEF UnlinkPaper
<1>14. CASE \E d \in Dispatchers : \E p \in Papers : ReadBackPaper(d, p) BY <1>14 DEF ReadBackPaper
<1>15. CASE \E d \in Dispatchers : Deliver(d) BY <1>15 DEF Deliver
<1>16. CASE \E d \in Dispatchers : StopDispatch(d) BY <1>16 DEF StopDispatch
<1>17. CASE PlanWorks BY <1>17 DEF PlanWorks, LinkFiled, UnlinkFiled
<1>18. CASE UnitEnds BY <1>18 DEF UnitEnds
<1>19. CASE UNCHANGED dispatchVars BY <1>19 DEF dispatchVars
<1> QED BY <1>1, <1>2, <1>3, <1>4, <1>5, <1>6, <1>7, <1>8, <1>9, <1>10, <1>11, <1>12, <1>13, <1>14, <1>15, <1>16, <1>17, <1>18, <1>19 DEF DispatchNext

\* Only the one who writes the parameters changes them, and only before the launch.
LEMMA OnceStep == DispatchInv /\ [DispatchNext]_dispatchVars => DispatchOnce'
<1> SUFFICES ASSUME DispatchInv, [DispatchNext]_dispatchVars PROVE DispatchOnce' OBVIOUS
<1> USE DispatchAssumption DEF DispatchInv, Go, native, delivery, carried, DispatchTypeOK, DispatchOnce, Launching, Resuming
<1>1. CASE \E d \in Dispatchers : \E w \in Params : \E action \in {"create", "compare", "visit"} : Ask(d, action, w) BY <1>1 DEF Ask
<1>2. CASE \E d \in Dispatchers : CreateParams(d) BY <1>2 DEF CreateParams
<1>3. CASE \E d \in Dispatchers : WriteParams(d) BY <1>3 DEF WriteParams
<1>4. CASE \E d \in Dispatchers : LaunchUnit(d) BY <1>4 DEF LaunchUnit, RunPlan, Grant
<1>5. CASE \E d \in Dispatchers : CompareParams(d) BY <1>5 DEF CompareParams, SameParams
<1>6. CASE \E d \in Dispatchers : LookAtUnit(d) BY <1>6 DEF LookAtUnit, Resumable
<1>7. CASE \E d \in Dispatchers : LookForResult(d) BY <1>7 DEF LookForResult
<1>8. CASE \E d \in Dispatchers : RestartUnit(d) BY <1>8 DEF RestartUnit, RunPlan, Grant
<1>9. CASE \E d \in Dispatchers : FindResult(d) BY <1>9 DEF FindResult
<1>10. CASE \E d \in Dispatchers : \E p \in Papers : Visit(d, p) BY <1>10 DEF Visit, Unvisited
<1>11. CASE \E d \in Dispatchers : Exported(d) BY <1>11 DEF Exported
<1>12. CASE \E d \in Dispatchers : \E p \in Papers : LinkPaper(d, p) BY <1>12 DEF LinkPaper
<1>13. CASE \E d \in Dispatchers : \E p \in Papers : UnlinkPaper(d, p) BY <1>13 DEF UnlinkPaper
<1>14. CASE \E d \in Dispatchers : \E p \in Papers : ReadBackPaper(d, p) BY <1>14 DEF ReadBackPaper
<1>15. CASE \E d \in Dispatchers : Deliver(d) BY <1>15 DEF Deliver
<1>16. CASE \E d \in Dispatchers : StopDispatch(d) BY <1>16 DEF StopDispatch
<1>17. CASE PlanWorks BY <1>17 DEF PlanWorks, LinkFiled, UnlinkFiled
<1>18. CASE UnitEnds BY <1>18 DEF UnitEnds
<1>19. CASE UNCHANGED dispatchVars BY <1>19 DEF dispatchVars
<1> QED BY <1>1, <1>2, <1>3, <1>4, <1>5, <1>6, <1>7, <1>8, <1>9, <1>10, <1>11, <1>12, <1>13, <1>14, <1>15, <1>16, <1>17, <1>18, <1>19 DEF DispatchNext

\* A plan that ran when it was seen at rest was begun since.
LEMMA CurrentStep == DispatchInv /\ [DispatchNext]_dispatchVars => RestartsAreCurrent'
<1> SUFFICES ASSUME DispatchInv, [DispatchNext]_dispatchVars PROVE RestartsAreCurrent' OBVIOUS
<1> USE DispatchAssumption DEF DispatchInv, Go, native, delivery, carried, DispatchTypeOK, RestartsAreCurrent
<1>1. CASE \E d \in Dispatchers : \E w \in Params : \E action \in {"create", "compare", "visit"} : Ask(d, action, w) BY <1>1 DEF Ask
<1>2. CASE \E d \in Dispatchers : CreateParams(d) BY <1>2 DEF CreateParams
<1>3. CASE \E d \in Dispatchers : WriteParams(d) BY <1>3 DEF WriteParams
<1>4. CASE \E d \in Dispatchers : LaunchUnit(d) BY <1>4 DEF LaunchUnit, RunPlan, Grant
<1>5. CASE \E d \in Dispatchers : CompareParams(d) BY <1>5 DEF CompareParams, SameParams
<1>6. CASE \E d \in Dispatchers : LookAtUnit(d) BY <1>6 DEF LookAtUnit, Resumable
<1>7. CASE \E d \in Dispatchers : LookForResult(d) BY <1>7 DEF LookForResult
<1>8. CASE \E d \in Dispatchers : RestartUnit(d) BY <1>8 DEF RestartUnit, RunPlan, Grant
<1>9. CASE \E d \in Dispatchers : FindResult(d) BY <1>9 DEF FindResult
<1>10. CASE \E d \in Dispatchers : \E p \in Papers : Visit(d, p) BY <1>10 DEF Visit, Unvisited
<1>11. CASE \E d \in Dispatchers : Exported(d) BY <1>11 DEF Exported
<1>12. CASE \E d \in Dispatchers : \E p \in Papers : LinkPaper(d, p) BY <1>12 DEF LinkPaper
<1>13. CASE \E d \in Dispatchers : \E p \in Papers : UnlinkPaper(d, p) BY <1>13 DEF UnlinkPaper
<1>14. CASE \E d \in Dispatchers : \E p \in Papers : ReadBackPaper(d, p) BY <1>14 DEF ReadBackPaper
<1>15. CASE \E d \in Dispatchers : Deliver(d) BY <1>15 DEF Deliver
<1>16. CASE \E d \in Dispatchers : StopDispatch(d) BY <1>16 DEF StopDispatch
<1>17. CASE PlanWorks BY <1>17 DEF PlanWorks, LinkFiled, UnlinkFiled
<1>18. CASE UnitEnds BY <1>18 DEF UnitEnds
<1>19. CASE UNCHANGED dispatchVars BY <1>19 DEF dispatchVars
<1> QED BY <1>1, <1>2, <1>3, <1>4, <1>5, <1>6, <1>7, <1>8, <1>9, <1>10, <1>11, <1>12, <1>13, <1>14, <1>15, <1>16, <1>17, <1>18, <1>19 DEF DispatchNext

LEMMA BundlesStep == DispatchInv /\ [DispatchNext]_dispatchVars => BundlesAreClosed'
<1> SUFFICES ASSUME DispatchInv, [DispatchNext]_dispatchVars PROVE BundlesAreClosed' OBVIOUS
<1> USE DispatchAssumption DEF DispatchInv, Go, native, delivery, carried, DispatchTypeOK, BundlesAreClosed, Receiving
<1>1. CASE \E d \in Dispatchers : \E w \in Params : \E action \in {"create", "compare", "visit"} : Ask(d, action, w) BY <1>1 DEF Ask
<1>2. CASE \E d \in Dispatchers : CreateParams(d) BY <1>2 DEF CreateParams
<1>3. CASE \E d \in Dispatchers : WriteParams(d) BY <1>3 DEF WriteParams
<1>4. CASE \E d \in Dispatchers : LaunchUnit(d) BY <1>4 DEF LaunchUnit, RunPlan, Grant
<1>5. CASE \E d \in Dispatchers : CompareParams(d) BY <1>5 DEF CompareParams, SameParams
<1>6. CASE \E d \in Dispatchers : LookAtUnit(d) BY <1>6 DEF LookAtUnit, Resumable
<1>7. CASE \E d \in Dispatchers : LookForResult(d) BY <1>7 DEF LookForResult
<1>8. CASE \E d \in Dispatchers : RestartUnit(d) BY <1>8 DEF RestartUnit, RunPlan, Grant
<1>9. CASE \E d \in Dispatchers : FindResult(d) BY <1>9 DEF FindResult
<1>10. CASE \E d \in Dispatchers : \E p \in Papers : Visit(d, p) BY <1>10 DEF Visit, Unvisited
<1>11. CASE \E d \in Dispatchers : Exported(d) BY <1>11 DEF Exported
<1>12. CASE \E d \in Dispatchers : \E p \in Papers : LinkPaper(d, p) BY <1>12 DEF LinkPaper
<1>13. CASE \E d \in Dispatchers : \E p \in Papers : UnlinkPaper(d, p) BY <1>13 DEF UnlinkPaper
<1>14. CASE \E d \in Dispatchers : \E p \in Papers : ReadBackPaper(d, p) BY <1>14 DEF ReadBackPaper
<1>15. CASE \E d \in Dispatchers : Deliver(d) BY <1>15 DEF Deliver
<1>16. CASE \E d \in Dispatchers : StopDispatch(d) BY <1>16 DEF StopDispatch
<1>17. CASE PlanWorks BY <1>17 DEF PlanWorks, LinkFiled, UnlinkFiled
<1>18. CASE UnitEnds BY <1>18 DEF UnitEnds
<1>19. CASE UNCHANGED dispatchVars BY <1>19 DEF dispatchVars
<1> QED BY <1>1, <1>2, <1>3, <1>4, <1>5, <1>6, <1>7, <1>8, <1>9, <1>10, <1>11, <1>12, <1>13, <1>14, <1>15, <1>16, <1>17, <1>18, <1>19 DEF DispatchNext

LEMMA PlaceStep == DispatchInv /\ [DispatchNext]_dispatchVars => PapersAreInPlace'
<1> SUFFICES ASSUME DispatchInv, [DispatchNext]_dispatchVars PROVE PapersAreInPlace' OBVIOUS
<1> USE DispatchAssumption DEF DispatchInv, Go, native, delivery, carried, DispatchTypeOK, FileStates, BundlesAreClosed, PapersAreInPlace, Receiving
<1>1. CASE \E d \in Dispatchers : \E w \in Params : \E action \in {"create", "compare", "visit"} : Ask(d, action, w) BY <1>1 DEF Ask
<1>2. CASE \E d \in Dispatchers : CreateParams(d) BY <1>2 DEF CreateParams
<1>3. CASE \E d \in Dispatchers : WriteParams(d) BY <1>3 DEF WriteParams
<1>4. CASE \E d \in Dispatchers : LaunchUnit(d) BY <1>4 DEF LaunchUnit, RunPlan, Grant
<1>5. CASE \E d \in Dispatchers : CompareParams(d) BY <1>5 DEF CompareParams, SameParams
<1>6. CASE \E d \in Dispatchers : LookAtUnit(d) BY <1>6 DEF LookAtUnit, Resumable
<1>7. CASE \E d \in Dispatchers : LookForResult(d) BY <1>7 DEF LookForResult
<1>8. CASE \E d \in Dispatchers : RestartUnit(d) BY <1>8 DEF RestartUnit, RunPlan, Grant
<1>9. CASE \E d \in Dispatchers : FindResult(d) BY <1>9 DEF FindResult
<1>10. CASE \E d \in Dispatchers : \E p \in Papers : Visit(d, p) BY <1>10 DEF Visit, Unvisited
<1>11. CASE \E d \in Dispatchers : Exported(d) BY <1>11 DEF Exported
<1>12. CASE \E d \in Dispatchers : \E p \in Papers : LinkPaper(d, p) BY <1>12 DEF LinkPaper
<1>13. CASE \E d \in Dispatchers : \E p \in Papers : UnlinkPaper(d, p) BY <1>13 DEF UnlinkPaper
<1>14. CASE \E d \in Dispatchers : \E p \in Papers : ReadBackPaper(d, p) BY <1>14 DEF ReadBackPaper
<1>15. CASE \E d \in Dispatchers : Deliver(d) BY <1>15 DEF Deliver
<1>16. CASE \E d \in Dispatchers : StopDispatch(d) BY <1>16 DEF StopDispatch
<1>17. CASE PlanWorks BY <1>17 DEF PlanWorks, LinkFiled, UnlinkFiled
<1>18. CASE UnitEnds BY <1>18 DEF UnitEnds
<1>19. CASE UNCHANGED dispatchVars BY <1>19 DEF dispatchVars
<1> QED BY <1>1, <1>2, <1>3, <1>4, <1>5, <1>6, <1>7, <1>8, <1>9, <1>10, <1>11, <1>12, <1>13, <1>14, <1>15, <1>16, <1>17, <1>18, <1>19 DEF DispatchNext

LEMMA ClosedStep == DispatchInv /\ [DispatchNext]_dispatchVars => DeliveryIsClosed'
<1> SUFFICES ASSUME DispatchInv, [DispatchNext]_dispatchVars PROVE DeliveryIsClosed' OBVIOUS
<1> USE DispatchAssumption DEF DispatchInv, Go, native, delivery, carried, DispatchTypeOK, FileStates, BundlesAreClosed, PapersAreInPlace, Receiving, DeliveryIsClosed
<1>1. CASE \E d \in Dispatchers : \E w \in Params : \E action \in {"create", "compare", "visit"} : Ask(d, action, w) BY <1>1 DEF Ask
<1>2. CASE \E d \in Dispatchers : CreateParams(d) BY <1>2 DEF CreateParams
<1>3. CASE \E d \in Dispatchers : WriteParams(d) BY <1>3 DEF WriteParams
<1>4. CASE \E d \in Dispatchers : LaunchUnit(d) BY <1>4 DEF LaunchUnit, RunPlan, Grant
<1>5. CASE \E d \in Dispatchers : CompareParams(d) BY <1>5 DEF CompareParams, SameParams
<1>6. CASE \E d \in Dispatchers : LookAtUnit(d) BY <1>6 DEF LookAtUnit, Resumable
<1>7. CASE \E d \in Dispatchers : LookForResult(d) BY <1>7 DEF LookForResult
<1>8. CASE \E d \in Dispatchers : RestartUnit(d) BY <1>8 DEF RestartUnit, RunPlan, Grant
<1>9. CASE \E d \in Dispatchers : FindResult(d) BY <1>9 DEF FindResult
<1>10. CASE \E d \in Dispatchers : \E p \in Papers : Visit(d, p) BY <1>10 DEF Visit, Unvisited
<1>11. CASE \E d \in Dispatchers : Exported(d) BY <1>11 DEF Exported
<1>12. CASE \E d \in Dispatchers : \E p \in Papers : LinkPaper(d, p) BY <1>12 DEF LinkPaper
<1>13. CASE \E d \in Dispatchers : \E p \in Papers : UnlinkPaper(d, p) BY <1>13 DEF UnlinkPaper
<1>14. CASE \E d \in Dispatchers : \E p \in Papers : ReadBackPaper(d, p) BY <1>14 DEF ReadBackPaper
<1>15. CASE \E d \in Dispatchers : Deliver(d) BY <1>15 DEF Deliver
<1>16. CASE \E d \in Dispatchers : StopDispatch(d) BY <1>16 DEF StopDispatch
<1>17. CASE PlanWorks BY <1>17 DEF PlanWorks, LinkFiled, UnlinkFiled
<1>18. CASE UnitEnds BY <1>18 DEF UnitEnds
<1>19. CASE UNCHANGED dispatchVars BY <1>19 DEF dispatchVars
<1> QED BY <1>1, <1>2, <1>3, <1>4, <1>5, <1>6, <1>7, <1>8, <1>9, <1>10, <1>11, <1>12, <1>13, <1>14, <1>15, <1>16, <1>17, <1>18, <1>19 DEF DispatchNext

LEMMA DispatchStep == DispatchInv /\ [DispatchNext]_dispatchVars => DispatchInv'
BY DispatchTypes, OnceStep, CurrentStep, BundlesStep, PlaceStep, ClosedStep DEF DispatchInv
-------------------------------------------------------------------------------
(***************************************************************************)
(* Photos.  A call that runs by itself has its partial file to itself; an  *)
(* inode is written by the call that made it until it is renamed, and      *)
(* named once.                                                             *)
(***************************************************************************)
Told(c, r) == <<c, r>> \in returned \/ r \in downloaded[c]

CallsFit ==
  \A c \in Downloads :
    /\ step[c] \in {"open", "write", "rename"} => target[c] \in Places /\ item[c] <= Len(Items)
    /\ step[c] \notin {"open", "write", "rename"} => target[c] = Nothing
    /\ step[c] \in {"write", "rename"} => writes[c] \in Inodes
    /\ step[c] \notin {"write", "rename"} => writes[c] = Nothing
    /\ step[c] \in {"idle", "over"} => downloaded[c] = {}
    /\ \A r \in Rows : <<c, r>> \in returned => step[c] = "over"

\* An inode that call c has made, or will not make any more.
Spent(n) ==
  \/ step[n[1]] = "over"
  \/ step[n[1]] # "idle" /\ n[2] < item[n[1]]
  \/ step[n[1]] \in {"write", "rename"} /\ n[2] = item[n[1]]

InodesAreSpent ==
  /\ \A f \in Places : held[f] # Nothing => Spent(held[f])
  /\ \A f \in Places : partial[f] # Nothing => Spent(partial[f])
  /\ \A c \in Downloads : writes[c] # Nothing => Spent(writes[c])

NamedOnce ==
  /\ \A f, g \in Places : partial[f] # Nothing /\ partial[f] = partial[g] => f = g
  /\ \A f, g \in Places : held[f] # Nothing => held[f] # partial[g]

\* What a call that runs alone is about.
Alone ==
  \A c \in Running : c \notin overlapped =>
    /\ \A d \in Running : d = c
    /\ step[c] \in {"open", "write", "rename"} => held[target[c]] = Nothing
    /\ step[c] \in {"write", "rename"} => partial[target[c]] = writes[c]
    /\ step[c] = "write" => bytes[writes[c]] = "empty"
    /\ step[c] = "rename" => bytes[writes[c]] = Items[item[c]]

\* What was downloaded by a call that ran alone.
Settled ==
  /\ \A c \in Downloads, r \in Rows : Told(c, r) => held[r.place] # Nothing
  /\ \A c \in Downloads, r \in Rows : Told(c, r) /\ c \notin overlapped =>
       /\ bytes[held[r.place]] = r.is
       /\ \A d \in Downloads : target[d] # r.place /\ writes[d] # held[r.place]
  /\ \A c, d \in Downloads, r, q \in Rows :
       Told(c, r) /\ c \notin overlapped /\ Told(d, q) /\ q.place = r.place => c = d /\ q = r

PhotosInv == PhotosTypeOK /\ CallsFit /\ InodesAreSpent /\ NamedOnce /\ Alone /\ Settled

LEMMA PhotosShape ==
  /\ Len(Items) \in Nat /\ DOMAIN Items = 1 .. Len(Items) /\ DOMAIN Names = DOMAIN Items
  /\ \A i \in DOMAIN Items : Items[i] # "empty" /\ Items[i] # "mixed"
  /\ Nothing \notin Inodes /\ Nothing \notin Places
<1>1. Items \in Seq({Items[i] : i \in DOMAIN Items}) BY PhotosAssumption
<1>2. Len(Items) \in Nat /\ DOMAIN Items = 1 .. Len(Items) BY <1>1
<1> QED BY <1>2, PhotosAssumption

LEMMA InodeShape ==
  /\ \A c \in Downloads, i \in DOMAIN Items : <<c, i>> \in Inodes
  /\ \A n \in Inodes : n[1] \in Downloads /\ n[2] \in DOMAIN Items /\ n = <<n[1], n[2]>>
BY DEF Inodes

LEMMA ChoicesFit ==
  ASSUME NEW names \in Seq(Places), NEW f, UniquePath(names, f)
  PROVE  f \in Places /\ held[f] = Nothing
<1>1. PICK n \in DOMAIN names : f = names[n] /\ held[f] = Nothing BY DEF UniquePath
<1> QED BY <1>1

LEMMA NamesFit ==
  ASSUME PhotosTypeOK, NEW c \in Downloads, item[c] <= Len(Items)
  PROVE  item[c] \in DOMAIN Items /\ Names[item[c]] \in Seq(Places)
<1>1. item[c] \in 1 .. Len(Items) BY PhotosShape DEF PhotosTypeOK
<1> QED BY <1>1, PhotosShape, PhotosAssumption

\* The end of an item.
LEMMA NextFits ==
  ASSUME PhotosTypeOK, CallsFit, NEW c \in Downloads, NextItem(c),
         step[c] \in {"open", "write", "rename"}
  PROVE  /\ step' \in [Downloads -> {"idle", "choose", "open", "write", "rename", "over"}]
         /\ item' \in [Downloads -> 1 .. Len(Items) + 1]
         /\ target' \in [Downloads -> Places \cup {Nothing}]
         /\ writes' \in [Downloads -> Inodes \cup {Nothing}]
         /\ item[c] \in DOMAIN Items /\ target[c] \in Places
<1>1. target[c] \in Places /\ item[c] <= Len(Items) BY DEF CallsFit
<1>2. item[c] \in 1 .. Len(Items) BY <1>1, PhotosShape DEF PhotosTypeOK
<1>3. item[c] + 1 \in 1 .. Len(Items) + 1 BY <1>2, PhotosShape
<1>4. item' \in [Downloads -> 1 .. Len(Items) + 1]
  BY <1>3 DEF NextItem, PhotosTypeOK
<1> QED BY <1>1, <1>2, <1>4, PhotosShape DEF NextItem, Step, PhotosTypeOK

\* The inode that call c writes from here.
Opened(c) == IF partial[target[c]] = Nothing THEN <<c, item[c]>> ELSE partial[target[c]]

LEMMA OpenedFits ==
  ASSUME PhotosInv, NEW c \in Downloads, OpenPartial(c)
  PROVE  /\ target[c] \in Places /\ item[c] \in DOMAIN Items /\ Opened(c) \in Inodes
         /\ partial' = [partial EXCEPT ![target[c]] = Opened(c)]
         /\ writes' = [writes EXCEPT ![c] = Opened(c)]
         /\ bytes' = [bytes EXCEPT ![Opened(c)] = "empty"]
         /\ partial[target[c]] = Nothing => Opened(c) = <<c, item[c]>> /\ ~ Spent(Opened(c))
<1>1. target[c] \in Places /\ item[c] <= Len(Items) BY DEF OpenPartial, PhotosInv, CallsFit
<1>2. item[c] \in DOMAIN Items BY <1>1, NamesFit DEF PhotosInv
<1>3. <<c, item[c]>> \in Inodes BY <1>2, InodeShape
<1>4. Opened(c) \in Inodes BY <1>1, <1>3 DEF Opened, PhotosInv, PhotosTypeOK
<1>5. ~ Spent(<<c, item[c]>>)
  <2>1. step[c] = "open" /\ item[c] \in Nat BY <1>2, PhotosShape DEF OpenPartial
  <2> QED BY <2>1 DEF Spent
<1> QED BY <1>1, <1>2, <1>4, <1>5 DEF OpenPartial, Opened

\* An inode that is spent stays so.
LEMMA SpentStays ==
  ASSUME PhotosTypeOK, NEW c \in Downloads, NEW s, step' = [step EXCEPT ![c] = s], s # "idle",
         \/ step[c] = "idle" \/ s = "over"
         \/ step[c] # "over" /\ item' = [item EXCEPT ![c] = @ + 1]
         \/ step[c] # "over" /\ item' = item /\ (step[c] \in {"write", "rename"} => s \in {"write", "rename"}),
         \A d \in Downloads \ {c} : item'[d] = item[d]
  PROVE  \A n \in Inodes : Spent(n) => Spent(n)'
<1> SUFFICES ASSUME NEW n \in Inodes, Spent(n) PROVE Spent(n)' OBVIOUS
<1>1. n[1] \in Downloads /\ n[2] \in Nat BY InodeShape, PhotosShape
<1>2. CASE n[1] # c BY <1>1, <1>2 DEF Spent, PhotosTypeOK
<1>3. CASE n[1] = c
  <2>1. step'[c] = s BY DEF PhotosTypeOK
  <2>2. CASE s = "over" BY <1>3, <2>1, <2>2 DEF Spent
  <2>3. CASE step[c] = "idle" BY <1>3, <2>3 DEF Spent
  <2>4. CASE step[c] # "over" /\ item' = [item EXCEPT ![c] = @ + 1]
    <3>1. item'[c] = item[c] + 1 /\ item[c] \in Nat BY <2>4, PhotosShape DEF PhotosTypeOK
    <3> QED BY <1>1, <1>3, <2>1, <2>4, <3>1 DEF Spent
  <2>5. CASE step[c] # "over" /\ item' = item /\ (step[c] \in {"write", "rename"} => s \in {"write", "rename"})
    BY <1>1, <1>3, <2>1, <2>5 DEF Spent
  <2> QED BY <2>2, <2>3, <2>4, <2>5
<1> QED BY <1>2, <1>3

\* While a call runs, one that runs alone is that call.
LEMMA OneAlone ==
  ASSUME PhotosInv, NEW c \in Running, NEW d \in Running, d \notin overlapped
  PROVE  d = c
BY DEF PhotosInv, Alone

LEMMA PhotosStart == PhotosInit => PhotosInv
<1> SUFFICES ASSUME PhotosInit PROVE PhotosInv OBVIOUS
<1> USE PhotosShape DEF PhotosInit
<1>1. PhotosTypeOK BY DEF PhotosTypeOK, Contents
<1>2. CallsFit /\ InodesAreSpent /\ NamedOnce BY DEF CallsFit, InodesAreSpent, NamedOnce
<1>3. Alone BY DEF Alone, Running
<1>4. Settled BY DEF Settled, Told
<1> QED BY <1>1, <1>2, <1>3, <1>4 DEF PhotosInv

LEMMA PhotosTypes == PhotosInv /\ [PhotosNext]_photoVars => PhotosTypeOK'
<1> SUFFICES ASSUME PhotosInv, [PhotosNext]_photoVars PROVE PhotosTypeOK' OBVIOUS
<1> USE PhotosShape DEF PhotosInv, files, Step, PhotosTypeOK, CallsFit, Contents
<1>1. CASE \E c \in Downloads : Download(c)
  BY <1>1 DEF Download, Running
<1>2. CASE \E c \in Downloads : SkipItem(c) BY <1>2 DEF SkipItem
<1>3. CASE \E c \in Downloads : \E f \in Places : Choose(c, f) BY <1>3 DEF Choose, UniquePath
<1>4. CASE \E c \in Downloads : OpenPartial(c)
  <2> PICK c \in Downloads : OpenPartial(c) BY <1>4
  <2>1. partial' = [partial EXCEPT ![target[c]] = Opened(c)] /\ writes' = [writes EXCEPT ![c] = Opened(c)]
        /\ bytes' = [bytes EXCEPT ![Opened(c)] = "empty"] /\ Opened(c) \in Inodes
    BY OpenedFits
  <2>2. step' = [step EXCEPT ![c] = "write"] /\ UNCHANGED <<held, item, target, downloaded, returned, overlapped>>
        /\ target[c] \in Places BY OpenedFits DEF OpenPartial
  <2> HIDE DEF CallsFit, Opened
  <2> QED BY <2>1, <2>2
<1>5. CASE \E c \in Downloads : WritePartial(c) BY <1>5 DEF WritePartial
<1>6. CASE \E c \in Downloads : Rename(c)
  <2> PICK c \in Downloads : Rename(c) BY <1>6
  <2>1. NextItem(c) /\ step[c] = "rename" BY DEF Rename
  <2>2. item[c] \in DOMAIN Items /\ target[c] \in Places BY <2>1, NextFits
  <2>3. [place |-> target[c], is |-> Items[item[c]]] \in Rows BY <2>2 DEF Rows
  <2>4. downloaded' \in [Downloads -> SUBSET Rows] BY <2>3 DEF Rename
  <2> QED BY <2>1, <2>2, <2>4, NextFits DEF Rename
<1>7. CASE \E c \in Downloads : FailItem(c)
  <2> PICK c \in Downloads : FailItem(c) BY <1>7
  <2>1. NextItem(c) /\ step[c] \in {"open", "write", "rename"} BY DEF FailItem
  <2> QED BY <2>1, NextFits DEF FailItem
<1>8. CASE \E c \in Downloads : WriteManifest(c) BY <1>8 DEF WriteManifest, End
<1>9. CASE \E c \in Downloads : Die(c) BY <1>9 DEF Die, End
<1>10. CASE UNCHANGED photoVars BY <1>10 DEF photoVars
<1> QED BY <1>1, <1>2, <1>3, <1>4, <1>5, <1>6, <1>7, <1>8, <1>9, <1>10 DEF PhotosNext

LEMMA FitStep == PhotosInv /\ [PhotosNext]_photoVars => CallsFit'
<1> SUFFICES ASSUME PhotosInv, [PhotosNext]_photoVars PROVE CallsFit' OBVIOUS
<1>0. PhotosTypeOK' BY PhotosTypes
<1> USE PhotosShape DEF PhotosInv, files, Step, PhotosTypeOK, CallsFit
<1>1. CASE \E c \in Downloads : Download(c) BY <1>0, <1>1 DEF Download
<1>2. CASE \E c \in Downloads : SkipItem(c) BY <1>0, <1>2 DEF SkipItem
<1>3. CASE \E c \in Downloads : \E f \in Places : Choose(c, f) BY <1>0, <1>3 DEF Choose, UniquePath
<1>4. CASE \E c \in Downloads : OpenPartial(c)
  <2> PICK c \in Downloads : OpenPartial(c) BY <1>4
  <2>1. Opened(c) \in Inodes /\ writes' = [writes EXCEPT ![c] = Opened(c)] BY OpenedFits
  <2> QED BY <1>0, <2>1 DEF OpenPartial
<1>5. CASE \E c \in Downloads : WritePartial(c) BY <1>0, <1>5 DEF WritePartial
<1>6. CASE \E c \in Downloads : Rename(c)
  <2> PICK c \in Downloads : Rename(c) BY <1>6
  <2>1. step' = [step EXCEPT ![c] = "choose"] /\ target' = [target EXCEPT ![c] = Nothing]
        /\ writes' = [writes EXCEPT ![c] = Nothing] /\ step[c] = "rename"
        /\ (\A d \in Downloads \ {c} : item'[d] = item[d] /\ downloaded'[d] = downloaded[d])
        /\ returned' = returned
    BY DEF Rename, NextItem
  <2> QED BY <1>0, <2>1
<1>7. CASE \E c \in Downloads : FailItem(c) BY <1>0, <1>7 DEF FailItem, NextItem
<1>8. CASE \E c \in Downloads : WriteManifest(c) BY <1>0, <1>8 DEF WriteManifest, End
<1>9. CASE \E c \in Downloads : Die(c) BY <1>0, <1>9 DEF Die, End
<1>10. CASE UNCHANGED photoVars BY <1>0, <1>10 DEF photoVars
<1> QED BY <1>1, <1>2, <1>3, <1>4, <1>5, <1>6, <1>7, <1>8, <1>9, <1>10 DEF PhotosNext

LEMMA SpentStep == PhotosInv /\ [PhotosNext]_photoVars => InodesAreSpent'
<1> SUFFICES ASSUME PhotosInv, [PhotosNext]_photoVars PROVE InodesAreSpent' OBVIOUS
<1>0. PhotosTypeOK' BY PhotosTypes
<1> USE PhotosShape DEF PhotosInv, files, Step, PhotosTypeOK, CallsFit, InodesAreSpent, Spent
<1>1. CASE \E c \in Downloads : Download(c)
  <2> PICK c \in Downloads : Download(c) BY <1>1
  <2>1. \A n \in Inodes : Spent(n) => Spent(n)' BY SpentStays DEF Download
  <2> QED BY <1>0, <2>1 DEF Download
<1>2. CASE \E c \in Downloads : SkipItem(c)
  <2> PICK c \in Downloads : SkipItem(c) BY <1>2
  <2>1. step' = [step EXCEPT ![c] = "choose"] BY DEF SkipItem
  <2>2. step[c] = "choose" /\ item' = [item EXCEPT ![c] = @ + 1]
        /\ \A d \in Downloads \ {c} : item'[d] = item[d] BY DEF SkipItem
  <2> HIDE DEF Spent
  <2>3. \A n \in Inodes : Spent(n) => Spent(n)' BY <2>1, <2>2, SpentStays
  <2> QED BY <1>0, <2>3 DEF SkipItem
<1>3. CASE \E c \in Downloads : \E f \in Places : Choose(c, f)
  <2> PICK c \in Downloads, f \in Places : Choose(c, f) BY <1>3
  <2>1. \A n \in Inodes : Spent(n) => Spent(n)' BY SpentStays DEF Choose
  <2> QED BY <1>0, <2>1 DEF Choose
<1>4. CASE \E c \in Downloads : OpenPartial(c)
  <2> PICK c \in Downloads : OpenPartial(c) BY <1>4
  <2>1. \A n \in Inodes : Spent(n) => Spent(n)' BY SpentStays DEF OpenPartial
  <2> DEFINE inode == Opened(c)
  <2>2. inode \in Inodes /\ \A n \in Inodes : n = inode => Spent(n)'
    <3>1. CASE partial[target[c]] = Nothing
      <4>1. Opened(c) = <<c, item[c]>> /\ Opened(c) \in Inodes BY <3>1, OpenedFits
      <4>2. step'[c] = "write" /\ item'[c] = item[c] BY DEF OpenPartial
      <4> QED BY <4>1, <4>2 DEF Spent
    <3>2. CASE partial[target[c]] # Nothing
      <4>1. Opened(c) = partial[target[c]] /\ Opened(c) \in Inodes /\ target[c] \in Places
        BY <3>2, OpenedFits DEF Opened
      <4>2. Spent(Opened(c)) BY <3>2, <4>1
      <4> HIDE DEF Spent
      <4> QED BY <2>1, <4>1, <4>2
    <3> QED BY <3>1, <3>2
  <2>3. held' = held /\ partial' = [partial EXCEPT ![target[c]] = inode] /\ target[c] \in Places
        /\ writes' = [writes EXCEPT ![c] = inode] BY OpenedFits DEF OpenPartial
  <2> HIDE DEF Spent, inode
  <2> QED BY <1>0, <2>1, <2>2, <2>3
<1>5. CASE \E c \in Downloads : WritePartial(c)
  <2> PICK c \in Downloads : WritePartial(c) BY <1>5
  <2>1. \A n \in Inodes : Spent(n) => Spent(n)' BY SpentStays DEF WritePartial
  <2> HIDE DEF Spent
  <2> QED BY <1>0, <2>1 DEF WritePartial
<1>6. CASE \E c \in Downloads : Rename(c)
  <2> PICK c \in Downloads : Rename(c) BY <1>6
  <2>1. \A n \in Inodes : Spent(n) => Spent(n)' BY SpentStays DEF Rename, NextItem
  <2>2. target[c] \in Places /\ partial[target[c]] # Nothing BY DEF Rename
  <2>3. held' = [held EXCEPT ![target[c]] = partial[target[c]]]
        /\ partial' = [partial EXCEPT ![target[c]] = Nothing]
        /\ writes' = [writes EXCEPT ![c] = Nothing] BY DEF Rename, NextItem
  <2> HIDE DEF Spent
  <2> QED BY <1>0, <2>1, <2>2, <2>3
<1>7. CASE \E c \in Downloads : FailItem(c)
  <2> PICK c \in Downloads : FailItem(c) BY <1>7
  <2>1. \A n \in Inodes : Spent(n) => Spent(n)' BY SpentStays DEF FailItem, NextItem
  <2>2. held' = held /\ partial' = [partial EXCEPT ![target[c]] = Nothing]
        /\ writes' = [writes EXCEPT ![c] = Nothing] BY DEF FailItem, NextItem
  <2> HIDE DEF Spent
  <2> QED BY <1>0, <2>1, <2>2
<1>8. CASE \E c \in Downloads : WriteManifest(c)
  <2> PICK c \in Downloads : WriteManifest(c) BY <1>8
  <2>1. \A n \in Inodes : Spent(n) => Spent(n)' BY SpentStays DEF WriteManifest, End
  <2> HIDE DEF Spent
  <2> QED BY <1>0, <2>1 DEF WriteManifest, End
<1>9. CASE \E c \in Downloads : Die(c)
  <2> PICK c \in Downloads : Die(c) BY <1>9
  <2>1. \A n \in Inodes : Spent(n) => Spent(n)' BY SpentStays DEF Die, End
  <2> HIDE DEF Spent
  <2> QED BY <1>0, <2>1 DEF Die, End
<1>10. CASE UNCHANGED photoVars BY <1>0, <1>10 DEF photoVars
<1> QED BY <1>1, <1>2, <1>3, <1>4, <1>5, <1>6, <1>7, <1>8, <1>9, <1>10 DEF PhotosNext

LEMMA NamedStep == PhotosInv /\ [PhotosNext]_photoVars => NamedOnce'
<1> SUFFICES ASSUME PhotosInv, [PhotosNext]_photoVars PROVE NamedOnce' OBVIOUS
<1>0. PhotosTypeOK' BY PhotosTypes
<1> USE PhotosShape DEF PhotosInv, files, Step, PhotosTypeOK, CallsFit, InodesAreSpent, Spent, NamedOnce
<1>1. CASE \E c \in Downloads : Download(c) BY <1>0, <1>1 DEF Download
<1>2. CASE \E c \in Downloads : SkipItem(c) BY <1>0, <1>2 DEF SkipItem
<1>3. CASE \E c \in Downloads : \E f \in Places : Choose(c, f) BY <1>0, <1>3 DEF Choose, UniquePath
<1>4. CASE \E c \in Downloads : OpenPartial(c)
  <2> PICK c \in Downloads : OpenPartial(c) BY <1>4
  <2>1. held' = held /\ partial' = [partial EXCEPT ![target[c]] = Opened(c)] /\ target[c] \in Places
    BY OpenedFits DEF OpenPartial
  <2>2. CASE partial[target[c]] = Nothing
    <3>1. ~ Spent(Opened(c)) /\ Opened(c) \in Inodes BY <2>2, OpenedFits
    <3>2. \A f \in Places : held[f] # Opened(c) /\ partial[f] # Opened(c)
      BY <3>1, PhotosShape
    <3> HIDE DEF Spent
    <3> QED BY <1>0, <2>1, <3>2
  <2>3. CASE partial[target[c]] # Nothing
    <3>1. partial' = partial BY <2>1, <2>3 DEF Opened
    <3> QED BY <2>1, <3>1
  <2> QED BY <2>2, <2>3
<1>5. CASE \E c \in Downloads : WritePartial(c) BY <1>0, <1>5 DEF WritePartial
<1>6. CASE \E c \in Downloads : Rename(c)
  <2> PICK c \in Downloads : Rename(c) BY <1>6
  <2>1. held' = [held EXCEPT ![target[c]] = partial[target[c]]] /\ target[c] \in Places
        /\ partial' = [partial EXCEPT ![target[c]] = Nothing] /\ partial[target[c]] # Nothing
    BY DEF Rename
  <2> HIDE DEF Spent, InodesAreSpent
  <2> QED BY <1>0, <2>1
<1>7. CASE \E c \in Downloads : FailItem(c)
  <2> PICK c \in Downloads : FailItem(c) BY <1>7
  <2>1. held' = held /\ partial' = [partial EXCEPT ![target[c]] = Nothing] /\ target[c] \in Places
    BY DEF FailItem
  <2> HIDE DEF Spent, InodesAreSpent
  <2> QED BY <1>0, <2>1
<1>8. CASE \E c \in Downloads : WriteManifest(c) BY <1>0, <1>8 DEF WriteManifest, End
<1>9. CASE \E c \in Downloads : Die(c) BY <1>0, <1>9 DEF Die, End
<1>10. CASE UNCHANGED photoVars BY <1>0, <1>10 DEF photoVars
<1> QED BY <1>1, <1>2, <1>3, <1>4, <1>5, <1>6, <1>7, <1>8, <1>9, <1>10 DEF PhotosNext

LEMMA AloneStep == PhotosInv /\ [PhotosNext]_photoVars => Alone'
<1> SUFFICES ASSUME PhotosInv, [PhotosNext]_photoVars PROVE Alone' OBVIOUS
<1>0. PhotosTypeOK' BY PhotosTypes
<1> USE PhotosShape DEF PhotosInv, files, Step, PhotosTypeOK, CallsFit, Running, Alone
<1>1. CASE \E c \in Downloads : Download(c) BY <1>0, <1>1 DEF Download
<1>2. CASE \E c \in Downloads : SkipItem(c) BY <1>0, <1>2 DEF SkipItem
<1>3. CASE \E c \in Downloads : \E f \in Places : Choose(c, f) BY <1>0, <1>3 DEF Choose, UniquePath
<1>4. CASE \E c \in Downloads : OpenPartial(c)
  <2> PICK c \in Downloads : OpenPartial(c) BY <1>4
  <2>1. c \in Running /\ Running' \subseteq Running /\ overlapped' = overlapped BY DEF OpenPartial
  <2>2. \A d \in Running' : d \notin overlapped' => d = c BY <2>1, OneAlone
  <2>3. step'[c] = "write" /\ target'[c] = target[c] /\ held' = held BY DEF OpenPartial
  <2>4. partial'[target[c]] = writes'[c] /\ bytes'[writes'[c]] = "empty" BY OpenedFits
  <2>5. c \notin overlapped => held[target[c]] = Nothing BY <2>1 DEF OpenPartial
  <2> QED BY <2>1, <2>2, <2>3, <2>4, <2>5
<1>5. CASE \E c \in Downloads : WritePartial(c)
  <2> PICK c \in Downloads : WritePartial(c) BY <1>5
  <2>1. c \in Running /\ Running' \subseteq Running /\ overlapped' = overlapped BY DEF WritePartial
  <2>2. \A d \in Running' : d \notin overlapped' => d = c BY <2>1, OneAlone
  <2>3. UNCHANGED <<held, partial, target, writes, item>> /\ step'[c] = "rename" BY DEF WritePartial
  <2>4. c \notin overlapped => bytes'[writes[c]] = Items[item[c]]
    <3>1. c \notin overlapped => bytes[writes[c]] = "empty" BY <2>1 DEF WritePartial
    <3> QED BY <3>1 DEF WritePartial
  <2>5. c \notin overlapped => held[target[c]] = Nothing /\ partial[target[c]] = writes[c]
    BY <2>1 DEF WritePartial
  <2> QED BY <2>1, <2>2, <2>3, <2>4, <2>5
<1>6. CASE \E c \in Downloads : Rename(c)
  <2> PICK c \in Downloads : Rename(c) BY <1>6
  <2>1. c \in Running /\ Running' \subseteq Running /\ overlapped' = overlapped BY DEF Rename, NextItem
  <2>2. \A d \in Running' : d \notin overlapped' => d = c BY <2>1, OneAlone
  <2>3. step'[c] = "choose" BY DEF Rename, NextItem
  <2> QED BY <2>1, <2>2, <2>3
<1>7. CASE \E c \in Downloads : FailItem(c)
  <2> PICK c \in Downloads : FailItem(c) BY <1>7
  <2>1. c \in Running /\ Running' \subseteq Running /\ overlapped' = overlapped BY DEF FailItem, NextItem
  <2>2. \A d \in Running' : d \notin overlapped' => d = c BY <2>1, OneAlone
  <2>3. step'[c] = "choose" BY DEF FailItem, NextItem
  <2> QED BY <2>1, <2>2, <2>3
<1>8. CASE \E c \in Downloads : WriteManifest(c) BY <1>0, <1>8 DEF WriteManifest, End
<1>9. CASE \E c \in Downloads : Die(c) BY <1>0, <1>9 DEF Die, End
<1>10. CASE UNCHANGED photoVars BY <1>0, <1>10 DEF photoVars
<1> QED BY <1>1, <1>2, <1>3, <1>4, <1>5, <1>6, <1>7, <1>8, <1>9, <1>10 DEF PhotosNext

LEMMA SettledStep == PhotosInv /\ [PhotosNext]_photoVars => Settled'
<1> SUFFICES ASSUME PhotosInv, [PhotosNext]_photoVars PROVE Settled' OBVIOUS
<1>0. PhotosTypeOK' BY PhotosTypes
<1> USE PhotosShape DEF PhotosInv, files, Step, PhotosTypeOK, CallsFit, Settled, Told
<1>1. CASE \E c \in Downloads : Download(c) BY <1>0, <1>1 DEF Download
<1>2. CASE \E c \in Downloads : SkipItem(c) BY <1>0, <1>2 DEF SkipItem
<1>3. CASE \E c \in Downloads : \E f \in Places : Choose(c, f) BY <1>0, <1>3 DEF Choose, UniquePath
<1>4. CASE \E c \in Downloads : OpenPartial(c)
  <2> PICK c \in Downloads : OpenPartial(c) BY <1>4
  <2>1. UNCHANGED <<held, returned, downloaded, overlapped, target>> BY DEF OpenPartial
  <2>2. Opened(c) \in Inodes /\ \A f \in Places : held[f] # Nothing => held[f] # Opened(c)
    <3>1. CASE partial[target[c]] = Nothing
      BY <3>1, OpenedFits DEF InodesAreSpent
    <3>2. CASE partial[target[c]] # Nothing
      <4>1. target[c] \in Places /\ Opened(c) = partial[target[c]] /\ Opened(c) \in Inodes
        BY <3>2, OpenedFits DEF Opened
      <4> QED BY <4>1 DEF NamedOnce
    <3> QED BY <3>1, <3>2
  <2>3. writes' = [writes EXCEPT ![c] = Opened(c)] /\ bytes' = [bytes EXCEPT ![Opened(c)] = "empty"]
    BY OpenedFits
  <2>4. \A r \in Rows : r.place \in Places BY DEF Rows
  <2>5. \A d \in Downloads, r \in Rows : Told(d, r)' <=> Told(d, r) BY <2>1
  <2>6. \A d \in Downloads, r \in Rows : Told(d, r) =>
          held[r.place] # Opened(c) /\ bytes'[held[r.place]] = bytes[held[r.place]]
    BY <2>2, <2>3, <2>4
  <2> HIDE DEF Told
  <2> QED BY <2>1, <2>3, <2>4, <2>5, <2>6
<1>5. CASE \E c \in Downloads : WritePartial(c)
  <2> PICK c \in Downloads : WritePartial(c) BY <1>5
  <2>1. UNCHANGED <<held, returned, downloaded, overlapped, target, writes>>
        /\ writes[c] \in Inodes BY DEF WritePartial
  <2>2. \A n \in Inodes : n # writes[c] => bytes'[n] = bytes[n] BY <2>1 DEF WritePartial
  <2>3. \A r \in Rows : r.place \in Places BY DEF Rows
  <2>4. \A d \in Downloads, r \in Rows : Told(d, r) /\ d \notin overlapped =>
          held[r.place] \in Inodes /\ held[r.place] # writes[c] BY <2>3
  <2>5. \A d \in Downloads, r \in Rows : Told(d, r)' <=> Told(d, r) BY <2>1
  <2> HIDE DEF Told
  <2> QED BY <2>1, <2>2, <2>4, <2>5
<1>6. CASE \E c \in Downloads : Rename(c)
  <2> PICK c \in Downloads : Rename(c) BY <1>6
  <2> DEFINE row == [place |-> target[c], is |-> Items[item[c]]]
  <2>1. step[c] = "rename" /\ NextItem(c) /\ c \in Running BY DEF Rename, Running
  <2>2. target[c] \in Places /\ item[c] \in DOMAIN Items BY <2>1, NextFits
  <2>3. row \in Rows /\ \A r \in Rows : r.place \in Places BY <2>2 DEF Rows
  <2>4. /\ held' = [held EXCEPT ![target[c]] = partial[target[c]]] /\ partial[target[c]] # Nothing
        /\ bytes' = bytes /\ overlapped' = overlapped /\ returned' = returned
        /\ downloaded' = [downloaded EXCEPT ![c] = @ \cup {row}]
        /\ target' = [target EXCEPT ![c] = Nothing] /\ writes' = [writes EXCEPT ![c] = Nothing]
    BY DEF Rename, NextItem
  <2>5. \A d \in Downloads, r \in Rows : Told(d, r)' <=> Told(d, r) \/ (d = c /\ r = row)
    BY <2>4
  <2>6. c \notin overlapped =>
          /\ held[target[c]] = Nothing /\ bytes[partial[target[c]]] = Items[item[c]]
          /\ partial[target[c]] = writes[c]
          /\ \A d \in Downloads \ {c} : target[d] = Nothing /\ writes[d] = Nothing
    <3> SUFFICES ASSUME c \notin overlapped
                 PROVE  /\ held[target[c]] = Nothing /\ bytes[partial[target[c]]] = Items[item[c]]
                        /\ partial[target[c]] = writes[c]
                        /\ \A d \in Downloads \ {c} : target[d] = Nothing /\ writes[d] = Nothing
      OBVIOUS
    <3>1. held[target[c]] = Nothing /\ partial[target[c]] = writes[c] /\ bytes[writes[c]] = Items[item[c]]
      BY <2>1 DEF Alone
    <3>2. \A d \in Downloads \ {c} : step[d] \in {"idle", "over"} BY <2>1 DEF Alone, Running
    <3> QED BY <3>1, <3>2
  <2>7. \A d \in Downloads, r \in Rows : Told(d, r) => held'[r.place] # Nothing BY <2>2, <2>3, <2>4
  <2>8. \A d \in Downloads, r \in Rows : Told(d, r) /\ d \notin overlapped =>
          r.place # target[c] /\ held'[r.place] = held[r.place] BY <2>2, <2>3, <2>4
  <2>9. c \notin overlapped => \A d \in Downloads, r \in Rows : Told(d, r) => r.place # target[c]
    BY <2>6
  <2>10. row.place = target[c] /\ row.is = Items[item[c]] /\ held'[target[c]] = partial[target[c]]
    BY <2>2, <2>4
  <2>11. \A d \in Downloads : target'[d] = (IF d = c THEN Nothing ELSE target[d])
                              /\ writes'[d] = (IF d = c THEN Nothing ELSE writes[d])
    BY <2>4
  <2> HIDE DEF Told, row
  <2>12. \A d \in Downloads, r \in Rows : Told(d, r)' => held'[r.place] # Nothing
    BY <2>4, <2>5, <2>7, <2>10
  <2>13. \A d \in Downloads, r \in Rows : Told(d, r)' /\ d \notin overlapped' =>
           /\ bytes'[held'[r.place]] = r.is
           /\ \A e \in Downloads : target'[e] # r.place /\ writes'[e] # held'[r.place]
    <3> SUFFICES ASSUME NEW d \in Downloads, NEW r \in Rows, Told(d, r)', d \notin overlapped
                 PROVE  /\ bytes[held'[r.place]] = r.is
                        /\ \A e \in Downloads : target'[e] # r.place /\ writes'[e] # held'[r.place]
      BY <2>4
    <3>1. CASE Told(d, r)
      <4>1. held'[r.place] = held[r.place] /\ held[r.place] # Nothing /\ r.place # Nothing
        BY <2>3, <2>8, <3>1, PhotosShape
      <4> QED BY <2>11, <3>1, <4>1
    <3>2. CASE d = c /\ r = row
      <4>1. \A e \in Downloads : target'[e] = Nothing /\ writes'[e] = Nothing BY <2>6, <2>11, <3>2
      <4> QED BY <2>2, <2>4, <2>6, <2>10, <3>2, <4>1, PhotosShape
    <3> QED BY <2>5, <3>1, <3>2
  <2>14. \A d, e \in Downloads, r, q \in Rows :
           Told(d, r)' /\ d \notin overlapped' /\ Told(e, q)' /\ q.place = r.place => d = e /\ q = r
    BY <2>4, <2>5, <2>8, <2>9, <2>10
  <2> QED BY <2>12, <2>13, <2>14
<1>7. CASE \E c \in Downloads : FailItem(c)
  <2> PICK c \in Downloads : FailItem(c) BY <1>7
  <2>1. /\ UNCHANGED <<held, bytes, returned, downloaded, overlapped>>
        /\ target' = [target EXCEPT ![c] = Nothing] /\ writes' = [writes EXCEPT ![c] = Nothing]
    BY DEF FailItem, NextItem
  <2>2. \A d \in Downloads, r \in Rows : Told(d, r)' <=> Told(d, r) BY <2>1
  <2>3. \A r \in Rows : r.place # Nothing BY PhotosShape DEF Rows
  <2> HIDE DEF Told
  <2> QED BY <2>1, <2>2, <2>3
<1>8. CASE \E c \in Downloads : WriteManifest(c)
  <2> PICK c \in Downloads : WriteManifest(c) BY <1>8
  <2>1. /\ UNCHANGED <<held, bytes, overlapped>>
        /\ target' = [target EXCEPT ![c] = Nothing] /\ writes' = [writes EXCEPT ![c] = Nothing]
        /\ returned' = returned \cup {c} \X downloaded[c] /\ downloaded' = [downloaded EXCEPT ![c] = {}]
    BY DEF WriteManifest, End
  <2>2. \A d \in Downloads, r \in Rows : Told(d, r)' => Told(d, r) BY <2>1
  <2>3. \A r \in Rows : r.place # Nothing BY PhotosShape DEF Rows
  <2> HIDE DEF Told
  <2> QED BY <2>1, <2>2, <2>3
<1>9. CASE \E c \in Downloads : Die(c)
  <2> PICK c \in Downloads : Die(c) BY <1>9
  <2>1. /\ UNCHANGED <<held, bytes, overlapped, returned>>
        /\ target' = [target EXCEPT ![c] = Nothing] /\ writes' = [writes EXCEPT ![c] = Nothing]
        /\ downloaded' = [downloaded EXCEPT ![c] = {}]
    BY DEF Die, End
  <2>2. \A d \in Downloads, r \in Rows : Told(d, r)' => Told(d, r) BY <2>1
  <2>3. \A r \in Rows : r.place # Nothing BY PhotosShape DEF Rows
  <2> HIDE DEF Told
  <2> QED BY <2>1, <2>2, <2>3
<1>10. CASE UNCHANGED photoVars BY <1>0, <1>10 DEF photoVars
<1> QED BY <1>1, <1>2, <1>3, <1>4, <1>5, <1>6, <1>7, <1>8, <1>9, <1>10 DEF PhotosNext

LEMMA PhotosStep == PhotosInv /\ [PhotosNext]_photoVars => PhotosInv'
BY PhotosTypes, FitStep, SpentStep, NamedStep, AloneStep, SettledStep DEF PhotosInv
LEMMA AsAsked == DispatchInv => DispatchedAsAsked
BY DEF DispatchInv, DispatchTypeOK, DispatchOnce, DispatchedAsAsked

LEMMA ChecksHold == DispatchInv => ResumeChecksHold
BY DEF DispatchInv, DispatchTypeOK, RestartsAreCurrent, ResumeChecksHold

LEMMA Stays == PhotosInv => DownloadsStay
<1> SUFFICES ASSUME PhotosInv, NEW one \in returned, NEW other \in returned, one[1] \notin overlapped
             PROVE  /\ held[one[2].place] # Nothing /\ bytes[held[one[2].place]] = one[2].is
                    /\ one[2].place = other[2].place => one = other
  BY DEF DownloadsStay
<1>1. one = <<one[1], one[2]>> /\ other = <<other[1], other[2]>>
      /\ {one[1], other[1]} \subseteq Downloads /\ {one[2], other[2]} \subseteq Rows
  BY DEF PhotosInv, PhotosTypeOK
<1>2. Told(one[1], one[2]) /\ Told(other[1], other[2]) BY <1>1 DEF Told
<1>3. held[one[2].place] # Nothing /\ bytes[held[one[2].place]] = one[2].is
  BY <1>1, <1>2 DEF PhotosInv, Settled
<1>4. one[2].place = other[2].place => one[1] = other[1] /\ one[2] = other[2]
  BY <1>1, <1>2 DEF PhotosInv, Settled
<1> QED BY <1>1, <1>3, <1>4

-------------------------------------------------------------------------------
(***************************************************************************)
(* The bootstrap of an executor.  What is read twice was the same all the  *)
(* time between, as no resource goes back to an earlier version; so what   *)
(* each half of a process's passes reads was so when it was half way.      *)
(***************************************************************************)
Ways == {"discovered", "routed", "direct"}

\* Read i of pass k has been made.
Made(p, k, i) ==
  /\ k \in 1 .. Len(Passes(p)) /\ i \in 1 .. Len(Passes(p)[k])
  /\ k < pass[p] \/ (k = pass[p] /\ i < spot[p])

\* Passes k to l read r.
Reads(p, r, k, l) == \E m \in k .. l : \E i \in 1 .. Len(Passes(p)[m]) : Passes(p)[m][i] = r

VersionsGrow ==
  /\ \A r \in Resources : version[r] \in Nat
  /\ \A p \in Processes, r \in Resources : seen[p][r] <= version[r] /\ noted[p][r] <= version[r]
  /\ \A p \in Processes, r \in Resources :
       pass[p] > HalfWay(p) /\ r \in Recorded(p) =>
         seen[p][r] # Unread /\ seen[p][r] <= noted[p][r]

ReadsAreSeen ==
  \A p \in Processes, k, i \in Nat : Made(p, k, i) =>
    LET r == Passes(p)[k][i] IN
      /\ seen[p][r] # Unread
      /\ k > HalfWay(p) /\ r \in Recorded(p) => seen[p][r] = noted[p][r]

BuildIsOver ==
  /\ \A p \in Processes : standing[p] = "waiting" => pass[p] = 1
  /\ ended => standing["builder"] = "retained"
  /\ standing["acceptor"] # "waiting" => ended
  /\ pass["acceptor"] > HalfWay("acceptor") => AgreesWithBuild

BootstrapInv == BootstrapTypeOK /\ VersionsGrow /\ ReadsAreSeen /\ BuildIsOver

LEMMA FirstReadsAll == Len(First) = 8 /\ \A r \in Prior : \E i \in 1 .. Len(First) : First[i] = r
<1>1. Len(First) = 8 BY DEF First
<1>2. \A r \in Prior : r = First[1] \/ r = First[2] \/ r = First[3] \/ r = First[4] \/ r = First[5]
        \/ r = First[6] \/ r = First[7] \/ r = First[8] BY DEF First, Prior
<1>3. {1, 2, 3, 4, 5, 6, 7, 8} \subseteq 1 .. Len(First) BY <1>1
<1> QED BY <1>1, <1>2, <1>3

LEMMA AgainReadsAll == Len(Again) = 8 /\ \A r \in Prior : \E i \in 1 .. Len(Again) : Again[i] = r
<1>1. Len(Again) = 8 BY DEF Again
<1>2. \A r \in Prior : r = Again[1] \/ r = Again[2] \/ r = Again[3] \/ r = Again[4] \/ r = Again[5]
        \/ r = Again[6] \/ r = Again[7] \/ r = Again[8] BY DEF Again, Prior
<1>3. {1, 2, 3, 4, 5, 6, 7, 8} \subseteq 1 .. Len(Again) BY <1>1
<1> QED BY <1>1, <1>2, <1>3

LEMMA ChildReadsAll == Len(Child) = 4 /\ \A r \in Successor : \E i \in 1 .. Len(Child) : Child[i] = r
<1>1. Len(Child) = 4 BY DEF Child
<1>2. \A r \in Successor : r = Child[1] \/ r = Child[2] \/ r = Child[3] \/ r = Child[4]
  BY DEF Child, Successor
<1>3. {1, 2, 3, 4} \subseteq 1 .. Len(Child) BY <1>1
<1> QED BY <1>1, <1>2, <1>3

LEMMA SingleReads ==
  /\ {Edge, First, Again, Route, Child} \subseteq Seq(Resources)
BY DEF Edge, First, Again, Route, Child, Resources, Prior, Routing, Successor

LEMMA PassReads ==
  ASSUME NEW p \in Processes, NEW k \in Nat, NEW l \in Nat, NEW m \in k .. l, NEW r
  PROVE  /\ Passes(p)[m] = First /\ r \in Prior => Reads(p, r, k, l)
         /\ Passes(p)[m] = Again /\ r \in Prior => Reads(p, r, k, l)
         /\ Passes(p)[m] = Child /\ r \in Successor => Reads(p, r, k, l)
<1>1. CASE Passes(p)[m] = First /\ r \in Prior
  <2>1. PICK i \in 1 .. Len(First) : First[i] = r BY <1>1, FirstReadsAll
  <2> QED BY <1>1, <2>1 DEF Reads
<1>2. CASE Passes(p)[m] = Again /\ r \in Prior
  <2>1. PICK i \in 1 .. Len(Again) : Again[i] = r BY <1>2, AgainReadsAll
  <2> QED BY <1>2, <2>1 DEF Reads
<1>3. CASE Passes(p)[m] = Child /\ r \in Successor
  <2>1. PICK i \in 1 .. Len(Child) : Child[i] = r BY <1>3, ChildReadsAll
  <2> QED BY <1>3, <2>1 DEF Reads
<1>4. (Passes(p)[m] = First /\ r \in Prior) => Reads(p, r, k, l) BY <1>1
<1>5. (Passes(p)[m] = Again /\ r \in Prior) => Reads(p, r, k, l) BY <1>2
<1>6. (Passes(p)[m] = Child /\ r \in Successor) => Reads(p, r, k, l) BY <1>3
<1> QED BY <1>4, <1>5, <1>6

\* Every process reads all that it records in both halves of its passes.
LEMMA PassesCover ==
  ASSUME way \in Ways, NEW p \in Processes
  PROVE  /\ Passes(p) \in Seq(Seq(Resources))
         /\ Len(Passes(p)) \in Nat /\ HalfWay(p) \in Nat
         /\ 1 <= HalfWay(p) /\ HalfWay(p) < Len(Passes(p))
         /\ \A r \in Recorded(p) :
              /\ Reads(p, r, 1, HalfWay(p))
              /\ Reads(p, r, HalfWay(p) + 1, Len(Passes(p)))
<1>1. CASE p = "compiler" /\ way = "discovered"
  <2>1. Passes(p) = <<Edge, First, Again, Edge, Edge, First, Again, Edge, First, Again>>
    BY <1>1 DEF Passes, Compiling
  <2>2. Passes(p) \in Seq(Seq(Resources)) /\ Len(Passes(p)) = 10 BY <2>1, SingleReads
  <2>3. HalfWay(p) = 5 BY <2>2 DEF HalfWay
  <2>4. Passes(p)[2] = First /\ Passes(p)[6] = First BY <2>1
  <2>5. Recorded(p) = Prior BY <1>1 DEF Recorded
  <2>6. \A r \in Recorded(p) : Reads(p, r, 1, HalfWay(p))
    <3>1. {2} \subseteq 1 .. HalfWay(p) BY <2>3
    <3> QED BY <2>3, <2>4, <2>5, <3>1, PassReads
  <2>7. \A r \in Recorded(p) : Reads(p, r, HalfWay(p) + 1, Len(Passes(p)))
    <3>1. {6} \subseteq HalfWay(p) + 1 .. Len(Passes(p)) BY <2>2, <2>3
    <3> QED BY <2>2, <2>3, <2>4, <2>5, <3>1, PassReads
  <2> QED BY <2>2, <2>3, <2>6, <2>7
<1>2. CASE p = "compiler" /\ way # "discovered"
  <2>1. Passes(p) = <<First, Again, First, Again>>
    BY <1>2 DEF Passes, Compiling
  <2>2. Passes(p) \in Seq(Seq(Resources)) /\ Len(Passes(p)) = 4 BY <2>1, SingleReads
  <2>3. HalfWay(p) = 2 BY <2>2 DEF HalfWay
  <2>4. Passes(p)[1] = First /\ Passes(p)[3] = First BY <2>1
  <2>5. Recorded(p) = Prior BY <1>2 DEF Recorded
  <2>6. \A r \in Recorded(p) : Reads(p, r, 1, HalfWay(p))
    <3>1. {1} \subseteq 1 .. HalfWay(p) BY <2>3
    <3> QED BY <2>3, <2>4, <2>5, <3>1, PassReads
  <2>7. \A r \in Recorded(p) : Reads(p, r, HalfWay(p) + 1, Len(Passes(p)))
    <3>1. {3} \subseteq HalfWay(p) + 1 .. Len(Passes(p)) BY <2>2, <2>3
    <3> QED BY <2>2, <2>3, <2>4, <2>5, <3>1, PassReads
  <2> QED BY <2>2, <2>3, <2>6, <2>7
<1>3. CASE p = "builder" /\ way = "direct"
  <2>1. Passes(p) = <<First, Again>>
    BY <1>3 DEF Passes, Building
  <2>2. Passes(p) \in Seq(Seq(Resources)) /\ Len(Passes(p)) = 2 BY <2>1, SingleReads
  <2>3. HalfWay(p) = 1 BY <2>2 DEF HalfWay
  <2>4. Passes(p)[1] = First /\ Passes(p)[2] = Again BY <2>1
  <2>5. Recorded(p) = Prior BY <1>3 DEF Recorded
  <2>6. \A r \in Recorded(p) : Reads(p, r, 1, HalfWay(p))
    <3>1. {1} \subseteq 1 .. HalfWay(p) BY <2>3
    <3> QED BY <2>3, <2>4, <2>5, <3>1, PassReads
  <2>7. \A r \in Recorded(p) : Reads(p, r, HalfWay(p) + 1, Len(Passes(p)))
    <3>1. {2} \subseteq HalfWay(p) + 1 .. Len(Passes(p)) BY <2>2, <2>3
    <3> QED BY <2>2, <2>3, <2>4, <2>5, <3>1, PassReads
  <2> QED BY <2>2, <2>3, <2>6, <2>7
<1>4. CASE p = "builder" /\ way # "direct"
  <2>1. Passes(p) = <<Route, First, Again, Route>>
    BY <1>4 DEF Passes, Building
  <2>2. Passes(p) \in Seq(Seq(Resources)) /\ Len(Passes(p)) = 4 BY <2>1, SingleReads
  <2>3. HalfWay(p) = 2 BY <2>2 DEF HalfWay
  <2>4. Passes(p)[2] = First /\ Passes(p)[3] = Again BY <2>1
  <2>5. Recorded(p) = Prior BY <1>4 DEF Recorded
  <2>6. \A r \in Recorded(p) : Reads(p, r, 1, HalfWay(p))
    <3>1. {2} \subseteq 1 .. HalfWay(p) BY <2>3
    <3> QED BY <2>3, <2>4, <2>5, <3>1, PassReads
  <2>7. \A r \in Recorded(p) : Reads(p, r, HalfWay(p) + 1, Len(Passes(p)))
    <3>1. {3} \subseteq HalfWay(p) + 1 .. Len(Passes(p)) BY <2>2, <2>3
    <3> QED BY <2>2, <2>3, <2>4, <2>5, <3>1, PassReads
  <2> QED BY <2>2, <2>3, <2>6, <2>7
<1>5. CASE p = "acceptor" /\ way = "direct"
  <2>1. Passes(p) = <<Child, First, Again, Child, First, Again>>
    BY <1>5 DEF Passes, Accepting
  <2>2. Passes(p) \in Seq(Seq(Resources)) /\ Len(Passes(p)) = 6 BY <2>1, SingleReads
  <2>3. HalfWay(p) = 3 BY <2>2 DEF HalfWay
  <2>4. Passes(p)[1] = Child /\ Passes(p)[2] = First /\ Passes(p)[4] = Child /\ Passes(p)[5] = First BY <2>1
  <2>5. Recorded(p) = Prior \cup Successor BY <1>5 DEF Recorded
  <2>6. \A r \in Recorded(p) : Reads(p, r, 1, HalfWay(p))
    <3>1. {1, 2} \subseteq 1 .. HalfWay(p) BY <2>3
    <3> QED BY <2>3, <2>4, <2>5, <3>1, PassReads
  <2>7. \A r \in Recorded(p) : Reads(p, r, HalfWay(p) + 1, Len(Passes(p)))
    <3>1. {4, 5} \subseteq HalfWay(p) + 1 .. Len(Passes(p)) BY <2>2, <2>3
    <3> QED BY <2>2, <2>3, <2>4, <2>5, <3>1, PassReads
  <2> QED BY <2>2, <2>3, <2>6, <2>7
<1>6. CASE p = "acceptor" /\ way # "direct"
  <2>1. Passes(p) = <<Child, First, Again, Route, Child, First, Again, Route>>
    BY <1>6 DEF Passes, Accepting
  <2>2. Passes(p) \in Seq(Seq(Resources)) /\ Len(Passes(p)) = 8 BY <2>1, SingleReads
  <2>3. HalfWay(p) = 4 BY <2>2 DEF HalfWay
  <2>4. Passes(p)[1] = Child /\ Passes(p)[2] = First /\ Passes(p)[5] = Child /\ Passes(p)[6] = First BY <2>1
  <2>5. Recorded(p) = Prior \cup Successor BY <1>6 DEF Recorded
  <2>6. \A r \in Recorded(p) : Reads(p, r, 1, HalfWay(p))
    <3>1. {1, 2} \subseteq 1 .. HalfWay(p) BY <2>3
    <3> QED BY <2>3, <2>4, <2>5, <3>1, PassReads
  <2>7. \A r \in Recorded(p) : Reads(p, r, HalfWay(p) + 1, Len(Passes(p)))
    <3>1. {5, 6} \subseteq HalfWay(p) + 1 .. Len(Passes(p)) BY <2>2, <2>3
    <3> QED BY <2>2, <2>3, <2>4, <2>5, <3>1, PassReads
  <2> QED BY <2>2, <2>3, <2>6, <2>7
<1> QED BY <1>1, <1>2, <1>3, <1>4, <1>5, <1>6 DEF Processes

LEMMA SameWay ==
  way' = way => \A p \in Processes : Passes(p)' = Passes(p) /\ HalfWay(p)' = HalfWay(p)
BY DEF Passes, HalfWay, Compiling, Building, Accepting

LEMMA RecordedIsRead == \A p \in Processes : Recorded(p) \subseteq Resources /\ Prior \subseteq Recorded(p)
BY DEF Recorded, Resources

LEMMA PassShape ==
  ASSUME way \in Ways, NEW p \in Processes, NEW k \in 1 .. Len(Passes(p))
  PROVE  /\ Passes(p)[k] \in Seq(Resources) /\ Len(Passes(p)[k]) \in Nat
         /\ \A i \in 1 .. Len(Passes(p)[k]) : Passes(p)[k][i] \in Resources
<1>1. Passes(p)[k] \in Seq(Resources) BY PassesCover
<1> QED BY <1>1

LEMMA BootstrapStart == BootstrapInit => BootstrapInv
<1> SUFFICES ASSUME BootstrapInit PROVE BootstrapInv OBVIOUS
<1> USE BootstrapAssumption DEF BootstrapInit
<1>0. way \in Ways BY DEF Ways
<1>1. \A p \in Processes : Len(Passes(p)) \in Nat /\ HalfWay(p) \in Nat /\ 1 <= HalfWay(p)
        /\ HalfWay(p) < Len(Passes(p)) BY <1>0, PassesCover
<1>2. BootstrapTypeOK
  <2>1. sound \subseteq Resources /\ moves \in 0 .. MaxMoves BY DEF Resources
  <2>2. version \in [Resources -> Nat] /\ noted \in [Processes -> [Resources -> Nat]] OBVIOUS
  <2>3. pass \in [Processes -> Nat \ {0}] /\ spot \in [Processes -> Nat \ {0}] OBVIOUS
  <2>4. seen \in [Processes -> [Resources -> Nat \cup {Unread}]] OBVIOUS
  <2>5. \A p \in Processes : pass[p] <= Len(Passes(p)) + 1 /\ standing[p] # "retained" BY <1>1
  <2> QED BY <2>1, <2>2, <2>3, <2>4, <2>5 DEF BootstrapTypeOK
<1>3. VersionsGrow BY <1>1 DEF VersionsGrow, Unread
<1>4. ReadsAreSeen
  <2>1. \A p \in Processes, k, i \in Nat : ~ Made(p, k, i) BY <1>0, PassShape DEF Made
  <2> QED BY <2>1 DEF ReadsAreSeen
<1>5. BuildIsOver BY <1>1 DEF BuildIsOver, Processes
<1> QED BY <1>2, <1>3, <1>4, <1>5 DEF BootstrapInv

\* What a process has done is not changed by another, nor by GitLab.
LEMMA ReadSteps ==
  ASSUME BootstrapInv, NEW p \in Processes, ReadResource(p)
  PROVE  BootstrapInv'
<1> DEFINE pth == Passes(p)[pass[p]] r == pth[spot[p]]
<1>0. way \in Ways /\ way' = way BY DEF BootstrapInv, BootstrapTypeOK, Ways, ReadResource
<1>1. pass[p] \in 1 .. Len(Passes(p)) /\ spot[p] \in 1 .. Len(pth) /\ r \in Resources
      /\ standing[p] = "reading"
  <2>1. pass[p] \in 1 .. Len(Passes(p))
    BY <1>0, PassesCover DEF BootstrapInv, BootstrapTypeOK, ReadResource, InPass
  <2>2. Len(pth) \in Nat BY <1>0, <2>1, PassShape
  <2>3. spot[p] \in 1 .. Len(pth) BY <2>2 DEF BootstrapInv, BootstrapTypeOK, ReadResource
  <2> QED BY <1>0, <2>1, <2>3, PassShape DEF ReadResource, InPass
<1>2. /\ seen' = [seen EXCEPT ![p][r] = version[r]] /\ spot' = [spot EXCEPT ![p] = @ + 1]
      /\ UNCHANGED <<version, sound, ended, moves, standing, pass, noted>>
      /\ seen[p][r] \in {Unread, version[r]}
  BY DEF ReadResource, Same, gitlab
<1>3. \A q \in Processes : Passes(q)' = Passes(q) /\ HalfWay(q)' = HalfWay(q) BY <1>0, SameWay
<1> HIDE DEF pth, r
<1> USE DEF BootstrapInv
<1>4. \A q \in Processes, s \in Resources :
        seen'[q][s] = IF q = p /\ s = r THEN version[r] ELSE seen[q][s]
  BY <1>1, <1>2 DEF BootstrapTypeOK
<1>5. \A q \in Processes, s \in Resources :
        /\ seen[q][s] # Unread => seen'[q][s] = seen[q][s]
        /\ seen'[q][s] # Unread \/ seen[q][s] = Unread
  BY <1>1, <1>2, <1>4
<1>6. version[r] \in Nat /\ version[r] # Unread BY <1>1 DEF VersionsGrow, Unread
<1>7. BootstrapTypeOK' BY <1>0, <1>1, <1>2, <1>3, <1>6 DEF BootstrapTypeOK
<1>8. VersionsGrow'
  <2>1. \A q \in Processes, s \in Resources : seen'[q][s] <= version[s] BY <1>4, <1>6 DEF VersionsGrow
  <2>2. \A q \in Processes, s \in Resources : pass[q] > HalfWay(q) /\ s \in Recorded(q) =>
          seen'[q][s] # Unread /\ seen'[q][s] <= noted[q][s]
    BY <1>5 DEF VersionsGrow
  <2> QED BY <1>2, <1>3, <2>1, <2>2 DEF VersionsGrow, Recorded
<1>9. ReadsAreSeen'
  <2> SUFFICES ASSUME NEW q \in Processes, NEW k \in Nat, NEW i \in Nat, Made(q, k, i)'
               PROVE  LET s == Passes(q)[k][i] IN
                        /\ seen'[q][s] # Unread
                        /\ k > HalfWay(q) /\ s \in Recorded(q) => seen'[q][s] = noted[q][s]
    BY <1>2, <1>3 DEF ReadsAreSeen, Recorded
  <2>1. Made(q, k, i) \/ (q = p /\ k = pass[p] /\ i = spot[p])
    BY <1>1, <1>2, <1>3 DEF Made, BootstrapTypeOK
  <2>2. CASE Made(q, k, i)
    <3>1. Passes(q)[k][i] \in Resources BY <1>0, <2>2, PassShape DEF Made
    <3>2. seen[q][Passes(q)[k][i]] # Unread
          /\ (k > HalfWay(q) /\ Passes(q)[k][i] \in Recorded(q) =>
                seen[q][Passes(q)[k][i]] = noted[q][Passes(q)[k][i]])
      BY <2>2 DEF ReadsAreSeen
    <3> QED BY <1>5, <3>1, <3>2
  <2>3. CASE q = p /\ k = pass[p] /\ i = spot[p]
    <3>1. Passes(q)[k][i] = r BY <2>3 DEF r, pth
    <3>2. seen'[p][r] = version[r] BY <1>1, <1>4
    <3>3. pass[p] > HalfWay(p) /\ r \in Recorded(p) => version[r] = noted[p][r]
      <4>1. SUFFICES ASSUME pass[p] > HalfWay(p), r \in Recorded(p) PROVE version[r] = noted[p][r]
        OBVIOUS
      <4>2. seen[p][r] # Unread /\ seen[p][r] <= noted[p][r] /\ noted[p][r] <= version[r]
        BY <1>1, <4>1 DEF VersionsGrow
      <4>3. seen[p][r] = version[r] BY <1>2, <4>2
      <4> QED BY <1>1, <4>2, <4>3, <1>6 DEF BootstrapTypeOK
    <3> QED BY <1>6, <2>3, <3>1, <3>2, <3>3
  <2> QED BY <2>1, <2>2, <2>3
<1>10. BuildIsOver'
  <2>1. "acceptor" \in Processes /\ "builder" \in Processes BY DEF Processes
  <2>2. pass["acceptor"] > HalfWay("acceptor") => AgreesWithBuild'
    <3>1. SUFFICES ASSUME pass["acceptor"] > HalfWay("acceptor") PROVE AgreesWithBuild' OBVIOUS
    <3>2. standing["builder"] = "retained" /\ AgreesWithBuild
      <4>1. HalfWay("acceptor") \in Nat /\ 1 <= HalfWay("acceptor") BY <1>0, <2>1, PassesCover
      <4>2. standing["acceptor"] # "waiting" BY <2>1, <3>1, <4>1 DEF BuildIsOver
      <4> QED BY <3>1, <4>2 DEF BuildIsOver
    <3>3. p # "builder" BY <1>1, <3>2
    <3>4. \A s \in Prior : s \in Resources /\ s \in Recorded("acceptor") BY <2>1, RecordedIsRead DEF Resources
    <3>5. \A s \in Prior : seen'["acceptor"][s] = seen["acceptor"][s]
      BY <1>5, <2>1, <3>1, <3>4 DEF VersionsGrow
    <3>6. \A s \in Prior : seen'["builder"][s] = seen["builder"][s] BY <1>4, <2>1, <3>3, <3>4
    <3> QED BY <3>2, <3>5, <3>6 DEF AgreesWithBuild
  <2> QED BY <1>2, <1>3, <2>1, <2>2 DEF BuildIsOver
<1> QED BY <1>7, <1>8, <1>9, <1>10

LEMMA EndSteps ==
  ASSUME BootstrapInv, NEW p \in Processes, EndPass(p)
  PROVE  BootstrapInv'
<1>0. way \in Ways /\ way' = way BY DEF BootstrapInv, BootstrapTypeOK, Ways, EndPass
<1>1. pass[p] \in 1 .. Len(Passes(p)) /\ spot[p] = Len(Passes(p)[pass[p]]) + 1
      /\ standing[p] = "reading" /\ Len(Passes(p)) \in Nat /\ HalfWay(p) \in Nat
  BY <1>0, PassesCover DEF BootstrapInv, BootstrapTypeOK, EndPass, InPass
<1>2. /\ pass' = [pass EXCEPT ![p] = @ + 1] /\ spot' = [spot EXCEPT ![p] = 1]
      /\ noted' = [noted EXCEPT ![p] = IF pass[p] = HalfWay(p) THEN version ELSE @]
      /\ UNCHANGED <<version, sound, ended, moves, standing, seen>>
      /\ (p = "acceptor" /\ pass[p] = HalfWay(p) => AgreesWithBuild)
  BY DEF EndPass, gitlab
<1>3. \A q \in Processes : Passes(q)' = Passes(q) /\ HalfWay(q)' = HalfWay(q) BY <1>0, SameWay
<1> USE DEF BootstrapInv
<1>4. \A q \in Processes : pass'[q] = (IF q = p THEN pass[p] + 1 ELSE pass[q])
        /\ spot'[q] = (IF q = p THEN 1 ELSE spot[q])
        /\ noted'[q] = (IF q = p /\ pass[p] = HalfWay(p) THEN version ELSE noted[q])
  BY <1>2 DEF BootstrapTypeOK
<1>5. BootstrapTypeOK'
  <2>1. pass' \in [Processes -> Nat \ {0}] /\ spot' \in [Processes -> Nat \ {0}]
    BY <1>1, <1>2 DEF BootstrapTypeOK
  <2>2. noted' \in [Processes -> [Resources -> Nat]] BY <1>2 DEF BootstrapTypeOK
  <2>3. \A q \in Processes : /\ pass'[q] <= Len(Passes(q)) + 1
                             /\ standing[q] = "retained" => pass'[q] = Len(Passes(q)) + 1
    BY <1>1, <1>4 DEF BootstrapTypeOK
  <2>4. /\ way' \in {"discovered", "routed", "direct"}
        /\ version' \in [Resources -> Nat] /\ sound' \subseteq Resources /\ ended' \in BOOLEAN
        /\ standing' \in [Processes -> {"waiting", "reading", "retained", "stopped"}]
        /\ seen' \in [Processes -> [Resources -> Nat \cup {Unread}]] /\ moves' \in 0 .. MaxMoves
    BY <1>0, <1>2 DEF BootstrapTypeOK
  <2>5. \A q \in Processes : /\ pass'[q] <= Len(Passes(q))' + 1
                             /\ standing'[q] = "retained" => pass'[q] = Len(Passes(q))' + 1
    BY <1>2, <1>3, <2>3
  <2> QED BY <2>1, <2>2, <2>4, <2>5 DEF BootstrapTypeOK
\* At the end of a pass all its reads have been made.
<1>6. \A q \in Processes, k, i \in Nat : Made(q, k, i)' => Made(q, k, i)
  <2> SUFFICES ASSUME NEW q \in Processes, NEW k \in Nat, NEW i \in Nat, Made(q, k, i)'
               PROVE  Made(q, k, i) OBVIOUS
  <2>1. k \in 1 .. Len(Passes(q)) /\ i \in 1 .. Len(Passes(q)[k])
        /\ (k < pass'[q] \/ (k = pass'[q] /\ i < spot'[q]))
    BY <1>3 DEF Made
  <2>2. CASE q # p BY <1>4, <2>1, <2>2 DEF Made
  <2>3. CASE q = p
    <3>1. k < pass[p] + 1 \/ (k = pass[p] + 1 /\ i < 1) BY <1>4, <2>1, <2>3
    <3>2. i >= 1 BY <2>1
    <3>3. k <= pass[p] BY <1>1, <3>1, <3>2
    <3>4. CASE k = pass[p]
      <4>1. Len(Passes(p)[k]) \in Nat BY <1>0, <2>1, <2>3, PassShape
      <4>2. i < spot[p] BY <1>1, <2>1, <2>3, <3>4, <4>1
      <4> QED BY <2>1, <2>3, <3>4, <4>2 DEF Made
    <3>5. CASE k < pass[p] BY <2>1, <2>3, <3>5 DEF Made
    <3> QED BY <1>1, <3>3, <3>4, <3>5
  <2> QED BY <2>2, <2>3
\* The first half has read all that is recorded.
<1>7. ASSUME pass[p] = HalfWay(p), NEW r \in Recorded(p) PROVE seen[p][r] # Unread
  <2>0. PICK k \in 1 .. HalfWay(p) : \E j \in 1 .. Len(Passes(p)[k]) : Passes(p)[k][j] = r
    BY <1>0, <1>7, PassesCover DEF Reads
  <2>1. PICK i \in 1 .. Len(Passes(p)[k]) : Passes(p)[k][i] = r BY <2>0
  <2>2. Made(p, k, i)
    <3>1. k \in 1 .. Len(Passes(p)) /\ k <= pass[p] BY <1>1, <1>7, <2>1
    <3>2. Len(Passes(p)[k]) \in Nat BY <1>0, <3>1, PassShape
    <3> QED BY <1>1, <2>1, <3>1, <3>2 DEF Made
  <2> QED BY <2>1, <2>2 DEF ReadsAreSeen
<1>8. VersionsGrow'
  <2>1. \A q \in Processes, r \in Resources : noted'[q][r] <= version[r]
    BY <1>4 DEF VersionsGrow
  <2>2. \A q \in Processes, r \in Resources : pass'[q] > HalfWay(q) /\ r \in Recorded(q) =>
          seen[q][r] # Unread /\ seen[q][r] <= noted'[q][r]
    <3> SUFFICES ASSUME NEW q \in Processes, NEW r \in Resources, pass'[q] > HalfWay(q), r \in Recorded(q)
                 PROVE  seen[q][r] # Unread /\ seen[q][r] <= noted'[q][r] OBVIOUS
    <3>1. CASE q = p /\ pass[p] = HalfWay(p) BY <1>4, <1>7, <3>1 DEF VersionsGrow
    <3>2. CASE ~ (q = p /\ pass[p] = HalfWay(p))
      <4>1. pass[q] > HalfWay(q) BY <1>1, <1>4, <3>2
      <4> QED BY <1>4, <3>2, <4>1 DEF VersionsGrow
    <3> QED BY <3>1, <3>2
  <2> QED BY <1>2, <1>3, <2>1, <2>2 DEF VersionsGrow, Recorded
<1>9. ReadsAreSeen'
  <2> SUFFICES ASSUME NEW q \in Processes, NEW k \in Nat, NEW i \in Nat, Made(q, k, i)
               PROVE  LET r == Passes(q)[k][i] IN
                        /\ seen[q][r] # Unread
                        /\ k > HalfWay(q) /\ r \in Recorded(q) => seen[q][r] = noted'[q][r]
    BY <1>2, <1>3, <1>6 DEF ReadsAreSeen, Recorded
  <2>1. q = p /\ pass[p] = HalfWay(p) => ~ (k > HalfWay(q)) BY <1>1 DEF Made
  <2> QED BY <1>4, <2>1 DEF ReadsAreSeen
<1>10. BuildIsOver'
  <2>1. "acceptor" \in Processes BY DEF Processes
  <2>2. AgreesWithBuild' <=> AgreesWithBuild BY <1>2 DEF AgreesWithBuild
  <2>3. pass'["acceptor"] > HalfWay("acceptor") => AgreesWithBuild
    <3>1. CASE p = "acceptor" /\ pass[p] = HalfWay(p) BY <1>2, <3>1
    <3>2. CASE ~ (p = "acceptor" /\ pass[p] = HalfWay(p))
      <4>1. pass'["acceptor"] > HalfWay("acceptor") => pass["acceptor"] > HalfWay("acceptor")
        BY <1>1, <1>4, <2>1, <3>2 DEF BootstrapTypeOK
      <4> QED BY <4>1 DEF BuildIsOver
    <3> QED BY <3>1, <3>2
  <2>4. \A q \in Processes : standing'[q] = "waiting" => pass'[q] = 1
    BY <1>1, <1>2, <1>4 DEF BuildIsOver
  <2> QED BY <1>2, <1>3, <2>1, <2>2, <2>3, <2>4 DEF BuildIsOver
<1> QED BY <1>5, <1>8, <1>9, <1>10

\* A process begins, stops or retains.
LEMMA StandingSteps ==
  ASSUME BootstrapInv, NEW p \in Processes, Begin(p) \/ StopReading(p) \/ Retain(p)
  PROVE  BootstrapInv'
<1>0. way \in Ways /\ way' = way BY DEF BootstrapInv, BootstrapTypeOK, Ways, Begin, StopReading, Retain
<1>1. /\ UNCHANGED <<version, sound, ended, moves, pass, spot, seen, noted>>
      /\ \E s \in {"reading", "retained", "stopped"} : standing' = [standing EXCEPT ![p] = s]
      /\ standing[p] \in {"waiting", "reading"}
      /\ standing'[p] = "retained" => pass[p] = Len(Passes(p)) + 1
      /\ p = "acceptor" /\ standing[p] = "waiting" => ended
      /\ standing'[p] # "waiting"
  BY DEF BootstrapInv, BootstrapTypeOK, Begin, StopReading, Retain, Stand, gitlab
<1>2. \A q \in Processes : Passes(q)' = Passes(q) /\ HalfWay(q)' = HalfWay(q) BY <1>0, SameWay
<1> USE DEF BootstrapInv
<1>3. \A q \in Processes \ {p} : standing'[q] = standing[q] BY <1>1 DEF BootstrapTypeOK
<1>4. BootstrapTypeOK' BY <1>0, <1>1, <1>2, <1>3 DEF BootstrapTypeOK
<1>5. VersionsGrow' BY <1>1, <1>2 DEF VersionsGrow, Recorded
<1>6. ReadsAreSeen' BY <1>1, <1>2 DEF ReadsAreSeen, Made, Recorded
<1>7. BuildIsOver'
  <2>1. "acceptor" \in Processes /\ "builder" \in Processes BY DEF Processes
  <2>2. AgreesWithBuild' <=> AgreesWithBuild BY <1>1 DEF AgreesWithBuild
  <2>3. ended => standing'["builder"] = "retained" BY <1>1, <1>3, <2>1 DEF BuildIsOver
  <2>4. standing'["acceptor"] # "waiting" => ended BY <1>1, <1>3, <2>1 DEF BuildIsOver
  <2> QED BY <1>1, <1>2, <1>3, <2>1, <2>2, <2>3, <2>4 DEF BuildIsOver
<1> QED BY <1>4, <1>5, <1>6, <1>7

\* What was read is as it was for a process whose reads are.
LEMMA SeenStays ==
  ASSUME ReadsAreSeen, UNCHANGED <<pass, spot, seen, noted>>,
         \A q \in Processes : Passes(q)' = Passes(q) /\ HalfWay(q)' = HalfWay(q)
  PROVE  ReadsAreSeen'
<1> SUFFICES ASSUME NEW p \in Processes, NEW k \in Nat, NEW i \in Nat, Made(p, k, i)'
             PROVE  LET r == Passes(p)[k][i] IN
                      /\ seen[p][r] # Unread
                      /\ k > HalfWay(p) /\ r \in Recorded(p) => seen[p][r] = noted[p][r]
  BY DEF ReadsAreSeen, Recorded
<1>1. Made(p, k, i) BY DEF Made
<1> QED BY <1>1 DEF ReadsAreSeen

LEMMA GitLabSteps ==
  ASSUME BootstrapInv, StartChild \/ EndChild \/ \E r \in Resources : Move(r)
  PROVE  BootstrapInv'
<1>0. way \in Ways /\ way' = way BY DEF BootstrapInv, BootstrapTypeOK, Ways, StartChild, EndChild, Move
<1>1. UNCHANGED <<standing, pass, spot, seen, noted>> BY DEF StartChild, EndChild, Move
<1>2. \A q \in Processes : Passes(q)' = Passes(q) /\ HalfWay(q)' = HalfWay(q) BY <1>0, SameWay
<1> USE DEF BootstrapInv
<1>3. version' \in [Resources -> Nat] /\ \A r \in Resources : version[r] <= version'[r]
  <2>1. CASE StartChild \/ EndChild BY <2>1 DEF StartChild, EndChild, BootstrapTypeOK
  <2>2. CASE \E r \in Resources : Move(r)
    <3> PICK r \in Resources : Move(r) BY <2>2
    <3>1. version' = [version EXCEPT ![r] = version[r] + 1] /\ version[r] \in Nat
      BY DEF Move, BootstrapTypeOK
    <3> QED BY <3>1 DEF BootstrapTypeOK
  <2> QED BY <2>1, <2>2
<1>4. BootstrapTypeOK'
  <2>1. sound' \subseteq Resources /\ ended' \in BOOLEAN /\ moves' \in 0 .. MaxMoves
    <3>1. CASE StartChild \/ EndChild
      BY <3>1 DEF StartChild, EndChild, BootstrapTypeOK, Resources, Routing, Successor
    <3>2. CASE \E r \in Resources : Move(r)
      BY <3>2, BootstrapAssumption DEF Move, BootstrapTypeOK
    <3> QED BY <3>1, <3>2
  <2> QED BY <1>0, <1>1, <1>2, <1>3, <2>1 DEF BootstrapTypeOK
<1>5. VersionsGrow'
  <2>1. \A q \in Processes, r \in Resources : seen[q][r] <= version'[r] /\ noted[q][r] <= version'[r]
    <3> SUFFICES ASSUME NEW q \in Processes, NEW r \in Resources
                 PROVE  seen[q][r] <= version'[r] /\ noted[q][r] <= version'[r] OBVIOUS
    <3>1. seen[q][r] \in Int /\ noted[q][r] \in Int /\ version[r] \in Int /\ version'[r] \in Int
      BY <1>3 DEF BootstrapTypeOK, Unread
    <3> QED BY <1>3, <3>1 DEF VersionsGrow
  <2> QED BY <1>1, <1>2, <1>3, <2>1 DEF VersionsGrow, Recorded
<1>6. ReadsAreSeen' BY <1>1, <1>2, SeenStays
<1>7. BuildIsOver'
  <2>1. AgreesWithBuild' <=> AgreesWithBuild BY <1>1 DEF AgreesWithBuild
  <2>2. ended' => standing["builder"] = "retained"
    BY DEF BuildIsOver, StartChild, EndChild, Move
  <2>3. ended => ended' BY DEF StartChild, EndChild, Move
  <2>4. "acceptor" \in Processes BY DEF Processes
  <2> QED BY <1>1, <1>2, <2>1, <2>2, <2>3, <2>4 DEF BuildIsOver
<1> QED BY <1>4, <1>5, <1>6, <1>7

LEMMA BootstrapStep == BootstrapInv /\ [BootstrapNext]_bootstrapVars => BootstrapInv'
<1> SUFFICES ASSUME BootstrapInv, [BootstrapNext]_bootstrapVars PROVE BootstrapInv' OBVIOUS
<1>1. CASE \E p \in Processes : Begin(p) \/ StopReading(p) BY <1>1, StandingSteps
<1>2. CASE \E p \in Processes : ReadResource(p) BY <1>2, ReadSteps
<1>3. CASE \E p \in Processes : EndPass(p) BY <1>3, EndSteps
<1>4. CASE RetainRoute \/ RetainReceipt \/ RetainAcceptance
  BY <1>4, StandingSteps DEF RetainRoute, RetainReceipt, RetainAcceptance, Processes
<1>5. CASE StartChild \/ EndChild \/ \E r \in Resources : Move(r) BY <1>5, GitLabSteps
<1>6. CASE UNCHANGED bootstrapVars
  <2>1. UNCHANGED <<way, version, sound, ended, moves, standing, pass, spot, seen, noted>>
    BY <1>6 DEF bootstrapVars, gitlab
  <2>2. \A q \in Processes : Passes(q)' = Passes(q) /\ HalfWay(q)' = HalfWay(q) BY <2>1, SameWay
  <2>3. BootstrapTypeOK' BY <2>1, <2>2 DEF BootstrapInv, BootstrapTypeOK
  <2>4. VersionsGrow' BY <2>1, <2>2 DEF BootstrapInv, VersionsGrow, Recorded
  <2>5. ReadsAreSeen'
    <3>1. ReadsAreSeen BY DEF BootstrapInv
    <3> QED BY <2>1, <2>2, <3>1, SeenStays
  <2>6. BuildIsOver' BY <2>1, <2>2 DEF BootstrapInv, BuildIsOver, AgreesWithBuild, Processes
  <2> QED BY <2>3, <2>4, <2>5, <2>6 DEF BootstrapInv
<1> QED BY <1>1, <1>2, <1>3, <1>4, <1>5, <1>6 DEF BootstrapNext

\* What a process has retained it read in the second half as it was half way.
LEMMA RetainedAtOnce ==
  ASSUME BootstrapInv, NEW p \in Processes, standing[p] = "retained", NEW r \in Recorded(p)
  PROVE  seen[p][r] = noted[p][r]
<1>0. way \in Ways /\ pass[p] = Len(Passes(p)) + 1
  BY DEF BootstrapInv, BootstrapTypeOK, Ways
<1>1. Len(Passes(p)) \in Nat /\ HalfWay(p) \in Nat BY <1>0, PassesCover
<1>5. PICK k \in HalfWay(p) + 1 .. Len(Passes(p)) :
        \E j \in 1 .. Len(Passes(p)[k]) : Passes(p)[k][j] = r
  BY <1>0, PassesCover DEF Reads
<1>2. PICK i \in 1 .. Len(Passes(p)[k]) : Passes(p)[k][i] = r BY <1>5
<1>3. Made(p, k, i) /\ k \in Nat /\ i \in Nat
  <2>1. k \in 1 .. Len(Passes(p)) /\ k < pass[p] BY <1>0, <1>1, <1>2
  <2>2. Len(Passes(p)[k]) \in Nat BY <1>0, <2>1, PassShape
  <2> QED BY <1>2, <2>1, <2>2 DEF Made
<1>4. k > HalfWay(p) BY <1>1, <1>2
<1> QED BY <1>2, <1>3, <1>4 DEF BootstrapInv, ReadsAreSeen

LEMMA AsBuilt == BootstrapInv => AcceptedAsBuilt
<1> SUFFICES ASSUME BootstrapInv, standing["acceptor"] = "retained"
             PROVE  /\ standing["builder"] = "retained"
                    /\ \A r \in Prior : noted["builder"][r] = noted["acceptor"][r]
  BY DEF AcceptedAsBuilt
<1>1. "acceptor" \in Processes /\ "builder" \in Processes BY DEF Processes
<1>2. standing["builder"] = "retained" BY <1>1 DEF BootstrapInv, BuildIsOver
<1>3. AgreesWithBuild
  <2>1. way \in Ways /\ pass["acceptor"] = Len(Passes("acceptor")) + 1
    BY <1>1 DEF BootstrapInv, BootstrapTypeOK, Ways
  <2>2. pass["acceptor"] > HalfWay("acceptor") BY <1>1, <2>1, PassesCover
  <2> QED BY <2>2 DEF BootstrapInv, BuildIsOver
<1>4. \A r \in Prior : r \in Recorded("acceptor") /\ r \in Recorded("builder")
  BY <1>1, RecordedIsRead
<1> QED BY <1>1, <1>2, <1>3, <1>4, RetainedAtOnce DEF AgreesWithBuild
-------------------------------------------------------------------------------
(* The suite: one part acts, the others rest.                              *)

PartsInv == DispatchInv /\ PhotosInv /\ MediaInv /\ BootstrapInv

\* Every part keeps its invariant, whichever of them acts
\* (update_dispatch.py, google_photos_tool.py, media_backup.py,
\* nest-executor-bootstrap.py, nest-executor-accept.py).
THEOREM SuiteInvariant == SuiteSpec => []PartsInv
<1>1. SuiteInit => PartsInv
  BY DispatchStart, PhotosStart, MediaStart, BootstrapStart DEF SuiteInit, PartsInv
<1>2. PartsInv /\ [SuiteNext]_everything => PartsInv'
  <2> SUFFICES ASSUME PartsInv, [SuiteNext]_everything PROVE PartsInv' OBVIOUS
  <2>1. /\ [DispatchNext]_dispatchVars /\ [PhotosNext]_photoVars
        /\ [MediaNext]_mediaVars /\ [BootstrapNext]_bootstrapVars
    BY DEF SuiteNext, everything
  <2> QED BY <2>1, DispatchStep, PhotosStep, MediaStep, BootstrapStep DEF PartsInv
<1> QED BY <1>1, <1>2, PTL DEF SuiteSpec

\* What the programs keep has its shape, for any number of calls, papers, photos,
\* applications and changes of GitLab's resources; what is retained has been read
\* to the end.
THEOREM ServicesTypes ==
  SuiteSpec => [](DispatchTypeOK /\ PhotosTypeOK /\ MediaTypeOK /\ BootstrapTypeOK)
<1>1. PartsInv => DispatchTypeOK /\ PhotosTypeOK /\ MediaTypeOK /\ BootstrapTypeOK
  BY DEF PartsInv, DispatchInv, PhotosInv, MediaInv, BootstrapInv
<1> QED BY <1>1, SuiteInvariant, PTL

\* The parameters are launched once, and whoever was told that his dispatch was
\* requested asked for what the plan was given; what a resume saw holds at its
\* restart unless another call began a run in between; a delivery receipt names the
\* result and all it cites, each in place (update_dispatch.py:48-137).
THEOREM DispatchSafety == (DispatchSpec => []DispatchIsFaithful) /\ (SuiteSpec => []DispatchIsFaithful)
<1>1. DispatchInv => DispatchIsFaithful
  BY AsAsked, ChecksHold DEF DispatchInv, DispatchIsFaithful
<1>2. SuiteSpec => []DispatchIsFaithful
  <2>1. PartsInv => DispatchIsFaithful BY <1>1 DEF PartsInv
  <2> QED BY <2>1, SuiteInvariant, PTL
<1>3. DispatchSpec => []DispatchIsFaithful BY <1>1, DispatchStart, DispatchStep, PTL DEF DispatchSpec
<1> QED BY <1>2, <1>3

\* What a call that ran by itself returned stays as it said, for any items,
\* names and later calls (google_photos_tool.py:166-224).
THEOREM PhotosSafety == (PhotosSpec => []DownloadsStay) /\ (SuiteSpec => []DownloadsStay)
<1>1. PhotosInv => DownloadsStay BY Stays
<1>2. SuiteSpec => []DownloadsStay
  <2>1. PartsInv => DownloadsStay BY <1>1 DEF PartsInv
  <2> QED BY <2>1, SuiteInvariant, PTL
<1>3. PhotosSpec => []DownloadsStay BY <1>1, PhotosStart, PhotosStep, PTL DEF PhotosSpec
<1> QED BY <1>2, <1>3

\* Every archive is of one instant, and that of a successful run goes only when two
\* newer are there, for any applications and failures (media_backup.py:57-88).
THEOREM MediaSafety == (MediaSpec => []ArchivesAreKept) /\ (SuiteSpec => []ArchivesAreKept)
<1>1. MediaInv => ArchivesAreKept BY DEF MediaInv, ArchivesAreKept
<1>2. SuiteSpec => []ArchivesAreKept
  <2>1. PartsInv => ArchivesAreKept BY <1>1 DEF PartsInv
  <2> QED BY <2>1, SuiteInvariant, PTL
<1>3. MediaSpec => []ArchivesAreKept BY <1>1, MediaStart, MediaStep, PTL DEF MediaSpec
<1> QED BY <1>2, <1>3

\* All that a receipt or an acceptance records was so at one instant, however
\* often GitLab's resources change, and nothing changed from the acquisition of an
\* accepted build to its acceptance (nest-executor-bootstrap.py:183-310,
\* nest-executor-accept.py:76-100).
THEOREM BootstrapSafety == (BootstrapSpec => []AcceptedAsRecorded) /\ (SuiteSpec => []AcceptedAsRecorded)
<1>1. BootstrapInv => AcceptedAsRecorded
  BY RetainedAtOnce, AsBuilt DEF AcceptedAsRecorded, RecordedAtOnce
<1>2. SuiteSpec => []AcceptedAsRecorded
  <2>1. PartsInv => AcceptedAsRecorded BY <1>1 DEF PartsInv
  <2> QED BY <2>1, SuiteInvariant, PTL
<1>3. BootstrapSpec => []AcceptedAsRecorded BY <1>1, BootstrapStart, BootstrapStep, PTL DEF BootstrapSpec
<1> QED BY <1>2, <1>3
===============================================================================
