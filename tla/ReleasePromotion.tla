--------------------------- MODULE ReleasePromotion ---------------------------
(***************************************************************************)
(* The release alias promotion of src/scripts/nest-release-promote.py, for *)
(* one release pointer: every alias of the plan is copied to the           *)
(* candidate's image, the whole set is read again, and only then the       *)
(* pointer file is replaced.  Rollback is the same promotion with the      *)
(* manifests exchanged.                                                    *)
(*                                                                         *)
(* The registry has no compare-and-swap, so every comparison is a read of  *)
(* its own before the write it guards; operators of this script exclude    *)
(* each other by the pointer's lock, other registry writers do not.  The   *)
(* read-only mode, manifest validation and the Stage 3 root checks change  *)
(* nothing and only refuse.                                                *)
(***************************************************************************)
EXTENDS Integers, FiniteSets

CONSTANTS
  Releases,     \* complete checked manifests
  Aliases,      \* the registry tags every plan covers
  Images,       \* image digests
  Image,        \* Image[r][a], the image release r selects for alias a
  Operators,    \* invocations with --apply
  None,         \* no operator, release or alias
  MaxForeign,   \* bound on writes of other registry writers
  MaxPlans      \* bound on plans retained

ASSUME PromotionAssumption ==
  /\ Aliases # {}
  /\ Image \in [Releases -> [Aliases -> Images]]
  /\ None \notin Operators \cup Releases \cup Aliases
  /\ MaxForeign \in Nat /\ MaxPlans \in Nat

VARIABLES
  pointer,    \* the current release
  alias,      \* alias[a]: the image the tag names
  retained,   \* plans <<candidate, previous>> kept beside the pointer
  lock,       \* the operator that holds the pointer's lock
  pc,         \* pc[p]: where operator p is
  plan,       \* plan[p]: <<candidate, previous>>
  todo,       \* todo[p]: aliases not yet copied, or not yet read again
  at,         \* at[p]: the alias being copied
  foreign,    \* writes of others so far
  touched,    \* aliases others wrote (history)
  unseen      \* aliases others wrote after they were read again (history)

registry == <<pointer, alias, retained>>
others   == <<foreign, touched, unseen>>
vars     == <<registry, lock, pc, plan, todo, at, others>>

Plans == Releases \X Releases
NoPlan == <<None, None>>

New(p) == plan[p][1]
Old(p) == plan[p][2]

TypeOK ==
  /\ pointer \in Releases
  /\ alias \in [Aliases -> Images]
  /\ retained \subseteq Plans
  /\ lock \in Operators \cup {None}
  /\ pc \in [Operators -> {"idle", "admit", "compare", "copy", "read", "recheck", "publish"}]
  /\ plan \in [Operators -> Plans \cup {NoPlan}]
  /\ todo \in [Operators -> SUBSET Aliases]
  /\ at \in [Operators -> Aliases \cup {None}]
  /\ foreign \in 0 .. MaxForeign
  /\ touched \subseteq Aliases /\ unseen \subseteq Aliases
  /\ \A p \in Operators :
       /\ pc[p] # "idle" => lock = p /\ plan[p] \in Plans
       /\ pc[p] \in {"copy", "read"} => at[p] \in todo[p]

Init ==
  /\ pointer \in Releases
  /\ alias = Image[pointer]
  /\ retained = {}
  /\ lock = None
  /\ pc = [p \in Operators |-> "idle"]
  /\ plan = [p \in Operators |-> NoPlan]
  /\ todo = [p \in Operators |-> {}]
  /\ at = [p \in Operators |-> None]
  /\ foreign = 0
  /\ touched = {} /\ unseen = {}
------------------------------------------------------------------------------
Go(p, l) == pc' = [pc EXCEPT ![p] = l]

Leave(p) ==
  /\ Go(p, "idle")
  /\ plan' = [plan EXCEPT ![p] = NoPlan]
  /\ todo' = [todo EXCEPT ![p] = {}]
  /\ at' = [at EXCEPT ![p] = None]
  /\ lock' = IF lock = p THEN None ELSE lock

\* A comparison fails, a command fails or times out, or the operator dies.
Stop(p) ==
  /\ pc[p] # "idle"
  /\ Leave(p)
  /\ UNCHANGED <<registry, others>>

\* Mutant: the pointer's lock is not taken.
StartUnlocked(p, new, old) ==
  /\ pc[p] = "idle"
  /\ pointer = old
  /\ plan' = [plan EXCEPT ![p] = <<new, old>>]
  /\ Go(p, "admit")
  /\ UNCHANGED <<registry, lock, todo, at, others>>

\* The nonblocking lock, and a previous manifest that is the current one.
Start(p, new, old) ==
  /\ pc[p] = "idle"
  /\ lock = None
  /\ lock' = p
  /\ pointer = old
  /\ plan' = [plan EXCEPT ![p] = <<new, old>>]
  /\ Go(p, "admit")
  /\ UNCHANGED <<registry, todo, at, others>>

\* Every alias names the old image.
Admissible(old) == \A a \in Aliases : alias[a] = Image[old][a]

\* Mutant: the rollback description is retained with the pointer only.
AdmitUnretained(p) ==
  /\ pc[p] = "admit"
  /\ Admissible(Old(p))
  /\ todo' = [todo EXCEPT ![p] = Aliases]
  /\ Go(p, "compare")
  /\ UNCHANGED <<registry, lock, plan, at, others>>

\* All resources are read, and the previous manifest and the plan are retained,
\* before the first write.
Admit(p) ==
  /\ pc[p] = "admit"
  /\ Admissible(Old(p))
  /\ retained' = retained \cup {plan[p]}
  /\ Cardinality(retained') <= MaxPlans
  /\ todo' = [todo EXCEPT ![p] = Aliases]
  /\ Go(p, "compare")
  /\ UNCHANGED <<pointer, alias, lock, plan, at, others>>

\* The comparison immediately before a copy.
Compare(p, a) ==
  /\ pc[p] = "compare"
  /\ a \in todo[p]
  /\ pointer = Old(p)
  /\ alias[a] = Image[Old(p)][a]
  /\ at' = [at EXCEPT ![p] = a]
  /\ Go(p, "copy")
  /\ UNCHANGED <<registry, lock, plan, todo, others>>

\* `skopeo copy --all --preserve-digests`.
Copy(p) ==
  /\ pc[p] = "copy"
  /\ alias' = [alias EXCEPT ![at[p]] = Image[New(p)][at[p]]]
  /\ Go(p, "read")
  /\ UNCHANGED <<pointer, retained, lock, plan, todo, at, others>>

\* Mutant: the copies are not read again as a set.
ReadBackOnly(p) ==
  /\ pc[p] = "read"
  /\ alias[at[p]] = Image[New(p)][at[p]]
  /\ todo' = [todo EXCEPT ![p] = @ \ {at[p]}]
  /\ Go(p, IF todo[p] = {at[p]} THEN "publish" ELSE "compare")
  /\ unseen' = {}
  /\ UNCHANGED <<registry, lock, plan, at, foreign, touched>>

\* The readback of one copy; after the last one the whole set is read again.
ReadBack(p) ==
  /\ pc[p] = "read"
  /\ alias[at[p]] = Image[New(p)][at[p]]
  /\ IF todo[p] = {at[p]}
       THEN /\ Go(p, "recheck")
            /\ todo' = [todo EXCEPT ![p] = Aliases]
            /\ unseen' = {}
       ELSE /\ Go(p, "compare")
            /\ todo' = [todo EXCEPT ![p] = @ \ {at[p]}]
            /\ UNCHANGED unseen
  /\ UNCHANGED <<registry, lock, plan, at, foreign, touched>>

Recheck(p, a) ==
  /\ pc[p] = "recheck"
  /\ a \in todo[p]
  /\ alias[a] = Image[New(p)][a]
  /\ todo' = [todo EXCEPT ![p] = @ \ {a}]
  /\ Go(p, IF todo[p] = {a} THEN "publish" ELSE "recheck")
  /\ UNCHANGED <<registry, lock, plan, at, others>>

\* The pointer file is replaced atomically.
Publish(p) ==
  /\ pc[p] = "publish"
  /\ pointer = Old(p)
  /\ pointer' = New(p)
  /\ Leave(p)
  /\ UNCHANGED <<alias, retained, others>>

\* External: another registry writer moves a tag.
ForeignWrite(a) ==
  /\ foreign < MaxForeign
  /\ foreign' = foreign + 1
  /\ \E i \in Images \ {alias[a]} : alias' = [alias EXCEPT ![a] = i]
  /\ touched' = touched \cup {a}
  /\ unseen' = IF \E p \in Operators : pc[p] \in {"recheck", "publish"} /\ a \notin todo[p]
                 THEN unseen \cup {a} ELSE unseen
  /\ UNCHANGED <<pointer, retained, lock, pc, plan, todo, at>>

Promote(p) ==
  \/ \E new, old \in Releases : Start(p, new, old)
  \/ Admit(p) \/ Copy(p) \/ ReadBack(p) \/ Publish(p) \/ Stop(p)
  \/ \E a \in Aliases : Compare(p, a) \/ Recheck(p, a)

Next ==
  \/ \E p \in Operators : Promote(p)
  \/ \E a \in Aliases : ForeignWrite(a)

Spec == Init /\ [][Next]_vars
------------------------------------------------------------------------------
(* Properties.                                                             *)

\* The pointer advances only to a release that every alias serves: an alias
\* that does not was moved by another writer, after it had been read again
\* ("a failed/ambiguous copy stops here and NEVER advances the release
\* pointer").
PointerFollowsAliases ==
  [][pointer' # pointer =>
       \A a \in Aliases : alias[a] = Image[pointer'][a] \/ a \in unseen]_vars

\* "A complete readable rollback description must survive even a partial copy":
\* whatever operators died where, an alias names the current release's image or
\* one that a retained plan away from the current release explains.
PartialCopiesDescribed ==
  \A a \in Aliases \ touched :
    \/ alias[a] = Image[pointer][a]
    \/ \E r \in Releases : <<r, pointer>> \in retained /\ alias[a] = Image[r][a]

\* docs/nest-release-publication.md, on a partial copy: "Submit a deliberately
\* reconciled mapping for the exact observed state": with no other writer and
\* no promotion under way, some plan is admissible.
PartialPromotionReconcilable ==
  touched = {} /\ lock = None => Admissible(pointer)
==============================================================================
