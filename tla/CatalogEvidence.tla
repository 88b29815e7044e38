--------------------------- MODULE CatalogEvidence ---------------------------
(***************************************************************************)
(* The evidence that a host converged to the catalog of a release:         *)
(* src/tasks/update_catalog_apply.rb applies the served catalog and then   *)
(* checks that a second run changes nothing, update_catalog_report.rb      *)
(* binds the native report of each run, and retain_update_catalog.py       *)
(* judges what was bound again before it is retained.                      *)
(*                                                                         *)
(* scripts/run_puppet.sh serialises the runs on a host, but not the server *)
(* they ask: another version may be deployed at any time, other runs apply *)
(* it before, between and after ours, and the host drifts.  A version is a *)
(* number; what a catalog holds and how a report is written is abstracted  *)
(* (a report may be refused or lost), and a run checks and changes the     *)
(* whole host in one step, its end.  A host that reboots ends the task,    *)
(* and nothing is retained.                                                *)
(***************************************************************************)
EXTENDS Naturals

CONSTANTS
  MaxServed,  \* bound: versions the server may come to serve
  MaxOthers   \* bound: runs of others and drifts

ASSUME CatalogAssumption == MaxServed \in Nat \ {0} /\ MaxOthers \in Nat

Expected == 1    \* configuration_version of the release
Partial == 0     \* a host that drifted, or a run that failed half way

VARIABLES
  served,     \* the version the server compiles
  applied,    \* the version the host is in
  locked,     \* who holds the agent lock: "nobody", "ours", "other"
  compiled,   \* the version of the run that holds it
  others,     \* runs of others and drifts so far
  invocation, \* "main", "repeat" or "done"
  outcomes,   \* outcomes[i]: what invocation i gave
  verdict,    \* what is retained: "none", "pass", "fail"
  whole       \* the host was in the expected version when our last run ended
              \* (history)

catalogVars ==
  <<served, applied, locked, compiled, others, invocation, outcomes, verdict, whole>>

Versions == 0 .. MaxServed
Invocations == {"main", "repeat"}
\* native_exit: 0 unchanged, 2 changed, 4 failed, 1 refused; 9 not attempted.
CatalogOutcomes == [exit : {0, 1, 2, 4, 9}, version : Versions, bound : BOOLEAN]
NotAttempted == [exit |-> 9, version |-> 0, bound |-> FALSE]

CatalogTypeOK ==
  /\ served \in Versions \ {0} /\ applied \in Versions /\ compiled \in Versions
  /\ locked \in {"nobody", "ours", "other"} /\ others \in 0 .. MaxOthers
  /\ invocation \in Invocations \cup {"done"}
  /\ outcomes \in [Invocations -> CatalogOutcomes]
  /\ verdict \in {"none", "pass", "fail"} /\ whole \in BOOLEAN

CatalogInit ==
  /\ served = Expected /\ applied = Partial
  /\ locked = "nobody" /\ compiled = 0 /\ others = 0
  /\ invocation = "main" /\ outcomes = [i \in Invocations |-> NotAttempted]
  /\ verdict = "none" /\ whole = FALSE
-----------------------------------------------------------------------------
\* A run takes the lock and has its catalog compiled.
Lock(who) ==
  /\ locked = "nobody"
  /\ locked' = who /\ compiled' = served

Invoke ==
  /\ invocation \in Invocations /\ Lock("ours")
  /\ UNCHANGED <<served, applied, others, invocation, outcomes, verdict, whole>>

BindAnyVersion(exit, version) == exit \in {0, 2}

\* The report of a run that applied is bound when it is of the release's version.
BindReport(exit, version) == exit \in {0, 2} /\ version = Expected

\* The repeat follows a bound first run only.
After(i, bound) == IF i = "main" /\ bound THEN "repeat" ELSE "done"

Complete ==
  /\ locked = "ours" /\ locked' = "nobody" /\ compiled' = 0
  /\ \E exit \in {1, 4, IF applied = compiled THEN 0 ELSE 2} :
       \E bound \in {FALSE, BindReport(exit, compiled)} :
          /\ outcomes' = [outcomes EXCEPT ![invocation] =
                            [exit |-> exit, version |-> compiled, bound |-> bound]]
          /\ invocation' = After(invocation, bound)
          /\ applied' = CASE exit = 1 -> applied [] exit = 4 -> Partial
                          [] OTHER -> compiled
  /\ whole' = (applied' = Expected)
  /\ UNCHANGED <<served, others, verdict>>

\* Converged: the repeat is bound and unchanged.
Converged ==
  /\ outcomes["main"].bound
  /\ outcomes["repeat"].bound /\ outcomes["repeat"].exit = 0

RetainCatalog ==
  /\ invocation = "done" /\ verdict = "none"
  /\ verdict' = IF Converged THEN "pass" ELSE "fail"
  /\ UNCHANGED <<served, applied, locked, compiled, others, invocation, outcomes, whole>>
-----------------------------------------------------------------------------
\* What others do.
Deploy ==
  /\ served < MaxServed /\ served' = served + 1
  /\ UNCHANGED <<applied, locked, compiled, others, invocation, outcomes, verdict, whole>>

RollBack ==
  /\ served > Expected /\ others < MaxOthers
  /\ others' = others + 1 /\ served' = served - 1
  /\ UNCHANGED <<applied, locked, compiled, invocation, outcomes, verdict, whole>>

OtherRuns ==
  /\ others < MaxOthers /\ others' = others + 1 /\ Lock("other")
  /\ UNCHANGED <<served, applied, invocation, outcomes, verdict, whole>>

OtherEnds ==
  /\ locked = "other" /\ locked' = "nobody" /\ compiled' = 0
  /\ applied' \in {compiled, Partial}
  /\ UNCHANGED <<served, others, invocation, outcomes, verdict, whole>>

Drift ==
  /\ others < MaxOthers /\ others' = others + 1
  /\ applied' = Partial
  /\ UNCHANGED <<served, locked, compiled, invocation, outcomes, verdict, whole>>

CatalogNext ==
  \/ Invoke \/ Complete \/ RetainCatalog
  \/ Deploy \/ RollBack \/ OtherRuns \/ OtherEnds \/ Drift

CatalogSpec == CatalogInit /\ [][CatalogNext]_catalogVars
-----------------------------------------------------------------------------
\* A retained pass says that the host was in the version of the release when
\* the repeat ended, though the server, other runs and drift moved it between.
PassWasConverged == verdict = "pass" => whole
=============================================================================
