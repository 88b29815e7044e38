---------------------------- MODULE UpdateDispatch ----------------------------
(***************************************************************************)
(* Dispatching one lifecycle to the surviving controller, and delivering   *)
(* its reports: src/tasks/update_dispatch.py, with the publisher of        *)
(* src/tasks/retain_update_report.py.  The lifecycle is one transient unit *)
(* of the controller's user manager, named by the policy.                  *)
(*                                                                         *)
(* Any number of calls overlap, and each may be refused or killed between  *)
(* two steps.  External: systemd, which unloads a transient unit that is   *)
(* stopped or succeeds and keeps one that failed; the plan that the unit   *)
(* runs, which retains papers and, last, its result.                       *)
(***************************************************************************)
EXTENDS Naturals, FiniteSets

CONSTANTS
  Dispatchers,  \* processes that run the task
  Params,       \* complete parameters of the one policy
  Papers,       \* documents the plan retains
  Result,       \* the paper named lifecycle-result-...
  Cites,        \* Cites[p]: the papers whose receipts p holds
  Void,         \* nothing
  MaxAsked      \* bound: calls of the task

ASSUME DispatchAssumption ==
  /\ Result \in Papers /\ Cites \in [Papers -> SUBSET Papers]
  /\ Params # {} /\ Void \notin Params /\ "torn" \notin Params \cup {Void}
  /\ Dispatchers \cap {"absent", "whole", "twice"} = {} /\ MaxAsked \in Nat

VARIABLES
  paramsFile,   \* what params.json holds
  unit,         \* the transient unit
  given,        \* what the last run of the plan was given
  launches,     \* runs of the plan
  dispatched,   \* those that systemd-run began
  filed,        \* filed[p]: the paper in the controller's directory
  placed,       \* placed[p]: the paper in the caller's directory
  deliveries,   \* sets of papers that a delivery receipt names
  stand,        \* stand[d]: what call d does next
  wish,         \* wish[d]: the parameters it was given
  lookedAt,     \* lookedAt[d]: runs of the plan when it saw the unit
  frontier,     \* frontier[d]: papers to visit, then to publish
  bundle,       \* bundle[d]: papers it exports
  granted,      \* parameters of the dispatches reported as requested
  asked         \* calls so far

native == <<paramsFile, unit, given, launches, dispatched, filed>>
delivery == <<placed, deliveries>>
carried == <<frontier, bundle>>
dispatchVars == <<native, delivery, stand, wish, lookedAt, carried, granted, asked>>

\* A paper is linked into place beside its temporary name, and then alone:
\* until then it is his whose temporary name it has, or nobody's if he died.
FileStates == {"absent", "whole", "twice"} \cup Dispatchers

DispatchTypeOK ==
  /\ paramsFile \in Params \cup {Void, "torn"}
  /\ unit \in {"absent", "active", "failed"}
  /\ given \in Params \cup {Void, "torn"}
  /\ launches \in Nat /\ dispatched \in Nat
  /\ filed \in [Papers -> {"absent", "linked", "whole"}] /\ placed \in [Papers -> FileStates]
  /\ deliveries \subseteq SUBSET Papers
  /\ stand \in [Dispatchers -> {"idle", "create", "write", "launch", "compare", "look",
                                "results", "restart", "visit", "receive", "index"}]
  /\ wish \in [Dispatchers -> Params]
  /\ lookedAt \in [Dispatchers -> Nat]
  /\ frontier \in [Dispatchers -> SUBSET Papers] /\ bundle \in [Dispatchers -> SUBSET Papers]
  /\ granted \subseteq Params /\ asked \in 0 .. MaxAsked

DispatchInit ==
  /\ paramsFile = Void /\ unit = "absent" /\ given = Void
  /\ launches = 0 /\ dispatched = 0
  /\ filed = [p \in Papers |-> "absent"] /\ placed = [p \in Papers |-> "absent"]
  /\ deliveries = {}
  /\ stand = [d \in Dispatchers |-> "idle"]
  /\ wish \in [Dispatchers -> {CHOOSE w \in Params : TRUE}]
  /\ lookedAt = [d \in Dispatchers |-> 0]
  /\ frontier = [d \in Dispatchers |-> {}] /\ bundle = [d \in Dispatchers |-> {}]
  /\ granted = {} /\ asked = 0
-------------------------------------------------------------------------------
Go(d, place) == stand' = [stand EXCEPT ![d] = place]

\* The controller's checkout, the policy and the window are found in order.
Ask(d, action, w) ==
  /\ stand[d] = "idle" /\ asked < MaxAsked /\ asked' = asked + 1
  /\ Go(d, action) /\ wish' = [wish EXCEPT ![d] = w]
  /\ UNCHANGED <<native, delivery, lookedAt, carried, granted>>

\* start: the parameters, written once; only then the unit.
CreateParams(d) ==
  /\ stand[d] = "create" /\ paramsFile = Void
  /\ paramsFile' = "torn" /\ Go(d, "write")
  /\ UNCHANGED <<unit, given, launches, dispatched, filed, delivery, wish, lookedAt,
                 carried, granted, asked>>

WriteParams(d) ==
  /\ stand[d] = "write" /\ paramsFile' = wish[d] /\ Go(d, "launch")
  /\ UNCHANGED <<unit, given, launches, dispatched, filed, delivery, wish, lookedAt,
                 carried, granted, asked>>

\* The plan reads the file it was named.
RunPlan ==
  /\ unit' = "active" /\ given' = paramsFile /\ launches' = launches + 1

Grant(d) == granted' = granted \cup {wish[d]}

LaunchUnit(d) ==
  /\ stand[d] = "launch" /\ unit = "absent" /\ RunPlan
  /\ dispatched' = dispatched + 1
  /\ Go(d, "idle") /\ Grant(d)
  /\ UNCHANGED <<paramsFile, filed, delivery, wish, lookedAt, carried, asked>>

\* Mutant: a resume does not compare the parameters.
AnyParams(d) == paramsFile # Void

\* resume: the same parameters, a unit that does not run, no result.
SameParams(d) == paramsFile = wish[d]

CompareParams(d) ==
  /\ stand[d] = "compare" /\ SameParams(d) /\ Go(d, "look")
  /\ UNCHANGED <<native, delivery, wish, lookedAt, carried, granted, asked>>

Resumable == unit \in {"absent", "failed"}

LookAtUnit(d) ==
  /\ stand[d] = "look" /\ Resumable /\ Go(d, "results")
  /\ lookedAt' = [lookedAt EXCEPT ![d] = launches]
  /\ UNCHANGED <<native, delivery, wish, carried, granted, asked>>

LookForResult(d) ==
  /\ stand[d] = "results" /\ filed[Result] = "absent" /\ Go(d, "restart")
  /\ UNCHANGED <<native, delivery, wish, lookedAt, carried, granted, asked>>

\* systemctl restart ends whatever the unit runs and begins it anew; a unit
\* that is not loaded is not found.
RestartUnit(d) ==
  /\ stand[d] = "restart" /\ unit # "absent" /\ RunPlan
  /\ Go(d, "idle") /\ Grant(d)
  /\ UNCHANGED <<paramsFile, dispatched, filed, delivery, wish, lookedAt, carried, asked>>

\* export: from the result along the receipts to every paper.
FindResult(d) ==
  /\ stand[d] = "visit" /\ bundle[d] = {} /\ frontier[d] = {}
  /\ filed[Result] = "whole" /\ frontier' = [frontier EXCEPT ![d] = {Result}]
  /\ UNCHANGED <<native, delivery, stand, wish, lookedAt, bundle, granted, asked>>

Unvisited(d, p) == Cites[p] \ (bundle[d] \cup {p})

Visit(d, p) ==
  /\ stand[d] = "visit" /\ p \in frontier[d] /\ filed[p] = "whole"
  /\ bundle' = [bundle EXCEPT ![d] = @ \cup {p}]
  /\ frontier' = [frontier EXCEPT ![d] = (@ \ {p}) \cup Unvisited(d, p)]
  /\ UNCHANGED <<native, delivery, stand, wish, lookedAt, granted, asked>>

Exported(d) ==
  /\ stand[d] = "visit" /\ bundle[d] # {} /\ frontier[d] = {}
  /\ frontier' = [frontier EXCEPT ![d] = bundle[d]] /\ Go(d, "receive")
  /\ UNCHANGED <<native, delivery, wish, lookedAt, bundle, granted, asked>>

\* receive: the publisher links each paper into place, removes its temporary
\* name and reads back; a name that exists is read back as it is.
LinkPaper(d, p) ==
  /\ stand[d] = "receive" /\ p \in frontier[d] /\ placed[p] = "absent"
  /\ placed' = [placed EXCEPT ![p] = d]
  /\ frontier' = [frontier EXCEPT ![d] = @ \ {p}] /\ Go(d, "index")
  /\ UNCHANGED <<native, deliveries, wish, lookedAt, bundle, granted, asked>>

UnlinkPaper(d, p) ==
  /\ stand[d] = "index" /\ p \in bundle[d] /\ placed[p] = d
  /\ placed' = [placed EXCEPT ![p] = "whole"] /\ Go(d, "receive")
  /\ UNCHANGED <<native, deliveries, wish, lookedAt, carried, granted, asked>>

ReadBackPaper(d, p) ==
  /\ stand[d] = "receive" /\ p \in frontier[d] /\ placed[p] = "whole"
  /\ frontier' = [frontier EXCEPT ![d] = @ \ {p}]
  /\ UNCHANGED <<native, delivery, stand, wish, lookedAt, bundle, granted, asked>>

Deliver(d) ==
  /\ stand[d] = "receive" /\ frontier[d] = {}
  /\ deliveries' = deliveries \cup {bundle[d]} /\ Go(d, "idle")
  /\ bundle' = [bundle EXCEPT ![d] = {}]
  /\ UNCHANGED <<native, placed, wish, lookedAt, frontier, granted, asked>>

\* A check refuses, a command fails or times out, or the process is killed.
StopDispatch(d) ==
  /\ stand[d] # "idle" /\ Go(d, "idle")
  /\ placed' = [p \in Papers |-> IF placed[p] = d THEN "twice" ELSE placed[p]]
  /\ frontier' = [frontier EXCEPT ![d] = {}] /\ bundle' = [bundle EXCEPT ![d] = {}]
  /\ UNCHANGED <<native, deliveries, wish, lookedAt, granted, asked>>
-------------------------------------------------------------------------------
\* External: the plan retains a paper after those it cites, with the same
\* publisher, and its run ends; or it is stopped, or the controller reboots.
LinkFiled(p) ==
  /\ unit = "active" /\ filed[p] = "absent"
  /\ \A q \in Cites[p] : filed[q] = "whole"
  /\ \A q \in Papers : filed[q] # "linked"
  /\ filed' = [filed EXCEPT ![p] = "linked"]

UnlinkFiled(p) ==
  /\ unit = "active" /\ filed[p] = "linked"
  /\ filed' = [filed EXCEPT ![p] = "whole"]

PlanWorks ==
  /\ \E p \in Papers : LinkFiled(p) \/ UnlinkFiled(p)
  /\ UNCHANGED <<paramsFile, unit, given, launches, dispatched, delivery, stand, wish,
                 lookedAt, carried, granted, asked>>

UnitEnds ==
  /\ unit # "absent"
  /\ \/ unit = "active" /\ unit' = "failed"
     \/ unit' = "absent"
  /\ UNCHANGED <<paramsFile, given, launches, dispatched, filed, delivery, stand, wish,
                 lookedAt, carried, granted, asked>>

DispatchNext ==
  \/ \E d \in Dispatchers :
       \/ \E w \in Params : \E action \in {"create", "compare", "visit"} : Ask(d, action, w)
       \/ CreateParams(d) \/ WriteParams(d) \/ LaunchUnit(d)
       \/ CompareParams(d) \/ LookAtUnit(d) \/ LookForResult(d) \/ RestartUnit(d)
       \/ FindResult(d) \/ Exported(d) \/ Deliver(d) \/ StopDispatch(d)
       \/ \E p \in Papers : Visit(d, p) \/ LinkPaper(d, p) \/ UnlinkPaper(d, p)
                              \/ ReadBackPaper(d, p)
  \/ PlanWorks \/ UnitEnds

DispatchSpec == DispatchInit /\ [][DispatchNext]_dispatchVars
-------------------------------------------------------------------------------
\* There is one dispatch, and whoever is told that his was requested asked for
\* exactly what the plan was given, written whole (update_dispatch.py:112-136).
DispatchedAsAsked ==
  /\ dispatched <= 1
  /\ given \in Params \cup {Void}
  /\ granted \subseteq {given}

\* What a resume found when it looked holds at its restart, unless another call
\* has run the plan in between: systemd and the plan alone never make it stale
\* (update_dispatch.py:119-124).
ResumeChecksHold ==
  \A d \in Dispatchers :
    stand[d] = "restart" /\ launches = lookedAt[d] =>
      unit # "active" /\ filed[Result] = "absent"

\* A delivery names the result and all that is cited from it, and each of them
\* is in place (update_dispatch.py:48-103).
DeliveryIsClosed ==
  \A bundled \in deliveries :
    /\ Result \in bundled
    /\ \A p \in bundled : placed[p] = "whole" /\ Cites[p] \subseteq bundled

\* A call is told what is so: which parameters run, and what was delivered; and no
\* resume ends a run that another call did not begin while the resume was looking.
\* (One that another call did begin, it ends: ActiveRunsUninterrupted.)
DispatchIsFaithful == DispatchedAsAsked /\ ResumeChecksHold /\ DeliveryIsClosed

\* docs/nest-update-lifecycle.md:125-127: a resume requires "an inactive/failed unit
\* and no completed lifecycle report, then restarts that same unit.  It cannot
\* interrupt an active run": the plan is never run anew while its unit is active.
ActiveRunsUninterrupted == [][launches' # launches => unit # "active"]_dispatchVars
===============================================================================
