--------------------------- MODULE ExecutorBootstrap ---------------------------
(***************************************************************************)
(* A config executor that is built from a prior OpenBolt result:           *)
(* src/scripts/nest-executor-bootstrap.py compiles the route to a child    *)
(* pipeline and acquires the result there; nest-executor-accept.py accepts *)
(* the completed successor.  Each reads GitLab's resources one by one,     *)
(* more than once, while they change, and compares.                        *)
(*                                                                         *)
(* A version stands for whatever a comparison tells apart.  GitLab never   *)
(* goes back to an earlier one: retries and inventories get new numbers,   *)
(* an erased artifact stays erased.  Selectors, identities and formats,    *)
(* checked before the first read, are abstracted; every request names its  *)
(* native edge.  External: GitLab, which starts and ends the child.        *)
(***************************************************************************)
EXTENDS Integers, Sequences

CONSTANTS
  MaxMoves      \* bound: changes of GitLab's resources

ASSUME BootstrapAssumption == MaxMoves \in Nat

Processes == {"compiler", "builder", "acceptor"}

Prior     == {"edge", "inputs", "inputJob", "producer", "leaf", "result", "executorJob",
              "executor"}
Routing   == {"request", "bridge"}
Successor == {"child", "childJobs", "build", "receipts"}
Resources == Prior \cup Routing \cup Successor

\* Those that a digest or a job's number names can only be lost.
Pinned == Resources \ {"edge", "leaf", "child", "childJobs"}

Unread == -1

VARIABLES
  way,        \* how the build was asked for
  version,    \* version[r]: what resource r is now
  sound,      \* resources that are there, successful and complete
  ended,      \* the child pipeline has succeeded
  standing,   \* standing[p]: what process p does
  pass,       \* pass[p]: which of its passes it is in
  spot,       \* spot[p]: where in the pass
  seen,       \* seen[p][r]: the version of r that it read
  noted,      \* noted[p]: version, half way through its passes (history)
  moves       \* changes so far

gitlab == <<version, sound, ended, moves>>
bootstrapVars == <<way, gitlab, standing, pass, spot, seen, noted>>
-------------------------------------------------------------------------------
(* The passes: what is read, in order.                                     *)

Edge == <<"edge">>

First == <<"edge", "inputs", "inputJob", "producer", "leaf", "result", "executorJob",
           "executor">>

Again == <<"inputJob", "producer", "executorJob", "inputs", "result", "executor", "leaf",
           "edge">>

Route == <<"request", "bridge", "request">>

Child == <<"child", "childJobs", "build", "receipts">>

Compiling ==
  IF way = "discovered"
  THEN <<Edge, First, Again, Edge, Edge, First, Again, Edge, First, Again>>
  ELSE <<First, Again, First, Again>>

Building == IF way = "direct" THEN <<First, Again>> ELSE <<Route, First, Again, Route>>

Accepting ==
  IF way = "direct"
  THEN <<Child, First, Again, Child, First, Again>>
  ELSE <<Child, First, Again, Route, Child, First, Again, Route>>

Passes(p) ==
  IF p = "compiler" THEN Compiling ELSE IF p = "builder" THEN Building ELSE Accepting

HalfWay(p) == Len(Passes(p)) \div 2

\* What a process records, or compares with what another recorded.
Recorded(p) == IF p = "acceptor" THEN Prior \cup Successor ELSE Prior
-------------------------------------------------------------------------------
BootstrapTypeOK ==
  /\ way \in {"discovered", "routed", "direct"}
  /\ version \in [Resources -> Nat] /\ sound \subseteq Resources /\ ended \in BOOLEAN
  /\ standing \in [Processes -> {"waiting", "reading", "retained", "stopped"}]
  /\ pass \in [Processes -> Nat \ {0}] /\ spot \in [Processes -> Nat \ {0}]
  /\ seen \in [Processes -> [Resources -> Nat \cup {Unread}]]
  /\ noted \in [Processes -> [Resources -> Nat]]
  /\ moves \in 0 .. MaxMoves
  /\ \A p \in Processes :
       /\ pass[p] <= Len(Passes(p)) + 1
       /\ standing[p] = "retained" => pass[p] = Len(Passes(p)) + 1

BootstrapInit ==
  /\ way \in {"discovered", "routed", "direct"}
  /\ version = [r \in Resources |-> 0] /\ sound = Prior /\ ended = FALSE
  /\ standing = [p \in Processes |-> "waiting"]
  /\ pass = [p \in Processes |-> 1] /\ spot = [p \in Processes |-> 1]
  /\ seen = [p \in Processes |-> [r \in Resources |-> Unread]]
  /\ noted = [p \in Processes |-> version]
  /\ moves = 0

Stand(p, s) == standing' = [standing EXCEPT ![p] = s]

\* The checks of its own identity and request pass; a child begins when it is
\* started, an acceptance when it has ended.
Begin(p) ==
  /\ standing[p] = "waiting" /\ Stand(p, "reading")
  /\ p = "compiler" => way # "direct"
  /\ p = "builder" => way = "direct" \/ Routing \subseteq sound
  /\ p = "acceptor" => ended
  /\ UNCHANGED <<way, gitlab, pass, spot, seen, noted>>

\* A builder's route is running, an acceptor's has succeeded.
Found(p, r) == r \in sound /\ (r = "bridge" => ended = (p = "acceptor"))

\* What was read before is the same.
Same(p, r) == seen[p][r] \in {Unread, version[r]}

InPass(p) == standing[p] = "reading" /\ pass[p] <= Len(Passes(p))

ReadResource(p) ==
  /\ InPass(p) /\ spot[p] <= Len(Passes(p)[pass[p]])
  /\ LET r == Passes(p)[pass[p]][spot[p]] IN
       /\ Found(p, r) /\ Same(p, r)
       /\ seen' = [seen EXCEPT ![p][r] = version[r]]
  /\ spot' = [spot EXCEPT ![p] = @ + 1]
  /\ UNCHANGED <<way, gitlab, standing, pass, noted>>

\* Mutant: the receipt of the build is taken as it is.
AgreesUnasked == standing["builder"] = "retained"

\* The receipt of the build is what was acquired independently of it.
AgreesWithBuild ==
  \A r \in Prior : seen["acceptor"][r] = seen["builder"][r]

EndPass(p) ==
  /\ InPass(p) /\ spot[p] = Len(Passes(p)[pass[p]]) + 1
  /\ p = "acceptor" /\ pass[p] \in {HalfWay(p), Len(Passes(p))} => AgreesWithBuild
  /\ pass' = [pass EXCEPT ![p] = @ + 1] /\ spot' = [spot EXCEPT ![p] = 1]
  /\ noted' = [noted EXCEPT ![p] = IF pass[p] = HalfWay(p) THEN version ELSE @]
  /\ UNCHANGED <<way, gitlab, standing, seen>>

Retain(p) ==
  /\ standing[p] = "reading" /\ pass[p] = Len(Passes(p)) + 1
  /\ Stand(p, "retained")
  /\ UNCHANGED <<way, gitlab, pass, spot, seen, noted>>

RetainRoute == Retain("compiler")
RetainReceipt == Retain("builder")
RetainAcceptance == Retain("acceptor")

\* A check refuses, a read fails, or the job is cancelled.
StopReading(p) ==
  /\ standing[p] = "reading" /\ Stand(p, "stopped")
  /\ UNCHANGED <<way, gitlab, pass, spot, seen, noted>>
-------------------------------------------------------------------------------
\* External: the bridge starts the child of a compiled route; the child ends
\* when its build has; and anything is retried, erased or listed anew.
StartChild ==
  /\ standing["compiler"] = "retained" /\ Routing \cap sound = {}
  /\ version["request"] = 0
  /\ sound' = sound \cup Routing
  /\ UNCHANGED <<way, version, ended, moves, standing, pass, spot, seen, noted>>

EndChild ==
  /\ standing["builder"] = "retained" /\ ~ ended
  /\ ended' = TRUE /\ sound' = sound \cup Successor
  /\ UNCHANGED <<way, version, moves, standing, pass, spot, seen, noted>>

Move(r) ==
  /\ moves < MaxMoves /\ moves' = moves + 1
  /\ r \in Pinned => r \in sound
  /\ r \in Successor => ended
  /\ version' = [version EXCEPT ![r] = @ + 1]
  /\ sound' \in {sound \ {r}} \cup (IF r \in Pinned THEN {} ELSE {sound \cup {r}})
  /\ UNCHANGED <<way, ended, standing, pass, spot, seen, noted>>

BootstrapNext ==
  \/ \E p \in Processes :
       Begin(p) \/ ReadResource(p) \/ EndPass(p) \/ StopReading(p)
  \/ RetainRoute \/ RetainReceipt \/ RetainAcceptance
  \/ StartChild \/ EndChild
  \/ \E r \in Resources : Move(r)

BootstrapSpec == BootstrapInit /\ [][BootstrapNext]_bootstrapVars
-------------------------------------------------------------------------------
\* All that a route's receipt, a build's receipt or an acceptance records was
\* so at one instant, half way through its passes: what is retried or erased
\* while it is read makes it refuse (nest-executor-bootstrap.py:183-205 and
\* 304-310, nest-executor-accept.py:95-100).
RecordedAtOnce ==
  \A p \in Processes :
    standing[p] = "retained" => \A r \in Recorded(p) : seen[p][r] = noted[p][r]

\* Between the acquisition of an accepted executor's build and its acceptance
\* nothing has changed of what it was built from
\* (nest-executor-accept.py:76-89).
AcceptedAsBuilt ==
  standing["acceptor"] = "retained" =>
    /\ standing["builder"] = "retained"
    /\ \A r \in Prior : noted["builder"][r] = noted["acceptor"][r]

\* What is recorded was so at one instant, and what is accepted is what was built.
AcceptedAsRecorded == RecordedAtOnce /\ AcceptedAsBuilt
===============================================================================
