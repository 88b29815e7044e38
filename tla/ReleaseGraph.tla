---------------------------- MODULE ReleaseGraph ----------------------------
(***************************************************************************)
(* How the builds of a release are frozen, built and accepted as one graph *)
(* in GitLab, which nobody locks: src/scripts/nest-release-graph.py        *)
(* (compilation, freezers and acceptance), nest-release-discover.py,       *)
(* nest-release-bind.py and nest-release-inputs.py (what a freezer reads   *)
(* and publishes), nest-release-route.py (the child that builds a member), *)
(* nest-release-assemble.py and nest-release-envelope.py.                  *)
(*                                                                         *)
(* A reader walks over many resources, one request after the other, and    *)
(* walks again, while jobs and bridges are retried, fail and are erased.   *)
(* What it does is a program of reads; one read of a node or of an edge is *)
(* one step.  A result is the job it is of, and an input names the results *)
(* of the parents; all else in the documents is fixed by the graph.        *)
(* External: GitLab, its runners and the member builds.                    *)
(***************************************************************************)
EXTENDS Naturals, Sequences, FiniteSets, SequencesExt

CONSTANTS
  Requests,      \* the dependencies that may be submitted, by member
  Architectures, \* the members of each architecture, in order, by the number of members
  MaxRetries     \* bound: retries and erasures, by the number of members

\* A graph has members, and every member is of an architecture.
ASSUME GraphAssumption ==
  \A deps \in Requests :
    LET members == 1 .. Len(deps)
    IN  /\ deps \in [members -> SUBSET members] /\ Len(deps) \in Nat \ {0}
        /\ Architectures[Len(deps)] \in Seq(Seq(members))
        /\ \A m \in members : \E a \in DOMAIN Architectures[Len(deps)] :
             m \in ToSet(Architectures[Len(deps)][a])
        /\ MaxRetries[Len(deps)] \in Nat

VARIABLES
  parents,       \* the submitted dependencies; members are numbers, in their order
  order,         \* the topological order; <<>>: not compiled
  freezer,       \* freezer[m]: the current job that freezes m's inputs
  child,         \* child[m]: the route children of m, the current one last
  made,          \* made[m]: member jobs of m so far
  reads,         \* reads[p]: the reads reader p has left, and its end; <<>>: it rests
  lineage,       \* lineage[p][m]: the lineage p noted, or was given
  edges,         \* edges[p][m]: the edge p noted
  receipt,       \* receipt[p]: what p accepted
  moment,        \* moment[p]: the results when p had noted all (history)
  retries        \* retries and erasures

graphVars == <<parents, order, freezer, child, made, reads, lineage, edges, receipt,
               moment, retries>>
graph == <<parents, order>>
gitlab == <<freezer, child, made, retries>>
notes == <<reads, lineage, edges, moment>>

N == Len(parents)
Members == 1 .. N
Accept == 0
Envelope == N + 1
Readers == 0 .. N + 1
Ids == 0 .. MaxRetries[N] + 1
Inputs == [Members -> Ids]
TheEnd == <<"end", 0>>

NoInput == [m \in Members |-> 0]
NoLineage == [freezer |-> 0, route |-> 0]
NoEdge == [job |-> 0, freezer |-> 0, base |-> NoInput]
NoResult == [job |-> 0, base |-> NoInput]
Blank(x) == [m \in Members |-> x]

GraphTypeOK ==
  /\ parents \in Requests /\ Len(order) \in {0, N}
  /\ freezer \in [Members -> [id : Ids, base : Inputs,
                    state : {"waiting", "running", "success", "failed", "erased"}]]
  /\ \A m \in Members : \A r \in DOMAIN child[m] :
       child[m][r] \in [input : Inputs, job : Ids,
                        state : {"running", "success", "failed", "erased"}]
  /\ made \in [Members -> Ids] /\ retries \in 0 .. MaxRetries[N]
  /\ \A p \in Readers :
       reads[p] \in Seq(({"lineage", "lineage again", "edge", "edge again"} \X Members)
                       \cup {TheEnd})
  /\ lineage \in [Readers -> [Members -> [freezer : Ids, route : Ids]]]
  /\ edges \in [Readers -> [Members -> [job : Ids, freezer : Ids, base : Inputs]]]
  /\ \A x \in {receipt, moment} :
       x \in [Readers -> [Members -> [job : Ids, base : Inputs]]]

GraphInit ==
  /\ parents \in Requests /\ order = <<>>
  /\ freezer = Blank([id |-> 0, base |-> NoInput, state |-> "waiting"])
  /\ child = Blank(<<>>) /\ made = Blank(0) /\ retries = 0
  /\ reads = [p \in Readers |-> <<>>]
  /\ lineage = [p \in Readers |-> Blank(NoLineage)]
  /\ edges = [p \in Readers |-> Blank(NoEdge)]
  /\ receipt = [p \in Readers |-> Blank(NoResult)]
  /\ moment = [p \in Readers |-> Blank(NoResult)]

-----------------------------------------------------------------------------
(* Compilation: every member comes after those it depends on.               *)

Sorted(set) ==
  CHOOSE s \in [1 .. Cardinality(set) -> set] : \A i, j \in DOMAIN s : i < j => s[i] < s[j]

\* All that depend on nothing else come next.
Grown(deps, done) ==
  done \o Sorted({m \in Members \ ToSet(done) : deps[m] \subseteq ToSet(done)})

Layers(deps) ==
  LET first[n \in 0 .. N] == IF n = 0 THEN <<>> ELSE Grown(deps, first[n - 1])
  IN first[N]

Submittable(m) == m \notin parents[m] /\ Cardinality(parents[m]) <= 2

Compile ==
  /\ order = <<>>
  /\ \A m \in Members : Submittable(m)
  /\ Len(Layers(parents)) = N       \* cyclic otherwise
  /\ order' = Layers(parents)
  /\ UNCHANGED <<parents, gitlab, notes, receipt>>

-----------------------------------------------------------------------------
(* What a reader sees.  A retry hides the resource it supersedes; a route    *)
(* child that was superseded can still be read by its number.                *)

Route(m) == Len(child[m])
Lineage(m) == [freezer |-> freezer[m].id, route |-> Route(m)]
InputsRead(m) == freezer[m].state = "success"
NodeSucceeded(m) == Route(m) > 0 /\ child[m][Route(m)].state \in {"success", "erased"}
LineageRead(m) == NodeSucceeded(m) /\ InputsRead(m)

Edge(m, r) == [job |-> child[m][r].job, freezer |-> freezer[m].id, base |-> freezer[m].base]
ResultRead(m, r) == r \in DOMAIN child[m] /\ child[m][r].state = "success"
BuiltFrom(m, r) == child[m][r].input = freezer[m].base
EdgeRead(m, r) == ResultRead(m, r) /\ InputsRead(m) /\ BuiltFrom(m, r)

Result(m, r) ==
  IF ResultRead(m, r)
  THEN [job |-> child[m][r].job, base |-> child[m][r].input] ELSE NoResult

Reading(p) == reads[p] # <<>>
Done(p) == reads[p] = <<TheEnd>>

Reads(op, members) == [i \in 1 .. Len(members) |-> <<op, members[i]>>]

BindingReads(from) == Reads("edge again", from)
GuardReads(from) == Reads("lineage again", from)

\* Discovery notes the edges of the parents, binding and discovery read them
\* again, and the guard reads the lineages again just before publication.
FreezerReads(m) ==
  LET from == Sorted(parents[m]) IN
  Reads("lineage", from) \o Reads("edge", from) \o BindingReads(from)
    \o Reads("edge again", from) \o GuardReads(from)

Assembly(op, members) == Reads(op, members) \o Reads("edge again", members)

\* The lineage of a member, and its edge, before the next member.
Acquired ==
  [i \in 1 .. 2 * N |-> <<IF i % 2 = 1 THEN "lineage" ELSE "edge", order[(i + 1) \div 2]>>]

AcceptReadsUnpinned == Acquired \o Assembly("edge again", Sorted(Members))

AcceptReads == AcceptReadsUnpinned \o Reads("lineage again", order)

\* The members of every architecture are assembled, and all of them again.
EnvelopeReads ==
  LET Each(op) == FlattenSeq([a \in DOMAIN Architectures[N] |->
                    Assembly(op, Architectures[N][a])])
  IN Each("edge") \o Each("edge again")

Program(p) ==
  IF p = Accept THEN AcceptReads
  ELSE IF p = Envelope THEN EnvelopeReads ELSE FreezerReads(p)

Begin(p, given) ==
  /\ reads' = [reads EXCEPT ![p] = Append(Program(p), TheEnd)]
  /\ lineage' = [lineage EXCEPT ![p] = given]
  /\ edges' = [edges EXCEPT ![p] = Blank(NoEdge)]
  /\ moment' = [moment EXCEPT ![p] = Blank(NoResult)]

\* Acceptance: the member was built from what was acquired of its parents.
FromParents(p, m) ==
  p = Accept => \A q \in parents[m] : freezer[m].base[q] = edges[p][q].job

\* One read; last: nothing is left to be noted after it.
Note(p, op, m, last) ==
  LET r == lineage[p][m].route IN
  \/ /\ op = "lineage" /\ LineageRead(m)
     /\ lineage' = [lineage EXCEPT ![p][m] = Lineage(m)]
     /\ UNCHANGED <<edges, moment>>
  \/ /\ op = "lineage again" /\ LineageRead(m) /\ lineage[p][m] = Lineage(m)
     /\ UNCHANGED <<lineage, edges, moment>>
  \/ /\ op = "edge" /\ EdgeRead(m, r) /\ FromParents(p, m)
     /\ edges' = [edges EXCEPT ![p][m] = Edge(m, r)]
     /\ moment' =
          IF ~last THEN moment
          ELSE [moment EXCEPT ![p] =
                  [x \in Members |->
                     Result(x, IF p = Envelope THEN lineage[p][x].route ELSE Route(x))]]
     /\ UNCHANGED lineage
  \/ /\ op = "edge again" /\ EdgeRead(m, r) /\ edges[p][m] = Edge(m, r)
     /\ UNCHANGED <<lineage, edges, moment>>

Read(p) ==
  /\ Reading(p) /\ ~Done(p)
  /\ Note(p, Head(reads[p])[1], Head(reads[p])[2],
          \A i \in 2 .. Len(reads[p]) : reads[p][i][1] # "edge")
  /\ reads' = [reads EXCEPT ![p] = Tail(@)]
  /\ UNCHANGED <<graph, gitlab, receipt>>

Rest(p) == reads' = [reads EXCEPT ![p] = <<>>] /\ UNCHANGED <<lineage, edges, moment>>

-----------------------------------------------------------------------------
(* Freezers.                                                                *)

Running(m) == freezer' = [freezer EXCEPT ![m].id = @ + 1, ![m].state = "running"]

StartFreezer(m) ==
  /\ order # <<>> /\ freezer[m].state = "waiting"
  /\ \A q \in parents[m] : NodeSucceeded(q)
  /\ Running(m) /\ Begin(m, Blank(NoLineage))
  /\ UNCHANGED <<graph, child, made, retries, receipt>>

\* The runner uploads the artifacts of a job that succeeded.
PublishInputs(m) ==
  /\ freezer[m].state = "running" /\ Done(m)
  /\ freezer' = [freezer EXCEPT ![m].state = "success",
                   ![m].base = [q \in Members |-> edges[m][q].job]]
  /\ Rest(m)
  /\ UNCHANGED <<graph, child, made, retries, receipt>>

FreezerFails(m) ==
  /\ freezer[m].state = "running"
  /\ freezer' = [freezer EXCEPT ![m].state = "failed"]
  /\ Rest(m)
  /\ UNCHANGED <<graph, child, made, retries, receipt>>

-----------------------------------------------------------------------------
(* Acceptance of the graph, and of an envelope of architectures whose route  *)
(* children somebody names.  A retry of the job begins anew.                 *)

StartAccept ==
  /\ ~Reading(Accept) /\ receipt[Accept] = Blank(NoResult)
  /\ order # <<>> /\ \A m \in Members : Route(m) > 0
  /\ Begin(Accept, Blank(NoLineage))
  /\ UNCHANGED <<graph, gitlab, receipt>>

StartEnvelope ==
  /\ ~Reading(Envelope) /\ receipt[Envelope] = Blank(NoResult)
  /\ \A m \in Members : Route(m) > 0
  /\ \E r \in [Members -> Ids \ {0}] :
       /\ \A m \in Members : r[m] <= Route(m)
       /\ Begin(Envelope, [m \in Members |-> [freezer |-> 0, route |-> r[m]]])
  /\ UNCHANGED <<graph, gitlab, receipt>>

Record(p) ==
  /\ p \in {Accept, Envelope} /\ Done(p)
  /\ receipt' = [receipt EXCEPT ![p] =
                   [m \in Members |-> [job |-> edges[p][m].job, base |-> edges[p][m].base]]]
  /\ Rest(p)
  /\ UNCHANGED <<graph, gitlab>>

\* A read that fails or differs refuses it all.
Refuse(p) ==
  /\ p \in {Accept, Envelope} /\ Reading(p)
  /\ reads' = [reads EXCEPT ![p] = <<>>]
  /\ lineage' = [lineage EXCEPT ![p] = Blank(NoLineage)]
  /\ edges' = [edges EXCEPT ![p] = Blank(NoEdge)]
  /\ moment' = [moment EXCEPT ![p] = Blank(NoResult)]
  /\ UNCHANGED <<graph, gitlab, receipt>>

-----------------------------------------------------------------------------
(* GitLab.                                                                  *)

NewJob(m) == made[m] + 1

\* The bridge includes the freezer's artifact, whose child triggers the member.
Triggered(m) ==
  /\ child' = [child EXCEPT ![m] =
                 Append(@, [input |-> freezer[m].base, job |-> NewJob(m),
                            state |-> "running"])]
  /\ made' = [made EXCEPT ![m] = @ + 1]

Trigger(m) ==
  /\ child[m] = <<>> /\ freezer[m].state = "success"
  /\ Triggered(m)
  /\ UNCHANGED <<graph, freezer, retries, notes, receipt>>

Finish(m, r) ==
  /\ r \in DOMAIN child[m] /\ child[m][r].state = "running"
  /\ \E state \in {"success", "failed"} : child' = [child EXCEPT ![m][r].state = state]
  /\ UNCHANGED <<graph, freezer, made, retries, notes, receipt>>

Again == retries < MaxRetries[N] /\ retries' = retries + 1

RetryFreezer(m) ==
  /\ Again /\ freezer[m].state \in {"success", "failed", "erased"}
  /\ Running(m) /\ Begin(m, Blank(NoLineage))
  /\ UNCHANGED <<graph, child, made, receipt>>

RetryBridge(m) ==
  /\ Again /\ Route(m) > 0 /\ child[m][Route(m)].state # "running"
  /\ freezer[m].state = "success"
  /\ Triggered(m)
  /\ UNCHANGED <<graph, freezer, notes, receipt>>

\* The inner bridge, or the job itself, with the variables of that child.
RetryBuild(m, r) ==
  /\ Again /\ r \in DOMAIN child[m] /\ child[m][r].state # "running"
  /\ child' = [child EXCEPT ![m][r].job = NewJob(m), ![m][r].state = "running"]
  /\ made' = [made EXCEPT ![m] = @ + 1]
  /\ UNCHANGED <<graph, freezer, notes, receipt>>

Erase(m) ==
  /\ Again
  /\ \/ /\ freezer[m].state = "success"
        /\ freezer' = [freezer EXCEPT ![m].state = "erased"] /\ UNCHANGED child
     \/ /\ \E r \in DOMAIN child[m] :
             /\ child[m][r].state = "success"
             /\ child' = [child EXCEPT ![m][r].state = "erased"]
        /\ UNCHANGED freezer
  /\ UNCHANGED <<graph, made, notes, receipt>>

GraphNext ==
  \/ Compile \/ StartAccept \/ StartEnvelope
  \/ \E p \in Readers : Read(p) \/ Record(p) \/ Refuse(p)
  \/ \E m \in Members :
       \/ StartFreezer(m) \/ PublishInputs(m) \/ FreezerFails(m)
       \/ Trigger(m) \/ RetryFreezer(m) \/ RetryBridge(m) \/ Erase(m)
       \/ \E r \in Ids : Finish(m, r) \/ RetryBuild(m, r)

-----------------------------------------------------------------------------
(* What is published or accepted is one graph and not a mixture of several:  *)
(* at one moment all its results were the current ones; an accepted member   *)
(* was built from exactly the accepted results of its parents, and frozen    *)
(* inputs from results its parents had together, whatever was retried,       *)
(* erased or superseded between any two reads                                *)
(* (nest-release-graph.py:320-341, 371-422, nest-release-assemble.py:86-106, *)
(* nest-release-envelope.py:65-82).                                          *)
AcceptedIsOneGraph ==
  /\ \A m \in Members : freezer[m].state \in {"success", "erased"} =>
       \A q \in parents[m] : freezer[m].base[q] = moment[m][q].job
  /\ \A p \in {Accept, Envelope} : receipt[p] \in {Blank(NoResult), moment[p]}
  /\ receipt[Accept] # Blank(NoResult) =>
       \A m \in Members : \A q \in parents[m] :
         receipt[Accept][m].base[q] = receipt[Accept][q].job
=============================================================================
