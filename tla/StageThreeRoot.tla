--------------------------- MODULE StageThreeRoot ---------------------------
(***************************************************************************)
(* How a stopped build becomes the sealed root of a release:               *)
(* src/files/build/finish-stage3-root.py (placement and completion),       *)
(* materialize-stage3-root.py (assembly in a private dataset),             *)
(* publish-stage3-root.py and check-stage3-root.py (the published root)    *)
(* and transfer-stage3-root.py (the same by way of an archive).  Jobs      *)
(* overlap and die anywhere; no job takes a lock or repairs what another   *)
(* left.  Meanwhile others may touch the build, the archive and whatever   *)
(* is still writable, and destroy a dataset.                               *)
(*                                                                         *)
(* A digest is the content itself.  A job that refuses and one that is     *)
(* killed leave the same behind (StopJob).                                    *)
(* External: podman, ZFS, tar, rsync and the others.                       *)
(***************************************************************************)
EXTENDS Naturals

CONSTANTS
  Jobs,         \* processes
  Stagings,     \* private datasets, each for one attempt
  MaxJobs,      \* bound: jobs begun and acts of others, together
  MaxTampers,   \* bound: acts of others
  Missing,      \* no file, nothing seen
  Torn          \* a receipt that was cut short

VARIABLES
  jobAt,         \* jobAt[j]: where process j is
  task,          \* task[j]: [kind, place] of its job
  saw,           \* saw[j]: the digest it compares with
  noted,         \* noted[j]: the ancestors, or the root's identity, it noted
  layer, repos,  \* the container's layer and its repository volume
  archive,       \* the tar file
  packing,       \* the export's intent is on disk
  told,          \* what the export's receipt and output say
  ancestors,     \* 0 .. 2: the release's parent datasets that exist
  staging,       \* staging[p]: a private dataset
  begun,         \* begun[p]: the intents on disk
  materialized,  \* materialized[p]: the materializer's receipt
  finished,      \* finished[p]: the record of the completed root
  root,          \* the published dataset and its reserved path
  fills,         \* fills[p]: how often content was begun there (history)
  jobs, tampers  \* jobs begun, acts of others

rootVars == <<jobAt, task, saw, noted, layer, repos, archive, packing, told, ancestors,
              staging, begun, materialized, finished, root, fills, jobs, tampers>>

job == <<jobAt, task, saw, noted, jobs>>
build == <<layer, repos>>
bundle == <<archive, packing, told>>
paper == <<begun, materialized, finished>>
rest == <<ancestors, tampers>>

Versions == {"old", "new"}
Builds == Versions \X Versions
Empty == <<"none", "none">>
Foreign == <<"foreign", "foreign">>
RootContents == Builds \cup {Empty, Foreign} \cup {<<v, "none">> : v \in Versions}

\* No file is none of the builds.
ASSUME RootAssumption == Missing \notin Builds /\ MaxTampers \in Nat

RootTypeOK ==
  /\ jobAt \in [Jobs -> {"idle", "parents", "child", "place", "reserve",
                      "materialize", "repos", "extract", "compare", "seal",
                      "sealed", "receipt", "publish", "create", "fill", "match",
                      "close", "check", "record", "pack", "append", "tally"}]
  /\ task \in [Jobs -> [kind : {"none", "provision", "finish", "receive", "export"},
                        place : Stagings]]
  /\ saw \in [Jobs -> RootContents \cup {Missing}]
  /\ noted \in [Jobs -> 0 .. MaxJobs + 2]
  /\ layer \in Versions /\ repos \in Versions
  /\ archive \in RootContents \cup {Missing} /\ packing \in BOOLEAN
  /\ told \in Builds \cup {Missing, Torn}
  /\ ancestors \in 0 .. 2
  /\ staging \in [Stagings -> [state : {"absent", "made", "gone"},
                               content : RootContents, sealed : BOOLEAN, placed : BOOLEAN]]
  /\ begun \in [Stagings -> SUBSET {"finish", "materialize"}]
  /\ materialized \in [Stagings -> Builds \cup {Missing, Torn}]
  /\ finished \in [Stagings -> [content : Builds, id : 1 .. MaxJobs] \cup {Missing, Torn}]
  /\ root \in [id : 0 .. MaxJobs, reserved : BOOLEAN, made : BOOLEAN,
               sealed : BOOLEAN, content : RootContents]
  /\ fills \in [Stagings -> 0 .. MaxJobs]
  /\ jobs \in 0 .. MaxJobs /\ tampers \in 0 .. MaxTampers

RootInit ==
  /\ jobAt = [j \in Jobs |-> "idle"]
  /\ task = [j \in Jobs |-> [kind |-> "none", place |-> CHOOSE p \in Stagings : TRUE]]
  /\ saw = [j \in Jobs |-> Missing] /\ noted = [j \in Jobs |-> 0]
  /\ layer = "old" /\ repos = "old"
  /\ archive = Missing /\ packing = FALSE /\ told = Missing
  /\ ancestors \in {0, 2}
  /\ staging = [p \in Stagings |->
                  [state |-> IF ancestors = 2 THEN "made" ELSE "absent",
                   content |-> Empty, sealed |-> FALSE, placed |-> ancestors = 2]]
  /\ begun = [p \in Stagings |-> {}]
  /\ materialized = [p \in Stagings |-> Missing]
  /\ finished = [p \in Stagings |-> Missing]
  /\ root = [id |-> 0, reserved |-> FALSE, made |-> FALSE, sealed |-> FALSE,
             content |-> Empty]
  /\ fills = [p \in Stagings |-> 0]
  /\ jobs = 0 /\ tampers = 0

Place(j) == task[j].place
Local(j) == task[j].kind = "finish"
Goto(j, to) == jobAt' = [jobAt EXCEPT ![j] = to]
JobMoves(j, from, to) == jobAt[j] = from /\ Goto(j, to) /\ UNCHANGED <<task, noted, jobs>>
See(j, what) == saw' = [saw EXCEPT ![j] = what]

\* filesystem(path, 'off') and filesystem(path, 'on').
Writable(p) == staging[p].state = "made" /\ ~staging[p].sealed
Sealed(p) == staging[p].state = "made" /\ staging[p].sealed

BeginJob(j, kind, p, to) ==
  /\ jobAt[j] = "idle" /\ jobs + tampers < MaxJobs /\ jobs' = jobs + 1
  /\ task' = [task EXCEPT ![j] = [kind |-> kind, place |-> p]]
  /\ saw' = [saw EXCEPT ![j] = Missing]
  /\ Goto(j, to)

-----------------------------------------------------------------------------
(* Placement: the release's parents may be shared, the staging never is.    *)

Unplaced(p) == staging[p].state = "absent" /\ ~staging[p].placed /\ ~root.reserved

Provision(j) ==
  /\ \E p \in Stagings : Unplaced(p) /\ BeginJob(j, "provision", p, "parents")
  /\ noted' = [noted EXCEPT ![j] = ancestors]
  /\ UNCHANGED <<build, bundle, rest, staging, paper, root, fills>>

\* mkdir fails if another job made the parent since.
MakeParent(j) ==
  /\ jobAt[j] = "parents" /\ noted[j] = ancestors
  /\ IF ancestors < 2
     THEN /\ ancestors' = ancestors + 1
          /\ noted' = [noted EXCEPT ![j] = ancestors + 1] /\ UNCHANGED jobAt
     ELSE Goto(j, "child") /\ UNCHANGED <<ancestors, noted>>
  /\ UNCHANGED <<task, saw, jobs, build, bundle, tampers, staging, paper, root, fills>>

MakeStaging(j) ==
  /\ JobMoves(j, "child", "place") /\ staging[Place(j)].state = "absent"
  /\ staging' = [staging EXCEPT ![Place(j)].state = "made"]
  /\ UNCHANGED <<saw, build, bundle, rest, paper, root, fills>>

\* What placement, completion and reception all require of a place.
Vacant(p) ==
  /\ Writable(p) /\ staging[p].content = Empty
  /\ ancestors = 2 /\ ~root.reserved
  /\ begun[p] = {} /\ materialized[p] = Missing /\ finished[p] = Missing

RecordPlacement(j) ==
  /\ JobMoves(j, "place", "idle") /\ Vacant(Place(j))
  /\ staging' = [staging EXCEPT ![Place(j)].placed = TRUE]
  /\ UNCHANGED <<saw, build, bundle, rest, paper, root, fills>>

-----------------------------------------------------------------------------
(* The archive, for a build whose host has no local release storage.        *)

Export(j) ==
  /\ ~packing /\ archive = Missing /\ told = Missing
  /\ \E p \in Stagings : BeginJob(j, "export", p, "pack")
  /\ UNCHANGED <<noted, build, bundle, rest, staging, paper, root, fills>>

\* The intent, the reserved file, the digests and the first half.
Pack(j) ==
  /\ JobMoves(j, "pack", "append") /\ ~packing /\ archive = Missing
  /\ packing' = TRUE /\ See(j, build) /\ archive' = <<layer, "none">>
  /\ UNCHANGED <<build, told, rest, staging, paper, root, fills>>

AppendRepositories(j) ==
  /\ JobMoves(j, "append", "tally")
  /\ archive' = IF archive = Foreign THEN Foreign ELSE <<archive[1], repos>>
  /\ UNCHANGED <<saw, build, packing, told, rest, staging, paper, root, fills>>

Tally(j) ==
  /\ JobMoves(j, "tally", "idle") /\ build = saw[j] /\ told = Missing
  /\ told' = saw[j]
  /\ UNCHANGED <<saw, build, archive, packing, rest, staging, paper, root, fills>>

-----------------------------------------------------------------------------
(* Completion, from the container or from the archive.                      *)

Bundled == told \in Builds /\ archive = told

AdmitRoot(j) ==
  /\ \E kind \in {"finish", "receive"}, p \in Stagings :
       /\ staging[p].placed /\ Vacant(p) /\ (kind = "receive" => Bundled)
       /\ BeginJob(j, kind, p, "reserve")
  /\ UNCHANGED <<noted, build, bundle, rest, staging, paper, root, fills>>

\* One attempt per dataset, ever: the intent is created exclusively.
ReserveRoot(j) ==
  /\ JobMoves(j, "reserve", IF Local(j) THEN "materialize" ELSE "extract")
  /\ "finish" \notin begun[Place(j)]
  /\ begun' = [begun EXCEPT ![Place(j)] = @ \cup {"finish"}]
  /\ UNCHANGED <<saw, build, bundle, rest, staging, materialized, finished, root, fills>>

Fill(p, content) ==
  /\ staging' = [staging EXCEPT ![p].content = content]
  /\ fills' = [fills EXCEPT ![p] = @ + 1]

\* Admission once more, the materializer's own intent, the digests, the layer.
CopyLayer(j) ==
  /\ JobMoves(j, "materialize", "repos")
  /\ Writable(Place(j)) /\ staging[Place(j)].content = Empty
  /\ "materialize" \notin begun[Place(j)]
  /\ begun' = [begun EXCEPT ![Place(j)] = @ \cup {"materialize"}]
  /\ See(j, build) /\ Fill(Place(j), <<layer, "none">>)
  /\ UNCHANGED <<build, bundle, rest, materialized, finished, root>>

CopyRepositories(j) ==
  /\ JobMoves(j, "repos", "compare") /\ Writable(Place(j))
  /\ staging' = [staging EXCEPT ![Place(j)].content =
                   IF @ = Foreign THEN Foreign ELSE <<@[1], repos>>]
  /\ UNCHANGED <<saw, build, bundle, rest, paper, root, fills>>

Extract(j) ==
  /\ JobMoves(j, "extract", "compare") /\ Writable(Place(j))
  /\ archive \in RootContents /\ See(j, told)
  /\ Fill(Place(j), IF staging[Place(j)].content = Empty THEN archive ELSE Foreign)
  /\ UNCHANGED <<build, bundle, rest, paper, root>>

Source(j) == IF Local(j) THEN build ELSE archive

CompareRoot(j) ==
  /\ JobMoves(j, "compare", "seal")
  /\ Writable(Place(j)) /\ staging[Place(j)].content = saw[j] /\ Source(j) = saw[j]
  /\ UNCHANGED <<saw, build, bundle, rest, staging, paper, root, fills>>

Seal(j) ==
  /\ JobMoves(j, "seal", "sealed") /\ staging[Place(j)].state = "made"
  /\ staging' = [staging EXCEPT ![Place(j)].sealed = TRUE]
  /\ UNCHANGED <<saw, build, bundle, rest, paper, root, fills>>

StagedWhole(j) == Sealed(Place(j)) /\ staging[Place(j)].content = saw[j]

CheckSeal(j) ==
  /\ JobMoves(j, "sealed", IF Local(j) THEN "receipt" ELSE "publish") /\ StagedWhole(j)
  /\ UNCHANGED <<saw, build, bundle, rest, staging, paper, root, fills>>

RecordMaterialized(j) ==
  /\ JobMoves(j, "receipt", "publish") /\ materialized[Place(j)] = Missing
  /\ materialized' = [materialized EXCEPT ![Place(j)] = saw[j]]
  /\ UNCHANGED <<saw, build, bundle, rest, staging, begun, finished, root, fills>>

-----------------------------------------------------------------------------
(* Publication.                                                             *)

\* mkdir reserves the path, for good.
PublishRoot(j) ==
  /\ JobMoves(j, "publish", "create") /\ StagedWhole(j)
  /\ Local(j) => materialized[Place(j)] = saw[j]
  /\ ancestors = 2 /\ ~root.reserved
  /\ root' = [root EXCEPT !.reserved = TRUE]
  /\ UNCHANGED <<saw, build, bundle, rest, staging, paper, fills>>

Create(j) ==
  /\ jobAt[j] = "create" /\ Goto(j, "fill") /\ UNCHANGED <<task, jobs>>
  /\ Sealed(Place(j)) /\ ~root.made
  /\ root' = [root EXCEPT !.made = TRUE, !.id = @ + 1]
  /\ noted' = [noted EXCEPT ![j] = root.id + 1]
  /\ UNCHANGED <<saw, build, bundle, rest, staging, paper, fills>>

\* The copy goes to the path, whichever dataset is mounted there.
FillRoot(j) ==
  /\ JobMoves(j, "fill", "match") /\ root.made /\ ~root.sealed
  /\ staging[Place(j)].state = "made"
  /\ root' = [root EXCEPT !.content = IF @ = Empty THEN staging[Place(j)].content
                                      ELSE Foreign]
  /\ UNCHANGED <<saw, build, bundle, rest, staging, paper, fills>>

Match(j) ==
  /\ JobMoves(j, "match", "close") /\ StagedWhole(j)
  /\ root.made /\ root.id = noted[j] /\ ~root.sealed
  /\ UNCHANGED <<saw, build, bundle, rest, staging, paper, root, fills>>

Close(j) ==
  /\ JobMoves(j, "close", "check") /\ root.made
  /\ root' = [root EXCEPT !.sealed = TRUE]
  /\ UNCHANGED <<saw, build, bundle, rest, staging, paper, fills>>

AcceptedUnread(j) == root.made /\ root.id = noted[j] /\ root.sealed

\* The same dataset, sealed, with the very content.
Accepted(j) ==
  /\ root.made /\ root.id = noted[j] /\ root.sealed /\ root.content = saw[j]

Check(j) ==
  /\ JobMoves(j, "check", "record") /\ Accepted(j) /\ Sealed(Place(j))
  /\ UNCHANGED <<saw, build, bundle, rest, staging, paper, root, fills>>

RecordRoot(j) ==
  /\ JobMoves(j, "record", "idle") /\ finished[Place(j)] = Missing
  /\ finished' = [finished EXCEPT ![Place(j)] = [content |-> saw[j], id |-> noted[j]]]
  /\ UNCHANGED <<saw, build, bundle, rest, staging, begun, materialized, root, fills>>

\* Refused, failed or killed: everything stays, a receipt perhaps cut short.
StopJob(j) ==
  /\ jobAt[j] # "idle" /\ Goto(j, "idle")
  /\ materialized' \in {materialized} \cup
       {[materialized EXCEPT ![p] = Torn] :
          p \in {p \in {Place(j)} : jobAt[j] = "receipt" /\ materialized[p] = Missing}}
  /\ finished' \in {finished} \cup
       {[finished EXCEPT ![p] = Torn] :
          p \in {p \in {Place(j)} : jobAt[j] = "record" /\ finished[p] = Missing}}
  /\ told' \in {told} \cup (IF jobAt[j] = "tally" /\ told = Missing THEN {Torn} ELSE {})
  /\ UNCHANGED <<task, saw, noted, jobs, build, archive, packing, rest, staging,
                 begun, root, fills>>

-----------------------------------------------------------------------------
(* The others.  A sealed dataset cannot be written to; it can be destroyed. *)

Touch(s, t) == IF s = "old" THEN t = "new" ELSE t = "old"

Tamper ==
  /\ tampers < MaxTampers /\ jobs + tampers < MaxJobs
  /\ tampers' = tampers + 1
  /\ \/ /\ \E t \in Versions : Touch(layer, t) /\ layer' = t
        /\ UNCHANGED <<repos, archive, staging, root>>
     \/ /\ \E t \in Versions : Touch(repos, t) /\ repos' = t
        /\ UNCHANGED <<layer, archive, staging, root>>
     \/ /\ archive \in RootContents /\ archive' = Foreign
        /\ UNCHANGED <<build, staging, root>>
     \/ /\ \E p \in Stagings :
             \/ Writable(p) /\ staging' = [staging EXCEPT ![p].content = Foreign]
             \/ /\ staging[p].state = "made"
                /\ staging' = [staging EXCEPT ![p].state = "gone", ![p].content = Empty,
                                              ![p].sealed = FALSE]
        /\ UNCHANGED <<build, archive, root>>
     \/ /\ root.made
        /\ \/ ~root.sealed /\ root' = [root EXCEPT !.content = Foreign]
           \/ root' = [root EXCEPT !.made = FALSE, !.reserved = FALSE,
                                   !.sealed = FALSE, !.content = Empty]
        /\ UNCHANGED <<build, archive, staging>>
  /\ UNCHANGED <<job, packing, told, ancestors, paper, fills>>

JobStep(j) ==
  \/ Provision(j) \/ MakeParent(j) \/ MakeStaging(j) \/ RecordPlacement(j)
  \/ Export(j) \/ Pack(j) \/ AppendRepositories(j) \/ Tally(j)
  \/ AdmitRoot(j) \/ ReserveRoot(j) \/ CopyLayer(j) \/ CopyRepositories(j) \/ Extract(j)
  \/ CompareRoot(j) \/ Seal(j) \/ CheckSeal(j) \/ RecordMaterialized(j)
  \/ PublishRoot(j) \/ Create(j) \/ FillRoot(j) \/ Match(j) \/ Close(j) \/ Check(j)
  \/ RecordRoot(j) \/ StopJob(j)

RootNext == (\E j \in Jobs : JobStep(j)) \/ Tamper

-----------------------------------------------------------------------------
(* A completed root is one whole build: for as long as the datasets its     *)
(* record names exist, the published root and the staging it came from are  *)
(* sealed and hold exactly the recorded layer and repositories, whatever    *)
(* was touched, destroyed and made anew, killed or run twice on the way     *)
(* (finish-stage3-root.py:69-99, transfer-stage3-root.py:103-139).          *)
CompletedIsWhole ==
  \A p \in Stagings :
    finished[p] \notin {Missing, Torn} =>
      LET r == finished[p] IN
      /\ root.made /\ root.id = r.id => root.sealed /\ root.content = r.content
      /\ staging[p].state = "made" => staging[p].sealed /\ staging[p].content = r.content

(* Into a staging dataset content is put at most once, whatever the job and *)
(* whatever became of an earlier one (materialize-stage3-root.py:113-123,   *)
(* finish-stage3-root.py:75-76).                                            *)
FilledOnce == \A p \in Stagings : fills[p] <= 1
=============================================================================
