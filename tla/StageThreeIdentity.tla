-------------------------- MODULE StageThreeIdentity --------------------------
(***************************************************************************)
(* The private identity of a host, captured into a generation that builds  *)
(* of its Stage 3 root install: src/files/build/check-stage3-paths.py.     *)
(* Nothing is locked: the source is renewed file by file while it is read, *)
(* two publishers may aim at one reference, a process dies anywhere, and a *)
(* person may write into the generation or remove an incomplete one.       *)
(*                                                                         *)
(* A file's stamp stands for its inode, size, owner, mode and times; every *)
(* write changes it.  Names, ownership, modes and the formats of the files *)
(* are abstracted; a key and its certificate fit when their contents are   *)
(* of one renewal.  An inventory is one step (the capture passes only if   *)
(* no file changed from its first listing to its second).                  *)
(***************************************************************************)
EXTENDS Naturals, FiniteSets

CONSTANTS
  Publishers,  \* runs with --publish-reference
  Builders,    \* builds that verify or --install the reference
  MaxActs      \* bound: runs of publishers and writes of others, together

ASSUME IdentityAssumption == IsFiniteSet(Publishers) /\ MaxActs \in Nat

VARIABLES
  identity,    \* the source: its files
  held,        \* what the source has held at an instant (history)
  generation,  \* the directory named by the reference
  marker,      \* .nest-identity.json
  stepAt,      \* stepAt[p]: where process p is
  aim,         \* aim[p]: what p captures
  stamps,      \* stamps[p]: its first inventory
  unread,      \* unread[p]: the files it has yet to read
  material,    \* material[p]: the bytes it read
  taken,       \* taken[p]: the bytes it installs
  seenMarker,  \* seenMarker[p]: the marker it read first
  inside,      \* inside[p]: the directory p has files open or staged in
  given,       \* what was returned under the reference (history)
  edits        \* writes of others

identityVars == <<identity, held, generation, marker, stepAt, aim, stamps,
                  unread, material, taken, seenMarker, inside, given, edits>>
origin == <<identity, held, edits>>
seen == <<stamps, unread, seenMarker>>
captured == <<aim, seen, material>>

Files == {"machine", "certificate", "key"}
Ssl == {"certificate", "key"}
Bytes == {"absent", "old", "new"}
Material == [Files -> Bytes]
Nothing == [f \in Files |-> "absent"]
Processes == Publishers \cup Builders
Trees == [Files -> [content : Bytes, stamp : Nat]]

IdentityTypeOK ==
  /\ identity \in Trees /\ held \subseteq Material
  /\ generation \in [id : Nat, made : BOOLEAN, prepared : BOOLEAN, files : Trees]
  /\ marker \in Material \cup [torn : BOOLEAN]
  /\ stepAt \in [Processes -> {"idle", "inventory", "read", "reserve", "prepare",
                               "stage", "clear", "rename", "machine", "readback",
                               "mark", "record", "over"}]
  /\ aim \in [Processes -> {"source", "copy", "reference"}]
  /\ stamps \in [Processes -> [Files -> Nat]]
  /\ unread \in [Processes -> SUBSET Files]
  /\ material \in [Processes -> Material] /\ taken \in [Processes -> Material]
  /\ seenMarker \in [Processes -> Material \cup [torn : BOOLEAN]]
  /\ inside \in [Processes -> Nat]
  /\ given \subseteq Material /\ edits \in 0 .. MaxActs

NoMarker == [torn |-> FALSE]
TornMarker == [torn |-> TRUE]
All(x) == [p \in Processes |-> x]
Bare(content) == [f \in Files |-> [content |-> content, stamp |-> 0]]
Contents(tree) == [f \in Files |-> tree[f].content]
Stamps(tree) == [f \in Files |-> tree[f].stamp]
Put(tree, files, bytes) ==
  [f \in Files |-> IF f \in files THEN [content |-> bytes[f], stamp |-> tree[f].stamp + 1]
                   ELSE tree[f]]
Drop(tree, files) ==
  [f \in Files |-> IF f \in files THEN [tree[f] EXCEPT !.content = "absent"] ELSE tree[f]]

IdentityInit ==
  /\ identity = Bare("old") /\ held = {Contents(identity)}
  /\ generation = [id |-> 0, made |-> FALSE, prepared |-> FALSE, files |-> Bare("absent")]
  /\ marker = NoMarker
  /\ stepAt = All("idle") /\ aim = All("source")
  /\ stamps = All([f \in Files |-> 0]) /\ unread = All({})
  /\ material = All(Nothing) /\ taken = All(Nothing)
  /\ seenMarker = All(NoMarker) /\ inside = All(0)
  /\ given = {} /\ edits = 0

Forget(p) ==
  /\ stamps' = [stamps EXCEPT ![p] = [f \in Files |-> 0]]
  /\ unread' = [unread EXCEPT ![p] = {}]
  /\ seenMarker' = [seenMarker EXCEPT ![p] = NoMarker]
Step(p, from, to) == stepAt[p] = from /\ stepAt' = [stepAt EXCEPT ![p] = to]
Capturing(p, what) == aim' = [aim EXCEPT ![p] = what]

\* A publisher runs once, a build again and again.
End(p) ==
  /\ stepAt' = [stepAt EXCEPT ![p] = IF p \in Builders THEN "idle" ELSE "over"]
  /\ Capturing(p, "source") /\ Forget(p)
  /\ material' = [material EXCEPT ![p] = Nothing]
  /\ taken' = [taken EXCEPT ![p] = Nothing]
  /\ inside' = [inside EXCEPT ![p] = 0]

-----------------------------------------------------------------------------
(* A capture: inventory, every file, inventory; then what was read is       *)
(* admitted, not what is there.                                             *)

Tree(p) == IF aim[p] = "source" THEN identity ELSE generation.files
Complete(tree) == \A f \in Files : tree[f].content # "absent"
Fitting(bytes) == bytes["key"] = bytes["certificate"]

Begun == Cardinality({p \in Publishers : stepAt[p] # "idle"})
Act(n) == edits + Begun + n <= MaxActs

PublishReference(p) ==
  /\ p \in Publishers /\ ~generation.made /\ Act(1)
  /\ Step(p, "idle", "inventory")
  /\ UNCHANGED <<origin, generation, marker, captured, taken, inside, given>>

UseReference(p) ==
  /\ p \in Builders /\ marker # NoMarker
  /\ Step(p, "idle", "inventory") /\ Capturing(p, "reference")
  /\ UNCHANGED <<origin, generation, marker, seen, material, taken, inside, given>>

Inventory(p) ==
  /\ Step(p, "inventory", "read") /\ Complete(Tree(p))
  /\ aim[p] = "reference" => marker # NoMarker
  /\ seenMarker' = [seenMarker EXCEPT ![p] = marker]
  /\ stamps' = [stamps EXCEPT ![p] = Stamps(Tree(p))]
  /\ unread' = [unread EXCEPT ![p] = Files]
  /\ UNCHANGED <<origin, generation, marker, aim, material, taken, inside, given>>

\* The walk: the machine, the certificates, the keys.
Before(f, g) == f = "machine" \/ g = "key" \/ f = g
ReadMaterial(p) ==
  /\ stepAt[p] = "read"
  /\ \E f \in unread[p] :
       /\ Tree(p)[f].content # "absent" /\ \A g \in unread[p] : Before(f, g)
       /\ unread' = [unread EXCEPT ![p] = @ \ {f}]
       /\ material' = [material EXCEPT ![p][f] = Tree(p)[f].content]
  /\ UNCHANGED <<origin, generation, marker, stepAt, aim, stamps, taken,
                 seenMarker, inside, given>>

UnmovedUnasked(p) == Complete(Tree(p))
Unmoved(p) == Complete(Tree(p)) /\ stamps[p] = Stamps(Tree(p))
Recorded(p) == marker = seenMarker[p] /\ marker = material[p]
Captured(p) ==
  /\ unread[p] = {} /\ Unmoved(p) /\ Fitting(material[p])
  /\ aim[p] = "reference" => Recorded(p)

CaptureSource(p) ==
  /\ aim[p] = "source" /\ Step(p, "read", "reserve") /\ Captured(p)
  /\ taken' = [taken EXCEPT ![p] = material[p]]
  /\ Forget(p)
  /\ UNCHANGED <<origin, generation, marker, aim, material, inside, given>>

CaptureCopy(p) ==
  /\ aim[p] = "copy" /\ Step(p, "read", "mark") /\ Captured(p)
  /\ material[p] = taken[p]
  /\ Forget(p)
  /\ UNCHANGED <<origin, generation, marker, aim, material, taken, inside, given>>

\* The publisher's own readback, a check before or during a build, or the
\* capture that a build installs into its container, which nobody else sees.
CaptureReference(p) ==
  /\ aim[p] = "reference" /\ stepAt[p] = "read" /\ Captured(p) /\ End(p)
  /\ given' = given \cup {material[p]}
  /\ UNCHANGED <<origin, generation, marker>>

-----------------------------------------------------------------------------
(* Publication: the directory is reserved once and never replaced.          *)

Reserve(p) ==
  /\ Step(p, "reserve", "prepare") /\ ~generation.made
  /\ generation' = [generation EXCEPT !.id = @ + 1, !.made = TRUE]
  /\ UNCHANGED <<origin, marker, captured, taken, inside, given>>

Prepare(p) ==
  /\ Step(p, "prepare", "stage") /\ generation.made /\ ~generation.prepared
  /\ generation' = [generation EXCEPT !.prepared = TRUE]
  /\ UNCHANGED <<origin, marker, captured, taken, inside, given>>

\* The marker is created exclusively, then written: a kill leaves it torn.
Mark(p) ==
  /\ Step(p, "mark", "record") /\ generation.made /\ marker = NoMarker
  /\ marker' = TornMarker /\ inside' = [inside EXCEPT ![p] = generation.id]
  /\ UNCHANGED <<origin, generation, captured, taken, given>>

RecordIdentity(p) ==
  /\ Step(p, "record", "inventory") /\ generation.made
  /\ marker' = IF inside[p] = generation.id THEN taken[p] ELSE marker
  /\ Capturing(p, "reference")
  /\ material' = [material EXCEPT ![p] = Nothing]
  /\ taken' = [taken EXCEPT ![p] = Nothing]
  /\ inside' = [inside EXCEPT ![p] = 0]
  /\ UNCHANGED <<origin, generation, seen, given>>

-----------------------------------------------------------------------------
(* Installation of what was captured, by way of a private directory beside. *)

Install(p, files) ==
  generation' = [generation EXCEPT !.files = Put(@, files, taken[p])]
Staged(p) == inside[p] = generation.id

Stage(p) ==
  /\ Step(p, "stage", "clear") /\ generation.prepared
  /\ inside' = [inside EXCEPT ![p] = generation.id]
  /\ UNCHANGED <<origin, generation, marker, captured, taken, given>>

ClearSsl(p) ==
  /\ Step(p, "clear", "rename") /\ generation.prepared
  /\ generation' = [generation EXCEPT !.files = Drop(@, Ssl)]
  /\ UNCHANGED <<origin, marker, captured, taken, inside, given>>

\* rename does not replace a directory that is not empty.
RenameSsl(p) ==
  /\ Step(p, "rename", "machine") /\ Staged(p)
  /\ \A f \in Ssl : generation.files[f].content = "absent"
  /\ Install(p, Ssl)
  /\ UNCHANGED <<origin, marker, captured, taken, inside, given>>

ReplaceMachine(p) ==
  /\ Step(p, "machine", "readback") /\ Staged(p)
  /\ Install(p, {"machine"})
  /\ UNCHANGED <<origin, marker, captured, taken, inside, given>>

ReadInstalled(p) ==
  /\ Step(p, "readback", "inventory") /\ Contents(generation.files) = taken[p]
  /\ Capturing(p, "copy") /\ inside' = [inside EXCEPT ![p] = 0]
  /\ UNCHANGED <<origin, generation, marker, seen, material, taken, given>>

\* Refused, failed or killed.
Abort(p) ==
  /\ stepAt[p] \notin {"idle", "over"} /\ End(p)
  /\ UNCHANGED <<origin, generation, marker, given>>

-----------------------------------------------------------------------------
(* The others.                                                              *)

Other(content) == IF content = "old" THEN "new" ELSE "old"
Edited(tree, files) == Put(tree, files, [f \in Files |-> Other(tree[f].content)])

\* File by file, or the directory of the pair at once.
Renew ==
  /\ Act(1) /\ edits' = edits + 1
  /\ \E f \in Files : identity' \in {Edited(identity, {f}), Edited(identity, Ssl)}
  /\ held' = held \cup {Contents(identity')}
  /\ UNCHANGED <<generation, marker, stepAt, captured, taken, inside, given>>

\* A person writes into the generation (two of the edits), or removes an
\* incomplete one.
Meddle ==
  /\ Act(2) /\ edits' = edits + 2
  /\ \E f \in Files :
       /\ generation.files[f].content # "absent"
       /\ generation' = [generation EXCEPT !.files = Edited(@, {f})]
  /\ UNCHANGED <<identity, held, marker, stepAt, captured, taken, inside, given>>

Discard ==
  /\ Act(1) /\ edits' = edits + 1
  /\ generation.made /\ marker \notin Material
  /\ generation' = [generation EXCEPT !.made = FALSE, !.prepared = FALSE,
                                      !.files = Drop(@, Files)]
  /\ marker' = NoMarker
  /\ UNCHANGED <<identity, held, stepAt, captured, taken, inside, given>>

IdentityStep(p) ==
  \/ PublishReference(p) \/ UseReference(p) \/ Inventory(p) \/ ReadMaterial(p)
  \/ CaptureSource(p) \/ CaptureCopy(p) \/ CaptureReference(p)
  \/ Reserve(p) \/ Prepare(p) \/ Mark(p) \/ RecordIdentity(p)
  \/ Stage(p) \/ ClearSsl(p) \/ RenameSsl(p) \/ ReplaceMachine(p) \/ ReadInstalled(p)
  \/ Abort(p)

IdentityNext == (\E p \in Processes : IdentityStep(p)) \/ Renew \/ Meddle \/ Discard

-----------------------------------------------------------------------------
(* A reference names one identity: whatever is returned or installed under  *)
(* it, to whomever and whenever, is the same, and is what the source held   *)
(* at one instant, with a key that fits its certificate                     *)
(* (check-stage3-paths.py:205-318).                                         *)
ReferenceIsOneIdentity ==
  given \subseteq {m \in held : Fitting(m)} /\ Cardinality(given) <= 1
=============================================================================
