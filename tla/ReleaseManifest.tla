---------------------------- MODULE ReleaseManifest ----------------------------
(***************************************************************************)
(* The manifest of a release: what was expected of it, what its builds put *)
(* out, and the hosts that a wave of updates takes from it                 *)
(* (src/scripts/nest-release-manifest.py).  Expectations, record, policies *)
(* and wave come from different hands and may be any combination of lists  *)
(* with gaps and repetitions; the manifest is retained under the name of   *)
(* its digest by invocations that overlap and die.                         *)
(*                                                                         *)
(* A row is a member; its selection stands for stage, project, CPU,        *)
(* platform and variant, and the identity for the private generation it    *)
(* names.  Formats and limits are left out.                                *)
(***************************************************************************)
EXTENDS Naturals, Sequences, FiniteSets

CONSTANTS
  MemberIds,   \* member IDs
  Selections,  \* what is built that is no host's root
  Machines,    \* hosts
  Identities,  \* identity references
  Guids,       \* datasets
  Validators,  \* invocations with --output-dir
  NotAny       \* no host, no identity, no dataset

ASSUME ManifestAssumption == NotAny \notin Machines \cup Identities \cup Guids

VARIABLES
  expected,    \* the expectations; <<>>: not frozen yet
  record,      \* the outputs recorded
  validatorAt, \* validatorAt[v]
  manifestFile,    \* the file under the manifest's name
  meddled,     \* others have written there
  kept,        \* a validator reported the file as read back (history)
  binding      \* the dataset and identity every host of the wave gets, and the wave

manifestVars == <<expected, record, validatorAt, manifestFile, meddled, kept, binding>>

Rows ==
  [id : MemberIds, selection : Selections, host : {NotAny}, identity : {NotAny}]
    \cup [id : MemberIds, selection : {NotAny}, host : Machines, identity : Identities]
IsRoot(row) == row.host # NotAny
Outputs(rows) ==
  [member : rows, current : BOOLEAN, path : Machines \cup {NotAny}, guid : Guids \cup {NotAny}]
UpTo2(set) == {<<x>> : x \in set} \cup (set \X set)
In(list) == {list[i] : i \in DOMAIN list}
NoBinding == [hosts |-> {}, wave |-> <<>>]

ManifestTypeOK ==
  /\ expected \in {<<>>} \cup UpTo2(Rows)
  /\ \A o \in In(record) : o \in Outputs(Rows)
  /\ validatorAt \in [Validators -> {"idle", "link", "read", "over"}]
  /\ manifestFile \in {"absent", "whole", "other"} /\ meddled \in BOOLEAN /\ kept \in BOOLEAN
  /\ binding.hosts \subseteq [host : Machines, guid : Guids, identity : Identities]
  /\ In(binding.wave) \subseteq Machines

ManifestInit ==
  /\ expected = <<>> /\ record = <<>>
  /\ validatorAt = [v \in Validators |-> "idle"]
  /\ manifestFile = "absent" /\ meddled = FALSE /\ kept = FALSE /\ binding = NoBinding

-----------------------------------------------------------------------------
(* What is admitted.                                                        *)

DistinctAmong(list, Those(_), f(_)) ==
  \A i, j \in DOMAIN list :
    Those(list[i]) /\ Those(list[j]) /\ f(list[i]) = f(list[j]) => i = j
Distinct(list, f(_)) == DistinctAmong(list, LAMBDA x : TRUE, f)
Name(row) == row.id
Member(output) == output.member.id

Expectations(rows, consumers) ==
  /\ Distinct(rows, Name)
  /\ Distinct(rows, LAMBDA row : <<row.selection, row.host>>)
  /\ DistinctAmong(rows, IsRoot, LAMBDA row : row.identity)
  \* A consumer rebuilds exactly when it has members: all there are of it.
  /\ consumers["roots"] = (\E row \in In(rows) : IsRoot(row))
  /\ consumers["images"] = (\E row \in In(rows) : ~IsRoot(row))

Artifact(output) ==
  IF IsRoot(output.member) THEN output.path = output.member.host /\ output.guid # NotAny
  ELSE output.path = NotAny /\ output.guid = NotAny

OnceUnasked(outputs) == TRUE
Once(outputs) == Distinct(outputs, Member)

Validate(rows, outputs) ==
  /\ Len(outputs) = Len(rows) /\ Once(outputs)
  /\ \A o \in In(outputs) : o.member \in In(rows) /\ o.current /\ Artifact(o)
  /\ DistinctAmong(outputs, LAMBDA o : IsRoot(o.member), LAMBDA o : o.guid)

\* Who freezes the expectations; the record comes with its validation.
Freeze ==
  /\ expected = <<>>
  /\ \E rows \in UpTo2(Rows), consumers \in [{"roots", "images"} -> BOOLEAN] :
       Expectations(rows, consumers) /\ expected' = rows
  /\ UNCHANGED <<record, validatorAt, manifestFile, meddled, kept, binding>>

Main(v) ==
  /\ validatorAt[v] = "idle" /\ expected # <<>>
  /\ \E outputs \in IF record # <<>> THEN {record} ELSE UpTo2(Outputs(In(expected))) :
       Validate(expected, outputs) /\ record' = outputs
  /\ validatorAt' = [validatorAt EXCEPT ![v] = "link"]
  /\ UNCHANGED <<expected, manifestFile, meddled, kept, binding>>

-----------------------------------------------------------------------------
(* Retention: a private file, whole, is linked unless the name is taken.    *)

Retain(v) ==
  /\ validatorAt[v] = "link"
  /\ manifestFile' = IF manifestFile = "absent" THEN "whole" ELSE manifestFile
  /\ validatorAt' = [validatorAt EXCEPT ![v] = "read"]
  /\ UNCHANGED <<expected, record, meddled, kept, binding>>

ReadRetained(v) ==
  /\ validatorAt[v] = "read" /\ manifestFile = "whole" /\ kept' = TRUE
  /\ validatorAt' = [validatorAt EXCEPT ![v] = "over"]
  /\ UNCHANGED <<expected, record, manifestFile, meddled, binding>>

Fail(v) ==
  /\ validatorAt[v] \in {"link", "read"}
  /\ validatorAt' = [validatorAt EXCEPT ![v] = "over"]
  /\ UNCHANGED <<expected, record, manifestFile, meddled, kept, binding>>

WriteOver ==
  /\ ~meddled /\ meddled' = TRUE /\ manifestFile' \in {"absent", "other"}
  /\ UNCHANGED <<expected, record, validatorAt, kept, binding>>

-----------------------------------------------------------------------------
(* Binding: the policies of some hosts, and the wave they are updated in.   *)

OutputOf(host) == CHOOSE o \in In(record) : o.member.host = host
Policies == UNION {[hosts -> [current : BOOLEAN, source : Machines]] :
                     hosts \in (SUBSET Machines) \ {{}}}

GenerationBinding ==
  /\ kept /\ manifestFile = "whole" /\ binding = NoBinding
  /\ \E policies \in Policies, wave \in UpTo2(Machines) :
       LET hosts == DOMAIN policies IN
       /\ \A h \in hosts :
            /\ h \in {o.member.host : o \in In(record)}
            /\ policies[h].current /\ policies[h].source = OutputOf(h).path
       /\ Len(wave) = Cardinality(hosts) /\ In(wave) = hosts
       /\ binding' =
            [hosts |-> {[host |-> h, guid |-> OutputOf(h).guid,
                         identity |-> OutputOf(h).member.identity] : h \in hosts},
             wave |-> wave]
  /\ UNCHANGED <<expected, record, validatorAt, manifestFile, meddled, kept>>

ManifestNext ==
  \/ Freeze \/ WriteOver \/ GenerationBinding
  \/ \E v \in Validators : Main(v) \/ Retain(v) \/ ReadRetained(v) \/ Fail(v)

-----------------------------------------------------------------------------
(* A manifest is its release: what is recorded are the expected members,    *)
(* each once; every host of a wave comes once in it and gets a dataset and  *)
(* an identity no other host gets; and a manifest reported as retained is   *)
(* there unless others wrote to its name                                    *)
(* (nest-release-manifest.py:102-325).                                      *)
ManifestIsTheRelease ==
  /\ record # <<>> => {o.member : o \in In(record)} = In(expected)
  /\ \A a, b \in binding.hosts : a.guid = b.guid \/ a.identity = b.identity => a = b
  /\ \A i, j \in DOMAIN binding.wave : binding.wave[i] = binding.wave[j] => i = j
  /\ In(binding.wave) = {b.host : b \in binding.hosts}
  /\ kept /\ ~meddled => manifestFile = "whole"
=============================================================================
