----------------------------- MODULE ReleaseDigest -----------------------------
(***************************************************************************)
(* The daily digest of releases the pinned versions are behind:            *)
(* src/files/app/hermes/release_digest.py.  A run asks for every stack     *)
(* what is pinned and what is offered, tells of the drift unless it told   *)
(* of exactly this before, and replaces its state file.  Pins and upstream *)
(* change, requests fail, a run by hand overlaps the daily one (both write *)
(* one temporary file), and a run is killed anywhere.                      *)
(*                                                                         *)
(* What a run prints stays in its buffer until it ends.  A file is an      *)
(* inode.  Texts, priorities and the counts in the state are left out.     *)
(* External: upstream, the repository and the cron that delivers.          *)
(***************************************************************************)
EXTENDS Naturals, Sequences, FiniteSets

CONSTANTS
  Runners,      \* processes
  MaxRuns,      \* bound: runs begun
  MaxUpstream   \* bound: releases, changed pins and failed requests

ASSUME DigestAssumption == MaxRuns \in Nat /\ MaxUpstream \in Nat

VARIABLES
  pin,          \* pin[c]: the version in use
  offered,      \* offered[c]: the releases of c, [version, stable]
  runAt,        \* runAt[r]: where run r is
  options,      \* options[r]: --force and --dry-run
  watched,      \* watched[r]: how many stacks it has asked
  items,        \* items[r]: the drift it found
  errors,       \* errors[r]: the stacks it could not watch
  noted,        \* noted[r]: what the state it loaded says was reported
  buffer,       \* buffer[r]: what it prints, delivered when it ends
  disk,         \* disk[i]: what inode i holds
  stateFile, tmpFile,  \* the inodes the two names have; 0: none
  opened,       \* opened[r]: the inode r writes to
  delivered, lost,   \* digests delivered, and those a kill took along (history)
  silenced,     \* drift a run kept silent about (history)
  digests,      \* runs begun
  moves         \* releases, changed pins, failed requests

digestVars == <<pin, offered, runAt, options, watched, items, errors, noted, buffer, disk,
                stateFile, tmpFile, opened, delivered, lost, silenced, digests, moves>>
world == <<pin, offered>>
files == <<disk, stateFile, tmpFile, opened>>
found == <<watched, items, errors>>
memory == <<delivered, lost, silenced>>

\* The components of the stacks, in the order they are watched.
WATCHERS == <<{"agent"}, {"gitlab"}, {"vaultwarden"}, {"redis"}, {"calico", "ceph"}>>
Components == UNION {WATCHERS[s] : s \in DOMAIN WATCHERS}
Stacks == DOMAIN WATCHERS

Unknown == 0
Oldest == [version |-> 1, stable |-> TRUE]
Second == [version |-> 2, stable |-> TRUE]
Preview == [version |-> 2, stable |-> FALSE]
Releases == {Second, Preview, [version |-> 3, stable |-> TRUE]}
Line(v) == v < 3
Silent == [items |-> {}, errors |-> {}]
Cut == [items |-> {}, errors |-> {0}]
Digests == [items : SUBSET (Components \X (1 .. 2) \X (2 .. 3)), errors : SUBSET Stacks]
Inodes == 1 .. MaxRuns

DigestTypeOK ==
  /\ pin \in [Components -> 0 .. 2]
  /\ offered \in [Components -> SUBSET (Releases \cup {Oldest})]
  /\ \A r \in Runners :
       /\ runAt[r] \in {"idle", "watch", "load", "decide", "open", "write", "replace", "exit"}
       /\ watched[r] \in 0 .. Len(WATCHERS)
       /\ [items |-> items[r], errors |-> errors[r]] \in Digests
       /\ noted[r] \in Digests /\ buffer[r] \in Digests
  /\ options \in [Runners -> [force : BOOLEAN, dry : BOOLEAN]]
  /\ \A i \in Inodes : disk[i] = Cut \/ disk[i] \in Digests
  /\ stateFile \in {0} \cup Inodes /\ tmpFile \in {0} \cup Inodes
  /\ opened \in [Runners -> {0} \cup Inodes]
  /\ \A d \in delivered \cup lost \cup silenced : d \in Digests
  /\ digests \in 0 .. MaxRuns /\ moves \in 0 .. MaxUpstream

DigestInit ==
  /\ pin = [c \in Components |-> 1] 
  /\ offered = [c \in Components |->
                  CASE c = "ceph" -> {Oldest, Second} [] c = "calico" -> {Preview}
                    [] OTHER -> {Oldest}]
  /\ runAt = [r \in Runners |-> "idle"]
  /\ options = [r \in Runners |-> [force |-> FALSE, dry |-> FALSE]]
  /\ watched = [r \in Runners |-> 0] /\ items = [r \in Runners |-> {}] /\ errors = [r \in Runners |-> {}]
  /\ noted = [r \in Runners |-> Silent] /\ buffer = [r \in Runners |-> Silent]
  /\ disk = [i \in Inodes |-> Silent] /\ stateFile = 0 /\ tmpFile = 0
  /\ opened = [r \in Runners |-> 0]
  /\ delivered = {} /\ lost = {} /\ silenced = {} /\ digests = 0 /\ moves = 0

-----------------------------------------------------------------------------
(* What is the latest, of the releases that count; a watcher with none of   *)
(* these fails.                                                             *)

Stable(c) == {t \in offered[c] : t.stable}

\* The newest release; the feed leaves out what is not yet released.
AgentReleases == Stable("agent")
FeedVersions == Stable("gitlab")
\* The first row, prereleases excluded by helm.
HelmRows == Stable("vaultwarden")
\* Only tags of the major version in use.
RedisTags == {t \in Stable("redis") : Line(t.version) = Line(pin["redis"])}
\* Of an index the prereleases count if there is nothing else newer or older.
ChartRows == IF Stable("calico") # {} THEN Stable("calico") ELSE offered["calico"]
CephTags == Stable("ceph")

Counted == [agent |-> AgentReleases, gitlab |-> FeedVersions, vaultwarden |-> HelmRows,
            redis |-> RedisTags, calico |-> ChartRows, ceph |-> CephTags]
Latest(c) == CHOOSE v \in {t.version : t \in Counted[c]} :
               \A t \in Counted[c] : t.version <= v

\* A number does not compare with a word: then the watcher fails too.
Watchable(s) == \A c \in WATCHERS[s] : Counted[c] # {} /\ pin[c] # Unknown
Behind(s) == {<<c, pin[c], Latest(c)>> : c \in {c \in WATCHERS[s] : Latest(c) > pin[c]}}

To(r, to) == runAt' = [runAt EXCEPT ![r] = to]

Run(r) ==
  /\ runAt[r] = "idle" /\ digests < MaxRuns /\ digests' = digests + 1
  /\ To(r, "watch")
  /\ options' \in {[options EXCEPT ![r] = o] :
                     o \in {[force |-> FALSE, dry |-> FALSE], [force |-> TRUE, dry |-> TRUE]}}
  /\ UNCHANGED <<world, found, noted, buffer, files, memory, moves>>

\* One failure loses all a stack's components, and the others go on.
Watch(r) ==
  /\ runAt[r] = "watch" /\ To(r, IF watched[r] + 1 = Len(WATCHERS) THEN "load" ELSE "watch")
  /\ watched' = [watched EXCEPT ![r] = @ + 1]
  /\ \E s \in {watched[r] + 1} :
       \/ /\ Watchable(s)
          /\ items' = [items EXCEPT ![r] = @ \cup Behind(s)] /\ UNCHANGED <<errors, moves>>
       \/ /\ moves' = IF Watchable(s) THEN moves + 1 ELSE moves
          /\ moves' <= MaxUpstream
          /\ errors' = [errors EXCEPT ![r] = @ \cup {s}] /\ UNCHANGED items
  /\ UNCHANGED <<world, options, noted, buffer, files, memory, digests>>

Load(r) ==
  /\ runAt[r] = "load" /\ To(r, "decide")
  /\ noted' = [noted EXCEPT ![r] =
       IF stateFile = 0 \/ disk[stateFile] = Cut THEN Silent ELSE disk[stateFile]]
  /\ UNCHANGED <<world, options, found, buffer, files, memory, digests, moves>>

Signature(r) == [items |-> items[r], errors |-> errors[r]]
AlreadyReportedByName(r) == {i[1] : i \in noted[r].items} = {i[1] : i \in items[r]}
AlreadyReported(r) == noted[r] = Signature(r)
ToPrint(r) ==
  options[r].force \/ errors[r] # {} \/ (items[r] # {} /\ ~AlreadyReported(r))

Tell(r) ==
  /\ runAt[r] = "decide" /\ To(r, IF options[r].dry THEN "exit" ELSE "open")
  /\ noted' = [noted EXCEPT ![r] =
                     IF ToPrint(r) THEN Signature(r) ELSE @]
  /\ buffer' = [buffer EXCEPT ![r] = IF ToPrint(r) THEN Signature(r) ELSE Silent]
  /\ silenced' = IF items[r] # {} /\ ~ToPrint(r) THEN silenced \cup {Signature(r)}
                 ELSE silenced
  /\ UNCHANGED <<world, options, found, files, delivered, lost, digests, moves>>

-----------------------------------------------------------------------------
(* save_state: the temporary file has one name for all runs.                *)

Free == Inodes \ ({stateFile, tmpFile} \cup {opened[r] : r \in Runners})

OpenTmp(r) ==
  /\ runAt[r] = "open" /\ To(r, "write")
  /\ \E i \in Inodes :
       /\ IF tmpFile # 0 THEN i = tmpFile ELSE i \in Free /\ \A j \in Free : i <= j
       /\ tmpFile' = i /\ opened' = [opened EXCEPT ![r] = i]
       /\ disk' = [disk EXCEPT ![i] = Cut]
  /\ UNCHANGED <<world, options, found, noted, buffer, stateFile, memory, digests, moves>>

\* Over what another has written meanwhile, which may be longer.
WriteTmp(r) ==
  /\ runAt[r] = "write" /\ To(r, "replace")
  /\ \E text \in IF disk[opened[r]] = Cut THEN {noted[r]} ELSE {noted[r], Cut} :
       disk' = [disk EXCEPT ![opened[r]] = text]
  /\ opened' = [opened EXCEPT ![r] = 0]
  /\ UNCHANGED <<world, options, found, noted, buffer, stateFile, tmpFile, memory,
                 digests, moves>>

\* It fails if another run has moved the file; the digest is delivered still.
Replace(r) ==
  /\ runAt[r] = "replace" /\ To(r, "exit")
  /\ stateFile' = IF tmpFile = 0 THEN stateFile ELSE tmpFile
  /\ tmpFile' = 0
  /\ UNCHANGED <<world, options, found, noted, buffer, disk, opened, memory, digests,
                 moves>>

Over(r) ==
  /\ To(r, "idle")
  /\ options' = [options EXCEPT ![r] = [force |-> FALSE, dry |-> FALSE]]
  /\ watched' = [watched EXCEPT ![r] = 0]
  /\ items' = [items EXCEPT ![r] = {}] /\ errors' = [errors EXCEPT ![r] = {}]
  /\ noted' = [noted EXCEPT ![r] = Silent]
  /\ buffer' = [buffer EXCEPT ![r] = Silent]
  /\ opened' = [opened EXCEPT ![r] = 0]
  /\ UNCHANGED <<world, disk, stateFile, tmpFile, silenced, digests, moves>>

Exit(r) ==
  /\ runAt[r] = "exit" /\ Over(r)
  /\ delivered' = delivered \cup {buffer[r]} /\ UNCHANGED lost

Kill(r) ==
  /\ runAt[r] # "idle" /\ Over(r)
  /\ lost' = lost \cup {buffer[r]} /\ UNCHANGED delivered

-----------------------------------------------------------------------------
(* Upstream and the repository.                                             *)

Move ==
  /\ moves < MaxUpstream /\ moves' = moves + 1
  /\ \E c \in Components :
       \/ /\ \E t \in Releases \ offered[c] :
               offered' = [offered EXCEPT ![c] = @ \cup {t}]
          /\ UNCHANGED pin
       \/ /\ pin' \in {[pin EXCEPT ![c] = v] :
                 v \in {1, 2} \cup (IF c \in {"agent", "gitlab"} THEN {Unknown} ELSE {})}
          /\ UNCHANGED offered
  /\ UNCHANGED <<runAt, options, found, noted, buffer, files, memory, digests>>

DigestNext ==
  \/ \E r \in Runners :
       \/ Run(r) \/ Watch(r) \/ Load(r) \/ Tell(r) \/ OpenTmp(r) \/ WriteTmp(r)
       \/ Replace(r) \/ Exit(r) \/ Kill(r)
  \/ Move

DigestSpec == DigestInit /\ [][DigestNext]_digestVars

-----------------------------------------------------------------------------
(* No drift is passed over: a run that stays silent although versions are   *)
(* behind has the very digest behind it, delivered, or composed by a run    *)
(* that is not over or was killed; however runs overlap on the one          *)
(* temporary file (release_digest.py:472-501, 545-587).                     *)
SilenceWasTold ==
  silenced \subseteq delivered \cup lost \cup {buffer[r] : r \in Runners}
=============================================================================
