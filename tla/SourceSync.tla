----------------------------- MODULE SourceSync -----------------------------
(***************************************************************************)
(* The convergence of the agents' source checkout to a ref, under files    *)
(* that Puppet lays over it:                                               *)
(* src/files/app/hermes/hermes-source-sync.py.  Runs overlap, wait for one *)
(* lock and die between and inside the git commands; the remote branch     *)
(* moves, and a person repairs what a killed git left behind.  A journal    *)
(* written before the first change lets the next run undo the transition.  *)
(*                                                                         *)
(* All overlays together are one content, all other tracked files another; *)
(* a tag is a pinned commit, and HEAD is detached or on the ref's branch.  *)
(* External: git, the remote, Puppet and the person who inspects.          *)
(***************************************************************************)
EXTENDS Naturals

CONSTANTS
  Syncs,        \* runs of the script that may overlap
  MaxRuns,      \* bound: runs that are begun
  MaxCommit,    \* bound: commits 1 .. MaxCommit, each the parent of the next
  MaxWrites,    \* bound: overlay contents Puppet writes
  Idle          \* no journal, no run with the lock

VARIABLES
  sync,       \* sync[s]: where run s is
  pinned,     \* pinned[s]: it was given a commit
  running,    \* the run that holds the lock, or Idle
  plan,       \* the transition that run has in memory
  journal,    \* the transition on disk, or Idle
  attached,   \* HEAD names the branch
  detached,   \* the commit HEAD names when it does not
  branch,     \* the local branch; 0: none
  tree,       \* the commit the other tracked files are of; 0: not one commit
  overlay,    \* the content of the overlays, or Base, or Mixed
  gitBusy,    \* a killed git left its index.lock
  owned,      \* the content Puppet wrote last
  remote,     \* the remote branch
  runs        \* runs begun

sourceVars == <<sync, pinned, running, plan, journal, attached, detached, branch,
                tree, overlay, gitBusy, owned, remote, runs>>

refs == <<attached, detached, branch>>
files == <<tree, overlay, gitBusy>>
others == <<pinned, owned, remote, runs>>

Commits == 1 .. MaxCommit
Base == MaxWrites + 1      \* git's own files lie where the overlays were
Mixed == MaxWrites + 2     \* some overlays are gone or cut short
Plans == [head : Commits, target : Commits, symbolic : BOOLEAN,
          branch : 0 .. MaxCommit, files : 0 .. Mixed,
          attach : BOOLEAN, undo : {"no", "here", "earlier"}]

SourceTypeOK ==
  /\ sync \in [Syncs -> {"begin", "held", "check", "journal", "uncover",
                         "checkout", "restore", "branch", "attach", "finish",
                         "done", "failed"}]
  /\ pinned \in [Syncs -> BOOLEAN]
  /\ running \in Syncs \cup {Idle}
  /\ plan \in Plans \cup {Idle} /\ journal \in Plans \cup {Idle}
  /\ attached \in BOOLEAN /\ detached \in Commits /\ branch \in 0 .. MaxCommit
  /\ tree \in 0 .. MaxCommit
  /\ overlay \in 0 .. Mixed
  /\ gitBusy \in BOOLEAN
  /\ owned \in 0 .. MaxWrites /\ remote \in Commits /\ runs \in 0 .. MaxRuns

\* A checkout of an older release, detached or on the branch.
SourceInit ==
  /\ sync = [s \in Syncs |-> "done"] /\ pinned = [s \in Syncs |-> FALSE]
  /\ running = Idle /\ plan = Idle /\ journal = Idle
  /\ attached \in BOOLEAN /\ detached = 1
  /\ branch \in IF attached THEN {1} ELSE {0, 1}
  /\ tree = 1 /\ overlay = 0 /\ gitBusy = FALSE
  /\ owned = 0 /\ remote \in Commits /\ runs = 0

Head == IF attached THEN branch ELSE detached

To(s, to) == sync' = [sync EXCEPT ![s] = to]
Release(s, to) == To(s, to) /\ running' = Idle /\ plan' = Idle

Begin(s) ==
  /\ sync[s] \in {"done", "failed"} /\ runs < MaxRuns
  /\ To(s, "begin") /\ runs' = runs + 1
  /\ \E p \in BOOLEAN : pinned' = [pinned EXCEPT ![s] = p]
  /\ UNCHANGED <<running, plan, journal, refs, files, owned, remote>>

\* flock waits.
Acquire(s) ==
  /\ sync[s] = "begin" /\ running = Idle
  /\ To(s, "held") /\ running' = s
  /\ UNCHANGED <<plan, journal, refs, files, others>>

\* Another operation's state is never touched; a journal is undone first, if
\* HEAD is where the transition can have left it.
Inspect(s) ==
  /\ sync[s] = "held"
  /\ IF gitBusy
     THEN Release(s, "failed")
     ELSE IF journal = Idle
     THEN To(s, "check") /\ UNCHANGED <<running, plan>>
     ELSE IF Head \in {journal.head, journal.target}
     THEN /\ To(s, "uncover") /\ plan' = [journal EXCEPT !.undo = "earlier"]
          /\ UNCHANGED running
     ELSE Release(s, "failed")
  /\ UNCHANGED <<journal, refs, files, others>>

\* The branch wins over a tag of the same name, and a commit has to be an
\* ancestor of it.
Targets(s) == IF pinned[s] THEN 1 .. remote ELSE {remote}

Resolve(s) ==
  /\ sync[s] = "check"
  /\ \/ tree = Head
        /\ \E target \in Targets(s) :
             IF Head = target /\ attached = ~pinned[s]
             THEN Release(s, "done")
             ELSE /\ pinned[s] \/ Head <= target
                  /\ To(s, "journal") /\ UNCHANGED running
                  /\ plan' = [head |-> Head, target |-> target,
                              symbolic |-> attached, branch |-> branch,
                              files |-> overlay, attach |-> ~pinned[s],
                              undo |-> "no"]
     \/ Release(s, "failed")      \* unmanaged edits, a rewind, no remote
  /\ UNCHANGED <<journal, refs, files, others>>

SaveJournal(s) ==
  /\ sync[s] = "journal"
  /\ \/ journal' = plan /\ To(s, "uncover") /\ UNCHANGED <<running, plan>>
     \/ Release(s, "failed") /\ UNCHANGED journal
  /\ UNCHANGED <<refs, files, others>>

\* A step that fails: the transition is rolled back from memory, and a
\* rollback that fails, or finds HEAD elsewhere, leaves the journal.
Fails(s) ==
  IF plan.undo = "no" /\ Head \in {plan.head, plan.target}
  THEN To(s, "uncover") /\ plan' = [plan EXCEPT !.undo = "here"] /\ UNCHANGED running
  ELSE Release(s, "failed")

Uncover(s) ==
  /\ sync[s] = "uncover"
  /\ \/ overlay' = Base /\ To(s, "checkout") /\ UNCHANGED <<running, plan>>
     \/ overlay' \in {overlay, Mixed} /\ Fails(s)
  /\ UNCHANGED <<journal, refs, tree, gitBusy, others>>

Undoing == plan.undo # "no"
Goal == IF Undoing THEN plan.head ELSE plan.target

\* git keeps local changes when it can and refuses when it cannot.
Checkout(s) ==
  /\ sync[s] = "checkout"
  /\ \/ /\ attached' = FALSE /\ detached' = Goal
        /\ tree' = IF tree = Head THEN Goal ELSE 0
        /\ To(s, IF Undoing THEN "branch" ELSE "restore")
        /\ UNCHANGED <<running, plan>>
     \/ tree' \in {tree, 0} /\ Fails(s) /\ UNCHANGED <<attached, detached>>
  /\ UNCHANGED <<journal, branch, overlay, gitBusy, others>>

Restore(s) ==
  /\ sync[s] = "restore"
  /\ \/ /\ overlay' = plan.files
        /\ To(s, IF plan.attach /\ ~Undoing THEN "branch" ELSE "finish")
        /\ UNCHANGED <<running, plan>>
     \/ overlay' \in {overlay, Mixed} /\ Fails(s)
  /\ UNCHANGED <<journal, refs, tree, gitBusy, others>>

UpdateRefOnward(s) ==
  /\ sync[s] = "branch"
  /\ \/ /\ branch' = IF Undoing THEN branch ELSE plan.target
        /\ To(s, IF Undoing /\ ~plan.symbolic THEN "restore" ELSE "attach")
        /\ UNCHANGED <<running, plan>>
     \/ Fails(s) /\ UNCHANGED branch
  /\ UNCHANGED <<journal, attached, detached, files, others>>

UpdateRef(s) ==
  /\ sync[s] = "branch"
  /\ \/ /\ branch' = IF Undoing THEN plan.branch ELSE plan.target
        /\ To(s, IF Undoing /\ ~plan.symbolic THEN "restore" ELSE "attach")
        /\ UNCHANGED <<running, plan>>
     \/ Fails(s) /\ UNCHANGED branch
  /\ UNCHANGED <<journal, attached, detached, files, others>>

SymbolicRef(s) ==
  /\ sync[s] = "attach"
  /\ \/ attached' = TRUE /\ UNCHANGED <<running, plan>>
        /\ To(s, IF Undoing THEN "restore" ELSE "finish")
     \/ Fails(s) /\ UNCHANGED attached
  /\ UNCHANGED <<journal, detached, branch, files, others>>

\* The rollback of an earlier run's transition is followed by this run's own;
\* that of its own ends it with the error.
Finish(s) ==
  /\ sync[s] = "finish"
  /\ journal' = Idle
  /\ IF plan.undo = "earlier"
     THEN To(s, "check") /\ plan' = Idle /\ UNCHANGED running
     ELSE Release(s, IF plan.undo = "here" THEN "failed" ELSE "done")
  /\ UNCHANGED <<refs, files, others>>

\* Killed: the kernel gives the lock back.  A killed git command may leave its
\* lock and half of its work.
Die(s) ==
  /\ sync[s] \notin {"begin", "done", "failed"}
  /\ Release(s, "failed")
  /\ \/ UNCHANGED files
     \/ /\ sync[s] = "checkout" /\ gitBusy' \in BOOLEAN
        /\ tree' \in {tree, 0} /\ UNCHANGED overlay
     \/ /\ sync[s] \in {"uncover", "restore"} /\ overlay' = Mixed
        /\ gitBusy' \in {FALSE, sync[s] = "uncover"} /\ UNCHANGED tree
  /\ UNCHANGED <<journal, refs, others>>

-----------------------------------------------------------------------------
(* The others.  Puppet writes its files after a run that succeeded.        *)

\* A person clears the lock and may put the tracked files right.
Repair ==
  /\ running = Idle /\ (gitBusy \/ tree # Head)
  /\ gitBusy' = FALSE /\ tree' \in {tree, Head}
  /\ UNCHANGED <<sync, running, plan, journal, refs, overlay, others>>

Puppet ==
  /\ running = Idle /\ journal = Idle /\ owned < MaxWrites
  /\ owned' = owned + 1 /\ overlay' = owned + 1
  /\ UNCHANGED <<sync, pinned, running, plan, journal, refs, tree, gitBusy,
                 remote, runs>>

Push ==
  /\ remote < MaxCommit /\ remote' = remote + 1
  /\ UNCHANGED <<sync, pinned, running, plan, journal, refs, files, owned, runs>>

SyncStep(s) ==
  \/ Begin(s) \/ Acquire(s) \/ Inspect(s) \/ Resolve(s) \/ SaveJournal(s)
  \/ Uncover(s) \/ Checkout(s) \/ Restore(s) \/ UpdateRef(s) \/ SymbolicRef(s)
  \/ Finish(s) \/ Die(s)

SourceNext == (\E s \in Syncs : SyncStep(s)) \/ Repair \/ Puppet \/ Push

-----------------------------------------------------------------------------
(* Without a journal Puppet's files lie over the checkout exactly as Puppet  *)
(* left them, and with one the journal has them.                             *)
OverlaysSurvive ==
  IF journal = Idle THEN overlay = owned ELSE journal.files = owned

(* HEAD, its branch and the overlays are as before a transition, or as it    *)
(* wanted them.                                                              *)
Whole(p) ==
  /\ overlay' = p.files
  /\ \/ Head' = p.head /\ attached' = p.symbolic /\ branch' = p.branch
     \/ /\ Head' = p.target /\ attached' = p.attach
        /\ branch' = IF p.attach THEN p.target ELSE p.branch

(* Puppet's files are never lost, and the journal goes only when the         *)
(* transition is whole or wholly undone, whatever was killed, failed or was  *)
(* rolled back, and however often (hermes-source-sync.py:101-114, 157-176).  *)
SyncIsWhole ==
  [][/\ OverlaysSurvive'
     /\ journal # Idle /\ journal' = Idle => Whole(journal)]_sourceVars
=============================================================================
