------------------------------- MODULE MCHermes -------------------------------
(* What the Hermes agents keep and do, for TLC: the backup generations of    *)
(* their home, the order ledger, the mail they send, the Pattern Kit         *)
(* workbench they act in and the checkout of their source.  The five share   *)
(* no state: a behaviour is one of them, chosen at the start, while the      *)
(* others rest.                                                              *)
EXTENDS HermesBackups, TLC

CONSTANTS hour1, hour2, hour3, hour4, one, two, left, right, key1, key2,
          content1, content2,
          Callers, Statuses, Etas, MaxCalls, Absent,
          Senders, Keys, Contents, MaxSends, Nothing,
          Tabs, Agents, MaxRevision, MaxInputs, Free,
          Syncs, MaxRuns, MaxCommit, MaxWrites, Idle

VARIABLES
  part,
  order, at, args, found, event, announced, calls,
  sends, request, phase, answer, inFlight, mailbox, suppressed, made,
  url, active, bound, revision, author, lease, serial, step, expected, underway,
  reply, confirmed, inputs,
  sync, pinned, running, plan, journal, attached, detached, branch, tree, overlay,
  gitBusy, owned, remote, runs

ordering == <<order, at, args, found, event, announced, calls>>
mailing == <<sends, request, phase, answer, inFlight, mailbox, suppressed, made>>
working == <<url, active, bound, revision, author, lease, serial, step, expected,
             underway, reply, confirmed, inputs>>
syncing == <<sync, pinned, running, plan, journal, attached, detached, branch, tree,
             overlay, gitBusy, owned, remote, runs>>

Orders == INSTANCE OrderLedger
Mail == INSTANCE GmailSend
Bench == INSTANCE Workbench WITH lock <- serial, answer <- reply
Sources == INSTANCE SourceSync

\* What stands for nothing is none of the things it stands beside.
ASSUME SuiteAssumption ==
  /\ Nothing \notin Mail!SendRows \cup Mail!Requests
  /\ Absent \notin Orders!Rows \cup Orders!Events
  /\ "confirmed" \in Statuses
  /\ {MaxSends, MaxCalls, MaxRevision, MaxInputs} \subseteq Nat
  /\ Free \notin Nat
  /\ {MaxCommit, MaxWrites, MaxRuns} \subseteq Nat /\ MaxCommit > 0
  /\ Idle \notin Syncs \cup Sources!Plans

\* One set of processes serves all five parts, and one set of holds and tabs.
Symmetry == Permutations(Processes) \cup Permutations(HoldIds)

SuiteInit ==
  /\ part \in {"backups", "orders", "mail", "workbench", "sources"}
  /\ Init /\ Orders!LedgerInit /\ Mail!MailInit /\ Bench!BenchInit
  /\ Sources!SourceInit
  /\ part # "sources" => attached /\ remote = 1

SuiteNext ==
  \/ /\ part = "backups" /\ Next
     /\ UNCHANGED <<part, ordering, mailing, working, syncing>>
  \/ /\ part = "orders" /\ Orders!LedgerNext
     /\ UNCHANGED <<part, vars, mailing, working, syncing>>
  \/ /\ part = "mail" /\ Mail!MailNext
     /\ UNCHANGED <<part, vars, ordering, working, syncing>>
  \/ /\ part = "workbench" /\ Bench!BenchNext
     /\ UNCHANGED <<part, vars, ordering, mailing, syncing>>
  \/ /\ part = "sources" /\ Sources!SourceNext
     /\ UNCHANGED <<part, vars, ordering, mailing, working>>

SuiteSpec ==
  SuiteInit /\ [][SuiteNext]_<<part, vars, ordering, mailing, working, syncing>>

-------------------------------------------------------------------------------
(* Every tool keeps its types; those that rest never change.                 *)
ToolTypesOK ==
  /\ part = "orders" => Orders!LedgerTypeOK
  /\ part = "mail" => Mail!MailTypeOK
  /\ part = "workbench" => Bench!BenchTypeOK
  /\ part = "sources" => Sources!SourceTypeOK

(* Archived, closed and delivered orders carry the time they became so, and  *)
(* a suppressed notification is one a person was told of                     *)
(* (secure_browser_legacy_support.py:1910-1961, 2246-2283).                  *)
LedgerIsTrue == Orders!ClosingIsRecorded /\ Orders!SuppressedWasAnnounced

(* Gmail accepts at most one message per idempotency key                     *)
(* (google_workspace_tool.py:643-687).                                       *)
OneMessagePerKey == Mail!OneMessagePerKey

(* An operation reported as done is the author of the revision it is         *)
(* reported with (workbench_bridge.py:862-922).                              *)
ConfirmedIsApplied == Bench!ConfirmedIsApplied

(* Puppet's files are never lost from the checkout, and the journal goes     *)
(* only when the transition is whole or wholly undone, whatever git was      *)
(* killed in (hermes-source-sync.py:101-114, 157-176).                       *)
SyncIsWhole == Sources!SyncIsWhole
==============================================================================
