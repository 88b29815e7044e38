------------------------------- MODULE UiBridge -------------------------------
(***************************************************************************)
(* The accessibility bridge of src/files/firefox-browser/firefox-ui-bridge *)
(* .py: workflows are bound to tabs of the one Firefox window its owner    *)
(* also uses, and driven by X11 input.                                     *)
(*                                                                         *)
(* A command holds the state lock from its first read to its last save,    *)
(* but Firefox handles a shortcut later than it is sent, or never; the     *)
(* owner opens, closes and selects tabs and restarts Firefox at any time;  *)
(* leases lapse; and the command may fail or be killed between any two     *)
(* steps.  A tab is its AT-SPI object identity; what a page shows, where a *)
(* control is drawn and how typed text is read back only decide whether a  *)
(* command refuses, or confirms its input.  Until its first save a command *)
(* changes nothing but the selected tab, so that it starts in one step.    *)
(***************************************************************************)
EXTENDS Integers, Sequences, FiniteSets

CONSTANTS
  Workflows,  \* workflow identities
  ActionKeys, \* action keys
  Unset,      \* no workflow, key, tab, binding or journal entry
  HardCap,    \* DEFAULT_HARD_TAB_CAP
  MaxTabs     \* bound on tabs ever opened

VARIABLES
  firefox,    \* the process: its first tab, open tabs, blank ones, the selected one
  born,       \* tabs ever opened, in any process
  shortcuts,  \* X11 shortcuts sent and not handled: "t" and "w"
  file,       \* state.json
  working,    \* the state a command holds
  cmd,        \* the command under way
  lapsed,     \* workflows whose lease has run out
  opened,     \* opened[w]: ctrl+t sent for w, less the closures of its tab
              \* that were observed (bridgeHistory, as all below)
  inputsSent  \* inputsSent[k]: those sent under key k since its entry was last pruned

browser == <<firefox, born, shortcuts>>
bridgeHistory == <<opened, inputsSent>>
bridgeVars == <<browser, file, working, cmd, lapsed, bridgeHistory>>

Tabs == 1 .. MaxTabs

Bindings ==
  [tab : Tabs \cup {Unset},       \* tab_identity; absent before it is observed
   created : BOOLEAN, uncertain : BOOLEAN,
   expired : BOOLEAN,             \* uncertainty_reason is lease_expired
   closing : BOOLEAN]             \* closure_state is closure_started
Entries ==
  [workflow : Workflows, state : {"started", "uncertain", "delivered"}]

ASSUME UiBridgeAssumption ==
  /\ Unset \notin Workflows \cup ActionKeys \cup Tabs \cup Bindings \cup Entries
  /\ HardCap \in Nat /\ MaxTabs \in Nat \ {0}

BridgeTypeOK ==
  /\ firefox \in [first : Tabs, open : SUBSET Tabs, blank : SUBSET Tabs, selected : Tabs]
  /\ firefox.blank \cup {firefox.selected} \subseteq firefox.open
  /\ firefox.open \subseteq firefox.first .. born /\ born \in Tabs
  /\ shortcuts \in Seq({"t", "w"})
  /\ \A s \in {file, working} :
       /\ s.bind \in [Workflows -> Bindings \cup {Unset}]
       /\ s.abandoned \in [Workflows -> SUBSET (Tabs \cup {Unset})]
       /\ s.keys \in [ActionKeys -> Entries \cup {Unset}]
  /\ cmd.at \in {"idle", "reserved", "sent"}
  /\ cmd.at = "idle" => working = file
  /\ lapsed \subseteq Workflows
  /\ opened \in [Workflows -> Nat] /\ inputsSent \in [ActionKeys -> Nat]
-----------------------------------------------------------------------------
NoCommand == [op |-> Unset, workflow |-> Unset, key |-> Unset, at |-> "idle", seen |-> Unset]

BridgeInit ==
  /\ firefox = [first |-> 1, open |-> {1}, blank |-> {1}, selected |-> 1]
  /\ born = 1
  /\ shortcuts = <<>>
  /\ file = [bind |-> [w \in Workflows |-> Unset], abandoned |-> [w \in Workflows |-> {}],
             keys |-> [k \in ActionKeys |-> Unset]]
  /\ working = file
  /\ cmd = NoCommand
  /\ lapsed = {}
  /\ opened = [w \in Workflows |-> 0]
  /\ inputsSent = [k \in ActionKeys |-> 0]

\* The tab a binding names, if Firefox still shows it: an object identity is
\* the tab's own, in its process.
Matches(b) == {b.tab} \cap firefox.open

\* The tabs that the running process has and may yet open.
Running == firefox.first .. MaxTabs

\* The binding names a tab of another process than the one looked at.
Outlived(b, looked) == b.tab # Unset /\ b.tab \notin looked

Bound(s) == {s.bind[w] : w \in Workflows} \ {Unset}

\* Leases that ran out, a restarted Firefox, action keys older than a week.
Reconciled(s, old, looked) ==
  [s EXCEPT
    !.bind = [w \in Workflows |->
      LET b == s.bind[w] IN
      IF b = Unset THEN Unset
      ELSE IF w \in lapsed
        THEN IF b.created
             THEN [b EXCEPT !.uncertain = TRUE, !.expired = b.expired \/ ~b.uncertain]
             ELSE Unset
      ELSE IF Outlived(b, looked)
        THEN [b EXCEPT !.uncertain = TRUE, !.expired = FALSE]
      ELSE b],
    !.keys = [k \in ActionKeys |-> IF k \in old THEN Unset ELSE s.keys[k]]]

\* What a command may find in the file, once it has looked at Firefox.  (A file that
\* cannot be read counts as empty; it is replaced as a whole, and always readable here.)
LoadedAfter(looked) ==
  {Reconciled(file, old, looked) : old \in SUBSET {k \in ActionKeys : file.keys[k] # Unset}}

Loaded == LoadedAfter(Running)

\* The lock is taken, and the state s read and reconciled.
Locked(s) ==
  /\ cmd = NoCommand
  /\ inputsSent' = [k \in ActionKeys |-> IF s.keys[k] = Unset THEN 0 ELSE inputsSent[k]]

\* The lock is released; the state is saved, after an exception as well.
Close(s) == file' = s /\ working' = s /\ cmd' = NoCommand

Seen == [first |-> firefox.first, open |-> firefox.open]

\* The command saves s before it sends what cannot be undone.
SaveFirst(s, op, w, k) ==
  /\ file' = s /\ working' = s
  /\ cmd' = [op |-> op, workflow |-> w, key |-> k, at |-> "reserved",
             seen |-> IF k # Unset THEN Unset ELSE Seen]

Renew(w) == lapsed' = lapsed \ {w}

\* The tab is shown: its place in the strip is clicked, and the result observed.
Shown(b) ==
  b # Unset /\ ~b.uncertain /\ Matches(b) # {}

Show(b) == firefox' = [firefox EXCEPT !.selected = b.tab]

Fresh(tab, created) ==
  [tab |-> tab, created |-> created, uncertain |-> tab = Unset,
   expired |-> FALSE, closing |-> FALSE]

ClaimableUnbound(s) ==
  /\ firefox.selected \in firefox.blank
  /\ \A b \in Bound(s) : firefox.selected \notin Matches(b)

\* The selected tab is blank, and no binding or abandoned binding holds it.
Claimable(s) ==
  /\ firefox.selected \in firefox.blank
  /\ \A b \in Bound(s) : firefox.selected \notin Matches(b)
  /\ \A w \in Workflows : firefox.selected \notin s.abandoned[w]

MayOpenAgain(s, w) == Cardinality(firefox.open) < HardCap

MayOpen(s, w) ==
  s.abandoned[w] = {} /\ Cardinality(firefox.open) < HardCap

\* acquire and navigate: the binding of w, a blank tab, a new one, or none.
Bind(s, w, mayOpen) ==
  LET b == s.bind[w] IN
  IF b # Unset
  THEN IF Shown(b)
       THEN Renew(w) /\ Close(s)
       ELSE UNCHANGED lapsed /\ Close([s EXCEPT !.bind[w].uncertain = TRUE])
  ELSE IF Claimable(s)
    THEN Renew(w) /\ Close([s EXCEPT !.bind[w] = Fresh(firefox.selected, FALSE)])
  ELSE IF mayOpen
    THEN Renew(w) /\ SaveFirst([s EXCEPT !.bind[w] = Fresh(Unset, TRUE)], "acquire", w, Unset)
  ELSE UNCHANGED lapsed /\ Close(s)

AcquireTab(w) ==
  /\ \E s \in Loaded : Locked(s) /\ Bind(s, w, MayOpen(s, w))
  /\ UNCHANGED <<browser, opened>>

\* The address is typed into the tab of w, unless that fails.
Navigate(w) ==
  /\ \E s \in Loaded : Locked(s) /\ Bind(s, w, FALSE)
  /\ LET b == file'.bind[w] IN
     \/ Shown(b) /\ firefox' = [firefox EXCEPT !.selected = b.tab, !.blank = @ \ {b.tab}]
     \/ UNCHANGED firefox
  /\ UNCHANGED <<born, shortcuts, opened>>

\* An input under a key: journaled, then sent.
SendOnce(s, w, k, op) ==
  /\ Show(s.bind[w])
  /\ SaveFirst([s EXCEPT !.keys[k] = [workflow |-> w, state |-> "started"]], op, w, k)

\* (A scroll, and a click without a key, are not journaled.)
Click(s, w, k) == SendOnce(s, w, k, "click")
Type(s, w, k) == SendOnce(s, w, k, "type")
SelectorAction(s, w, k) == SendOnce(s, w, k, "native")

NewKeyUnstarted(s, k) == s.keys[k] = Unset \/ s.keys[k].state = "started"

\* The key must be new; a used one only has its tab shown, and a key of another
\* workflow or operation is refused.
NewKey(s, k) == s.keys[k] = Unset

Input(w, k) ==
  /\ \E s \in Loaded :
       /\ Locked(s)
       /\ IF Shown(s.bind[w]) /\ NewKey(s, k)
          THEN Click(s, w, k) \/ Type(s, w, k) \/ SelectorAction(s, w, k)
          ELSE Close(s) /\ UNCHANGED firefox
  /\ UNCHANGED <<born, shortcuts, lapsed, opened>>

\* A handoff tab is let go; a tab opened for w is closed if it is certain.
Release(w) ==
  /\ \E s \in Loaded :
       LET b == s.bind[w] IN
       /\ Locked(s)
       /\ IF b # Unset /\ b.created /\ Shown(b)
          THEN /\ Show(b)
               /\ SaveFirst([s EXCEPT !.bind[w].uncertain = TRUE, !.bind[w].closing = TRUE],
                          "release", w, Unset)
          ELSE /\ UNCHANGED firefox
               /\ IF b # Unset /\ b.created
                  THEN Close([s EXCEPT !.bind[w].uncertain = TRUE])
                  ELSE Close([s EXCEPT !.bind[w] = Unset])
  /\ UNCHANGED <<born, shortcuts, lapsed, opened>>

KeepOpen(w) ==
  /\ \E s \in Loaded :
       /\ Locked(s) /\ Close(s)
       /\ lapsed' = IF s.bind[w] = Unset THEN lapsed ELSE lapsed \ {w}
  /\ UNCHANGED <<browser, opened>>

DoubtfulNever(s, w) == FALSE

\* An input of w that was not confirmed.
Doubtful(s, w) == \E k \in ActionKeys : LET e == s.keys[k] IN
  e # Unset /\ e.workflow = w /\ e.state # "delivered"

\* Only a lapsed lease is renewed; any other binding is set aside, never lost.
Recover(w) ==
  /\ \E s \in Loaded :
       LET b == s.bind[w] IN
       /\ Locked(s)
       /\ IF b # Unset /\ ~b.closing /\ ~Doubtful(s, w) /\ (b.uncertain => b.expired) /\ Matches(b) # {}
          THEN Renew(w) /\ Close([s EXCEPT !.bind[w].uncertain = FALSE, !.bind[w].expired = FALSE])
          ELSE /\ UNCHANGED lapsed
               /\ Close([s EXCEPT !.bind[w] = Unset,
                                  !.abandoned[w] = @ \cup (IF b = Unset THEN {} ELSE {b.tab})])
  /\ UNCHANGED <<browser, opened>>

\* What a status may have looked at: Firefox as it runs, or a process that ended while
\* the status waited for the lock.  Where that one's tabs begin and end is not
\* remembered, so that any range of earlier tabs stands for it.
Looks ==
  {Running} \cup ({n .. m : n, m \in 1 .. firefox.first - 1} \ {{}})

\* Only a status looks before it takes the lock.
Status ==
  /\ \E looked \in Looks : \E s \in LoadedAfter(looked) : Locked(s) /\ Close(s)
  /\ UNCHANGED <<browser, lapsed, opened>>
-----------------------------------------------------------------------------
\* The rest of a command: what it sends, and what it sees of it.
SendAction ==
  /\ cmd.at = "reserved" /\ cmd.key # Unset
  /\ inputsSent' = [inputsSent EXCEPT ![cmd.key] = @ + 1]
  /\ cmd' = [cmd EXCEPT !.at = "sent"]
  /\ UNCHANGED <<browser, file, working, lapsed, opened>>

\* A click counts as delivered; typed text does when it has been read back.
Outcomes(op) == IF op = "click" THEN {"delivered"} ELSE {"delivered", "uncertain"}

ConfirmAction ==
  /\ cmd.at = "sent" /\ cmd.key # Unset
  /\ \E state \in Outcomes(cmd.op) :
       Close([working EXCEPT !.keys[cmd.key].state = state])
  /\ UNCHANGED <<browser, lapsed, bridgeHistory>>

\* ctrl+t or ctrl+w.
SendShortcut ==
  /\ cmd.at = "reserved" /\ cmd.op \in {"acquire", "release"}
  /\ shortcuts' = Append(shortcuts, IF cmd.op = "acquire" THEN "t" ELSE "w")
  /\ opened' = IF cmd.op = "acquire" THEN [opened EXCEPT ![cmd.workflow] = @ + 1] ELSE opened
  /\ cmd' = [cmd EXCEPT !.at = "sent"]
  /\ UNCHANGED <<firefox, born, file, working, lapsed, inputsSent>>

\* One more tab, blank and selected: the new one.  Otherwise the command fails.
ObserveTab ==
  /\ cmd.at = "sent" /\ cmd.op = "acquire"
  /\ firefox.first = cmd.seen.first
  /\ cmd.seen.open \subseteq firefox.open
  /\ firefox.open \ cmd.seen.open = {firefox.selected}
  /\ firefox.selected \in firefox.blank
  /\ Renew(cmd.workflow)
  /\ Close([working EXCEPT !.bind[cmd.workflow] = Fresh(firefox.selected, TRUE)])
  /\ UNCHANGED <<browser, bridgeHistory>>

\* Its tab is gone and every other one is there.
ObserveClosure ==
  /\ cmd.at = "sent" /\ cmd.op = "release"
  /\ firefox.first = cmd.seen.first /\ firefox.open = cmd.seen.open \ {working.bind[cmd.workflow].tab}
  /\ Close([working EXCEPT !.bind[cmd.workflow] = Unset])
  /\ opened' = [opened EXCEPT ![cmd.workflow] = @ - 1]
  /\ UNCHANGED <<browser, lapsed, inputsSent>>

\* Any check that fails, or a time-out, and the death of the command.
FailCommand ==
  /\ cmd # NoCommand /\ Close(working)
  /\ UNCHANGED <<browser, lapsed, bridgeHistory>>

Kill ==
  /\ cmd # NoCommand /\ working' = file /\ cmd' = NoCommand
  /\ UNCHANGED <<browser, file, lapsed, bridgeHistory>>
-----------------------------------------------------------------------------
\* Firefox, its owner and the clock.  What they do between two steps of which
\* the second does not look at Firefox, they can as well do after it.
Looked == cmd = NoCommand \/ (cmd.at = "sent" /\ cmd.key = Unset)

OpenTab ==
  /\ born < MaxTabs /\ born' = born + 1
  /\ firefox' = [firefox EXCEPT !.open = @ \cup {born'}, !.blank = @ \cup {born'}, !.selected = born']

CloseTab(t) ==
  \E s \in firefox.open \ {t} :
    /\ s = firefox.selected \/ t = firefox.selected
    /\ firefox' = [firefox EXCEPT !.open = @ \ {t}, !.blank = @ \ {t}, !.selected = s]
    /\ UNCHANGED born

HandleShortcut ==
  /\ Looked /\ shortcuts # <<>> /\ shortcuts' = Tail(shortcuts)
  /\ IF Head(shortcuts) = "t" THEN OpenTab ELSE CloseTab(firefox.selected)
  /\ UNCHANGED <<file, working, cmd, lapsed, bridgeHistory>>

LoseShortcut ==
  /\ Looked /\ shortcuts # <<>> /\ shortcuts' = Tail(shortcuts)
  /\ UNCHANGED <<firefox, born, file, working, cmd, lapsed, bridgeHistory>>

OwnerActs ==
  /\ Looked
  /\ \/ OpenTab
     \/ \E t \in firefox.open : CloseTab(t)
     \/ \E t \in firefox.open \ {firefox.selected} :
          firefox' = [firefox EXCEPT !.selected = t] /\ UNCHANGED born
     \/ \E t \in firefox.blank :
          cmd = NoCommand /\ firefox' = [firefox EXCEPT !.blank = @ \ {t}] /\ UNCHANGED born
  /\ UNCHANGED <<shortcuts, file, working, cmd, lapsed, bridgeHistory>>

NewFirefox ==
  /\ Looked /\ born < MaxTabs /\ born' = born + 1
  /\ firefox' = [first |-> born', open |-> {born'}, blank |-> {born'}, selected |-> born']
  /\ shortcuts' = <<>>
  /\ UNCHANGED <<file, working, cmd, lapsed, bridgeHistory>>

\* A lease is read when the next command reconciles.
Lapse(w) ==
  /\ cmd = NoCommand /\ file.bind[w] # Unset /\ w \notin lapsed
  /\ lapsed' = lapsed \cup {w}
  /\ UNCHANGED <<browser, file, working, cmd, bridgeHistory>>

Command == \E w \in Workflows :
  \/ AcquireTab(w) \/ Navigate(w) \/ Release(w) \/ KeepOpen(w) \/ Recover(w)
  \/ \E k \in ActionKeys : Input(w, k)

BridgeNext ==
  \/ Command \/ Status
  \/ SendAction \/ ConfirmAction \/ SendShortcut \/ ObserveTab \/ ObserveClosure \/ FailCommand \/ Kill
  \/ HandleShortcut \/ LoseShortcut \/ OwnerActs \/ NewFirefox
  \/ \E w \in Workflows : Lapse(w)

BridgeSpec == BridgeInit /\ [][BridgeNext]_bridgeVars
-----------------------------------------------------------------------------
\* An input journaled under an action key is sent once, whatever fails and is
\* retried, until its journal entry is a week old and pruned.
KeyedInputOnce == \A k \in ActionKeys : inputsSent[k] <= 1

\* A workflow never has a second tab opened for it before the first was seen
\* to close: a lost or late ctrl+t, a killed command, a lapsed lease or an
\* abandoned binding never makes room for a replacement.
NoReplacementGrowth == \A w \in Workflows : opened[w] <= 1

\* A tab has one holder: no two workflows are bound to it, and the tab of an
\* abandoned binding is never bound again.
OneHolder ==
  \A t \in Tabs, w \in Workflows :
    file.bind[w] # Unset /\ file.bind[w].tab = t =>
      \A v \in Workflows :
        /\ t \notin file.abandoned[v]
        /\ file.bind[v] # Unset /\ file.bind[v].tab = t => v = w

\* Every tab of a workflow is accounted for.
TabsAreAccounted == NoReplacementGrowth /\ OneHolder

\* Doubt about the tab that was opened for a workflow is only removed by a
\* recovery of that tab, still open, in no closure, while no input of the
\* workflow is unconfirmed.  A handoff tab is let go when its lease lapses.
DoubtRemovedByRecovery == [][
  \A w \in Workflows :
    LET b == file.bind[w]
        c == file'.bind[w]
    IN b # Unset /\ c # Unset /\ cmd = NoCommand /\ b.created /\ b.uncertain /\ ~c.uncertain =>
         /\ c.tab = b.tab /\ b.tab \in firefox.open /\ ~b.closing
         /\ \A k \in ActionKeys : LET e == file'.keys[k] IN
              e # Unset /\ e.workflow = w => e.state = "delivered"]_bridgeVars
=============================================================================
