---------------------------- MODULE UiBridge_proofs ----------------------------
(***************************************************************************)
(* Proofs about UiBridge for every set of workflows and action keys, any   *)
(* cap on tabs and any number of tabs and Firefox processes.               *)
(***************************************************************************)
EXTENDS UiBridge, TLAPS

States ==
  [bind : [Workflows -> Bindings \cup {Unset}],
   abandoned : [Workflows -> SUBSET (Tabs \cup {Unset})],
   keys : [ActionKeys -> Entries \cup {Unset}]]

Seens == [first : Tabs, open : SUBSET Tabs]

Inputs == {"click", "type", "native"}

\* A command that sends an input, and one that sends a shortcut.
KeyCommands ==
  [op : Inputs, workflow : Workflows, key : ActionKeys, at : {"reserved", "sent"}, seen : {Unset}]
TabCommands ==
  [op : {"acquire", "release"}, workflow : Workflows, key : {Unset},
   at : {"reserved", "sent"}, seen : Seens]

BrowserOK ==
  /\ firefox \in [first : Tabs, open : SUBSET Tabs, blank : SUBSET Tabs, selected : Tabs]
  /\ firefox.blank \cup {firefox.selected} \subseteq firefox.open
  /\ firefox.open \subseteq firefox.first .. born /\ born \in Tabs
  /\ shortcuts \in Seq({"t", "w"})

\* A command saves whatever it changes, so that the file is what it holds.
FilesOK ==
  /\ file \in States /\ working = file
  /\ cmd \in KeyCommands \cup TabCommands \cup {NoCommand}
  /\ lapsed \subseteq Workflows

\* An input was sent only under a key whose entry is there.
KeyJournaled(s, sn) == \A k \in ActionKeys : sn[k] \in {0, 1} /\ (sn[k] = 1 => s.keys[k] # Unset)

\* A tab was opened only for a workflow that is bound to it or may open no
\* other, and a tab that was observed after it was opened was opened.
TabJournaled(s, op) == \A w \in Workflows :
  /\ op[w] \in {0, 1}
  /\ op[w] = 1 => s.abandoned[w] # {} \/ (s.bind[w] # Unset /\ s.bind[w].created)
  /\ s.bind[w] # Unset /\ s.bind[w].created /\ s.bind[w].tab # Unset => op[w] = 1

Holds(s, w, t) == s.bind[w] # Unset /\ s.bind[w].tab = t

OneHolderIn(s) == \A t \in Tabs, w \in Workflows : Holds(s, w, t) =>
  \A v \in Workflows : t \notin s.abandoned[v] /\ (Holds(s, v, t) => v = w)

\* A tab that is bound or abandoned was opened before.
Known(s, n) == \A t \in Tabs, w \in Workflows :
  Holds(s, w, t) \/ t \in s.abandoned[w] => t <= n

Sound(s, sn, op, n) ==
  s \in States /\ KeyJournaled(s, sn) /\ TabJournaled(s, op) /\ OneHolderIn(s) /\ Known(s, n)

\* What a command that has saved its reservation relies on.
CmdInv ==
  /\ cmd \in KeyCommands =>
       /\ file.keys[cmd.key] # Unset
       /\ cmd.at = "reserved" => inputsSent[cmd.key] = 0
  /\ cmd \in TabCommands =>
       LET b == file.bind[cmd.workflow] IN
       /\ b # Unset /\ b.created
       /\ cmd.op = "release" => b.tab # Unset
       /\ cmd.op = "acquire" =>
            /\ b.tab = Unset
            /\ opened[cmd.workflow] = IF cmd.at = "sent" THEN 1 ELSE 0
            /\ \A t \in firefox.open, w \in Workflows :
                 Holds(file, w, t) \/ t \in file.abandoned[w] => t \in cmd.seen.open

HistoryOK == opened \in [Workflows -> {0, 1}] /\ inputsSent \in [ActionKeys -> {0, 1}]

\* The inductive invariant.
BridgeInv ==
  BrowserOK /\ FilesOK /\ HistoryOK /\ Sound(file, inputsSent, opened, born) /\ CmdInv
------------------------------------------------------------------------------
(* What a command finds, and the ways it changes it.                       *)

LEMMA Sentinel ==
  /\ Unset \notin Workflows /\ Unset \notin ActionKeys /\ Unset \notin Tabs
  /\ Unset \notin Bindings /\ Unset \notin Entries
  /\ Tabs \subseteq Nat
BY UiBridgeAssumption DEF Tabs

LEMMA IdleFacts == NoCommand \notin KeyCommands /\ NoCommand \notin TabCommands
BY DEF NoCommand, KeyCommands, TabCommands

LEMMA CommandFacts ==
  ASSUME FilesOK
  PROVE  /\ cmd # NoCommand <=> cmd.at # "idle"
         /\ cmd.at # "idle" /\ cmd.key # Unset => cmd \in KeyCommands
         /\ cmd.at # "idle" /\ cmd.key = Unset => cmd \in TabCommands
         /\ cmd.at # "idle" /\ cmd.op \in {"acquire", "release"} => cmd \in TabCommands
BY Sentinel DEF FilesOK, KeyCommands, TabCommands, NoCommand, Inputs

\* What reconciliation makes c of a binding b.
OnlyDoubts(b, c) ==
  \/ c = Unset /\ (b = Unset \/ ~b.created)
  \/ /\ b # Unset /\ c # Unset /\ c \in Bindings /\ b \in Bindings
     /\ c.tab = b.tab /\ c.created = b.created /\ c.closing = b.closing
     /\ b.uncertain => c.uncertain

\* Reconciliation forgets a handoff tab whose lease ran out and action keys;
\* it only adds doubt to a binding.
LEMMA ReconciledBinding ==
  ASSUME NEW f \in States, NEW old \in SUBSET ActionKeys, NEW looked
  PROVE  LET s == Reconciled(f, old, looked) IN
         /\ s \in States /\ s.abandoned = f.abandoned
         /\ \A k \in ActionKeys : s.keys[k] = IF k \in old THEN Unset ELSE f.keys[k]
         /\ \A w \in Workflows : OnlyDoubts(f.bind[w], s.bind[w])
<1> SUFFICES ASSUME NEW s, s = Reconciled(f, old, looked)
             PROVE  /\ s \in States /\ s.abandoned = f.abandoned
                    /\ \A k \in ActionKeys : s.keys[k] = IF k \in old THEN Unset ELSE f.keys[k]
                    /\ \A w \in Workflows : OnlyDoubts(f.bind[w], s.bind[w])
  OBVIOUS
<1> DEFINE New(w) ==
      LET b == f.bind[w] IN
      IF b = Unset THEN Unset
      ELSE IF w \in lapsed
        THEN IF b.created
             THEN [b EXCEPT !.uncertain = TRUE, !.expired = b.expired \/ ~b.uncertain]
             ELSE Unset
      ELSE IF Outlived(b, looked)
        THEN [b EXCEPT !.uncertain = TRUE, !.expired = FALSE]
      ELSE b
<1>1. s.bind = [w \in Workflows |-> New(w)] /\ s.abandoned = f.abandoned
      /\ s.keys = [k \in ActionKeys |-> IF k \in old THEN Unset ELSE f.keys[k]]
  BY DEF Reconciled, States
<1>2. s = [bind |-> s.bind, abandoned |-> s.abandoned, keys |-> s.keys]
  BY DEF Reconciled, States
<1>3. ASSUME NEW w \in Workflows
      PROVE  /\ New(w) \in Bindings \cup {Unset}
             /\ \/ New(w) = Unset /\ (f.bind[w] = Unset \/ ~f.bind[w].created)
                \/ /\ f.bind[w] # Unset /\ New(w) # Unset
                   /\ New(w) \in Bindings /\ f.bind[w] \in Bindings
                   /\ New(w).tab = f.bind[w].tab /\ New(w).created = f.bind[w].created
                   /\ New(w).closing = f.bind[w].closing
                   /\ f.bind[w].uncertain => New(w).uncertain
  <2>1. f.bind[w] \in Bindings \cup {Unset} BY DEF States
  <2>2. CASE f.bind[w] = Unset BY <2>2
  <2>3. CASE f.bind[w] \in Bindings
    <3> DEFINE b == f.bind[w]
    <3>1. b # Unset BY <2>3, Sentinel
    <3> DEFINE x == [b EXCEPT !.uncertain = TRUE, !.expired = b.expired \/ ~b.uncertain]
               y == [b EXCEPT !.uncertain = TRUE, !.expired = FALSE]
    <3>3. x \in Bindings /\ y \in Bindings BY <2>3 DEF Bindings
    <3>2. \/ New(w) = Unset /\ ~b.created
          \/ New(w) \in {b, x, y}
      BY <3>1
    <3> HIDE DEF New
    <3>4. CASE New(w) = Unset /\ ~b.created BY <3>4
    <3>5. CASE New(w) \in {b, x, y}
      <4>1. New(w) \in Bindings /\ New(w) # Unset BY <3>3, <3>5, <2>3, Sentinel
      <4>2. New(w).tab = b.tab /\ New(w).created = b.created /\ New(w).closing = b.closing
            /\ (b.uncertain => New(w).uncertain)
        BY <3>5, <2>3 DEF Bindings
      <4> QED BY <4>1, <4>2, <3>1, <2>3
    <3> QED BY <3>2, <3>4, <3>5
  <2> QED BY <2>1, <2>2, <2>3
<1> HIDE DEF New
<1>4. s.keys \in [ActionKeys -> Entries \cup {Unset}] BY <1>1 DEF States
<1>5. s.bind \in [Workflows -> Bindings \cup {Unset}] BY <1>1, <1>3
<1>6. s \in States BY <1>1, <1>2, <1>4, <1>5 DEF States
<1>7. \A w \in Workflows : OnlyDoubts(f.bind[w], s.bind[w]) BY <1>1, <1>3 DEF OnlyDoubts
<1> QED BY <1>1, <1>6, <1>7
LEMMA LoadedAfterSound ==
  ASSUME BridgeInv, NEW looked, NEW s \in LoadedAfter(looked), Locked(s)
  PROVE  inputsSent' \in [ActionKeys -> {0, 1}] /\ Sound(s, inputsSent', opened, born)
<1>1. PICK old \in SUBSET {k \in ActionKeys : file.keys[k] # Unset} : s = Reconciled(file, old, looked)
  BY DEF LoadedAfter
<1>2. file \in States /\ old \in SUBSET ActionKeys BY <1>1 DEF BridgeInv, FilesOK
<1>0. /\ s \in States /\ s.abandoned = file.abandoned
      /\ \A k \in ActionKeys : s.keys[k] = IF k \in old THEN Unset ELSE file.keys[k]
      /\ \A w \in Workflows : OnlyDoubts(file.bind[w], s.bind[w])
  <2> DEFINE r == Reconciled(file, old, looked)
  <2>1. /\ r \in States /\ r.abandoned = file.abandoned
        /\ \A k \in ActionKeys : r.keys[k] = IF k \in old THEN Unset ELSE file.keys[k]
        /\ \A w \in Workflows : OnlyDoubts(file.bind[w], r.bind[w])
    BY <1>2, ReconciledBinding
  <2> HIDE DEF r
  <2>2. s = r BY <1>1 DEF r
  <2> QED BY <2>1, <2>2
<1>3. /\ s \in States /\ s.abandoned = file.abandoned
      /\ \A k \in ActionKeys : s.keys[k] = IF k \in old THEN Unset ELSE file.keys[k]
      /\ \A w \in Workflows :
           \/ s.bind[w] = Unset /\ (file.bind[w] = Unset \/ ~file.bind[w].created)
           \/ /\ file.bind[w] # Unset /\ s.bind[w] # Unset
              /\ s.bind[w].tab = file.bind[w].tab /\ s.bind[w].created = file.bind[w].created
  BY <1>0 DEF OnlyDoubts
<1>4. Sound(file, inputsSent, opened, born) /\ inputsSent \in [ActionKeys -> {0, 1}]
  BY DEF BridgeInv, HistoryOK
<1>5. inputsSent' = [k \in ActionKeys |-> IF s.keys[k] = Unset THEN 0 ELSE inputsSent[k]] BY DEF Locked
<1>6. inputsSent' \in [ActionKeys -> {0, 1}] BY <1>4, <1>5
<1>7. KeyJournaled(s, inputsSent') BY <1>4, <1>5 DEF KeyJournaled
<1>8. TabJournaled(s, opened) BY <1>3, <1>4 DEF Sound, TabJournaled
<1>9. \A t \in Tabs, w \in Workflows : Holds(s, w, t) => Holds(file, w, t)
  BY <1>3 DEF Holds
<1>10. OneHolderIn(s) /\ Known(s, born)
  BY <1>3, <1>4, <1>9 DEF Sound, OneHolderIn, Known
<1> QED BY <1>3, <1>6, <1>7, <1>8, <1>10 DEF Sound

LEMMA LoadedSound ==
  ASSUME BridgeInv, NEW s \in Loaded, Locked(s)
  PROVE  inputsSent' \in [ActionKeys -> {0, 1}] /\ Sound(s, inputsSent', opened, born)
BY LoadedAfterSound DEF Loaded

\* The binding of a workflow becomes b.
LEMMA Rebound ==
  ASSUME NEW s, NEW sn, NEW op, NEW n, Sound(s, sn, op, n),
         NEW w \in Workflows, NEW b \in Bindings \cup {Unset},
         op[w] = 1 => s.abandoned[w] # {} \/ (b # Unset /\ b.created),
         b # Unset /\ b.created /\ b.tab # Unset => op[w] = 1,
         b # Unset /\ b.tab \in Tabs =>
           /\ b.tab <= n
           /\ \A v \in Workflows : b.tab \notin s.abandoned[v] /\ (Holds(s, v, b.tab) => v = w)
  PROVE  Sound([s EXCEPT !.bind[w] = b], sn, op, n)
<1> DEFINE r == [s EXCEPT !.bind[w] = b]
<1>1. /\ r \in States /\ r.abandoned = s.abandoned /\ r.keys = s.keys
      /\ r.bind = [s.bind EXCEPT ![w] = b] /\ s.bind \in [Workflows -> Bindings \cup {Unset}]
  BY DEF Sound, States
<1> HIDE DEF r
<1>2. \A v \in Workflows : r.bind[v] = IF v = w THEN b ELSE s.bind[v] BY <1>1
<1>3. KeyJournaled(r, sn) BY <1>1 DEF Sound, KeyJournaled
<1>4. TabJournaled(r, op) BY <1>1, <1>2 DEF Sound, TabJournaled
<1>5. \A t \in Tabs, v \in Workflows :
        Holds(r, v, t) => IF v = w THEN b # Unset /\ b.tab = t ELSE Holds(s, v, t)
  BY <1>2 DEF Holds
<1>6. OneHolderIn(r) BY <1>1, <1>5 DEF Sound, OneHolderIn
<1>7. Known(r, n) BY <1>1, <1>5 DEF Sound, Known
<1> QED BY <1>1, <1>3, <1>4, <1>6, <1>7 DEF Sound, r

\* The binding of a workflow only changes what is thought of it.
LEMMA Doubted ==
  ASSUME NEW s, NEW sn, NEW op, NEW n, Sound(s, sn, op, n),
         NEW w \in Workflows, s.bind[w] # Unset, NEW b \in Bindings,
         b.tab = s.bind[w].tab, b.created = s.bind[w].created
  PROVE  Sound([s EXCEPT !.bind[w] = b], sn, op, n)
<1>1. op[w] = 1 => s.abandoned[w] # {} \/ (b # Unset /\ b.created)
  BY Sentinel DEF Sound, TabJournaled
<1>2. b # Unset /\ b.created /\ b.tab # Unset => op[w] = 1
  BY DEF Sound, TabJournaled
<1>3. b.tab \in Tabs =>
        /\ b.tab <= n
        /\ \A v \in Workflows : b.tab \notin s.abandoned[v] /\ (Holds(s, v, b.tab) => v = w)
  BY DEF Sound, OneHolderIn, Known, Holds
<1> QED BY <1>1, <1>2, <1>3, Rebound

\* The entry of an action key becomes e.
LEMMA Journaled ==
  ASSUME NEW s, NEW sn, NEW op, NEW n, Sound(s, sn, op, n), NEW k \in ActionKeys, NEW e \in Entries
  PROVE  /\ Sound([s EXCEPT !.keys[k] = e], sn, op, n)
         /\ [s EXCEPT !.keys[k] = e].keys[k] # Unset
<1> DEFINE r == [s EXCEPT !.keys[k] = e]
<1>1. /\ r \in States /\ r.abandoned = s.abandoned /\ r.bind = s.bind
      /\ r.keys = [s.keys EXCEPT ![k] = e] /\ s.keys \in [ActionKeys -> Entries \cup {Unset}]
  BY DEF Sound, States
<1> HIDE DEF r
<1>2. r.keys[k] # Unset BY <1>1, Sentinel
<1>3. KeyJournaled(r, sn) BY <1>1, <1>2 DEF Sound, KeyJournaled
<1>4. TabJournaled(r, op) /\ OneHolderIn(r) /\ Known(r, n)
  BY <1>1 DEF Sound, TabJournaled, OneHolderIn, Known, Holds
<1> QED BY <1>1, <1>2, <1>3, <1>4 DEF Sound, r
\* The binding of a workflow is set aside: its tab is abandoned.
LEMMA SetAside ==
  ASSUME NEW s, NEW sn, NEW op, NEW n, Sound(s, sn, op, n), NEW w \in Workflows,
         NEW r, r = [s EXCEPT !.bind[w] = Unset,
                              !.abandoned[w] = @ \cup (IF s.bind[w] = Unset THEN {} ELSE {s.bind[w].tab})]
  PROVE  Sound(r, sn, op, n)
<1> DEFINE gone == IF s.bind[w] = Unset THEN {} ELSE {s.bind[w].tab}
<1>1. s \in States /\ s.bind[w] \in Bindings \cup {Unset} BY DEF Sound, States
<1>2. gone \subseteq Tabs \cup {Unset} BY <1>1 DEF Bindings
<1>3. r = [s EXCEPT !.bind = [s.bind EXCEPT ![w] = Unset],
                    !.abandoned = [s.abandoned EXCEPT ![w] = s.abandoned[w] \cup gone]]
  OBVIOUS
<1> HIDE DEF gone
<1> DEFINE bind == [s.bind EXCEPT ![w] = Unset]
           abandoned == [s.abandoned EXCEPT ![w] = s.abandoned[w] \cup gone]
<1>4. bind \in [Workflows -> Bindings \cup {Unset}]
  BY <1>1 DEF States
<1>5. abandoned \in [Workflows -> SUBSET (Tabs \cup {Unset})]
  BY <1>1, <1>2 DEF States
<1>6. r = [s EXCEPT !.bind = bind, !.abandoned = abandoned] BY <1>3
<1> HIDE DEF bind, abandoned
<1>7. r \in States /\ r.keys = s.keys /\ r.abandoned = abandoned /\ r.bind = bind
  BY <1>1, <1>4, <1>5, <1>6 DEF States
<1>8. /\ r \in States /\ r.keys = s.keys
      /\ r.abandoned = [s.abandoned EXCEPT ![w] = s.abandoned[w] \cup gone]
      /\ r.bind = [s.bind EXCEPT ![w] = Unset]
  BY <1>7 DEF bind, abandoned
<1>9. \A v \in Workflows :
        /\ r.bind[v] = IF v = w THEN Unset ELSE s.bind[v]
        /\ r.abandoned[v] = IF v = w THEN s.abandoned[v] \cup gone ELSE s.abandoned[v]
  BY <1>1, <1>8 DEF States
<1>10. KeyJournaled(r, sn) BY <1>8 DEF Sound, KeyJournaled
<1>11. s.bind[w] # Unset => gone # {} BY DEF gone
<1>12. TabJournaled(r, op) BY <1>9, <1>11 DEF Sound, TabJournaled
<1>13. \A t \in Tabs : t \in gone => Holds(s, w, t) BY DEF gone, Holds
<1>14. \A t \in Tabs, v \in Workflows : Holds(r, v, t) => v # w /\ Holds(s, v, t)
  BY <1>9 DEF Holds
<1>15. \A t \in Tabs, v \in Workflows :
         t \in r.abandoned[v] => t \in s.abandoned[v] \/ Holds(s, w, t)
  <2> TAKE t \in Tabs, v \in Workflows
  <2>1. CASE v = w
    <3>1. r.abandoned[v] = s.abandoned[v] \cup gone BY <1>9, <2>1
    <3> QED BY <1>13, <3>1
  <2>2. CASE v # w BY <1>9, <2>2
  <2> QED BY <2>1, <2>2
<1>16. OneHolderIn(s) /\ Known(s, n) BY DEF Sound
<1>17. ASSUME NEW t \in Tabs, NEW v \in Workflows, Holds(r, v, t), NEW u \in Workflows
       PROVE  t \notin r.abandoned[u] /\ (Holds(r, u, t) => u = v)
  <2>1. v # w /\ Holds(s, v, t) /\ (Holds(r, u, t) => Holds(s, u, t)) BY <1>14, <1>17
  <2>2. t \notin s.abandoned[u] /\ ~Holds(s, w, t) /\ (Holds(s, u, t) => u = v)
    BY <1>16, <2>1 DEF OneHolderIn
  <2> QED BY <1>15, <2>1, <2>2
<1>18. OneHolderIn(r) BY <1>17 DEF OneHolderIn
<1>19. Known(r, n) BY <1>14, <1>15, <1>16 DEF Known
<1> QED BY <1>8, <1>10, <1>12, <1>18, <1>19 DEF Sound
------------------------------------------------------------------------------
(* The ways a step of a command ends.                                      *)

LEMMA Closed ==
  ASSUME BrowserOK', HistoryOK', lapsed' \subseteq Workflows,
         NEW r, Sound(r, inputsSent', opened', born'), Close(r)
  PROVE  BridgeInv'
<1>1. file' = r /\ working' = r /\ cmd' = NoCommand BY DEF Close
<1>2. FilesOK' BY <1>1 DEF FilesOK, Sound
<1>3. Sound(file, inputsSent, opened, born)'
  BY <1>1 DEF Sound, KeyJournaled, TabJournaled, OneHolderIn, Known, Holds
<1>4. CmdInv' BY <1>1, IdleFacts DEF CmdInv
<1> QED BY <1>2, <1>3, <1>4 DEF BridgeInv

LEMMA ReservedInput ==
  ASSUME BrowserOK', HistoryOK', lapsed' \subseteq Workflows,
         NEW r, Sound(r, inputsSent', opened', born'),
         NEW op \in Inputs, NEW w \in Workflows, NEW k \in ActionKeys,
         r.keys[k] # Unset, inputsSent'[k] = 0, SaveFirst(r, op, w, k)
  PROVE  BridgeInv'
<1>1. /\ file' = r /\ working' = r
      /\ cmd' = [op |-> op, workflow |-> w, key |-> k, at |-> "reserved", seen |-> Unset]
  BY Sentinel DEF SaveFirst
<1>2. cmd' \in KeyCommands /\ cmd' \notin TabCommands
  BY <1>1, Sentinel DEF KeyCommands, TabCommands
<1>3. FilesOK' BY <1>1, <1>2 DEF FilesOK, Sound
<1>4. Sound(file, inputsSent, opened, born)'
  BY <1>1 DEF Sound, KeyJournaled, TabJournaled, OneHolderIn, Known, Holds
<1>5. CmdInv' BY <1>1, <1>2 DEF CmdInv
<1> QED BY <1>3, <1>4, <1>5 DEF BridgeInv

LEMMA ReservedTab ==
  ASSUME BrowserOK, BrowserOK', HistoryOK', lapsed' \subseteq Workflows,
         firefox'.first = firefox.first, firefox'.open = firefox.open,
         NEW r, Sound(r, inputsSent', opened', born'),
         NEW op \in {"acquire", "release"}, NEW w \in Workflows,
         SaveFirst(r, op, w, Unset), r.bind[w] # Unset, r.bind[w].created,
         op = "release" => r.bind[w].tab # Unset,
         op = "acquire" => r.bind[w].tab = Unset /\ opened'[w] = 0
  PROVE  BridgeInv'
<1>1. /\ file' = r /\ working' = r
      /\ cmd' = [op |-> op, workflow |-> w, key |-> Unset, at |-> "reserved",
                 seen |-> [first |-> firefox.first, open |-> firefox.open]]
  BY DEF SaveFirst, Seen
<1>2. [first |-> firefox.first, open |-> firefox.open] \in Seens BY DEF BrowserOK, Seens
<1>3. cmd' \notin KeyCommands /\ cmd' \in TabCommands
  BY <1>1, <1>2, Sentinel DEF KeyCommands, TabCommands
<1>4. FilesOK' BY <1>1, <1>3 DEF FilesOK, Sound
<1>5. Sound(file, inputsSent, opened, born)'
  BY <1>1 DEF Sound, KeyJournaled, TabJournaled, OneHolderIn, Known, Holds
<1>6. cmd'.op = op /\ cmd'.workflow = w /\ cmd'.at = "reserved" /\ cmd'.seen.open = firefox'.open
  BY <1>1
<1>7. CmdInv' BY <1>1, <1>3, <1>6 DEF CmdInv
<1> QED BY <1>4, <1>5, <1>7 DEF BridgeInv
------------------------------------------------------------------------------
(* Commands, up to their first save.                                       *)

LEMMA ShownFacts ==
  ASSUME BrowserOK, NEW b \in Bindings \cup {Unset}, Shown(b)
  PROVE  b \in Bindings /\ b.tab \in Tabs /\ b.tab \in firefox.open /\ ~b.uncertain
BY DEF Shown, Matches, BrowserOK

LEMMA ShowKeeps ==
  ASSUME BrowserOK, NEW b \in Bindings \cup {Unset}, Shown(b), UNCHANGED <<born, shortcuts>>,
         Show(b) \/ firefox' = [firefox EXCEPT !.selected = b.tab, !.blank = @ \ {b.tab}]
  PROVE  BrowserOK' /\ firefox'.first = firefox.first /\ firefox'.open = firefox.open
<1>1. b.tab \in Tabs /\ b.tab \in firefox.open BY ShownFacts
<1>2. CASE Show(b)
  <2>1. firefox' = [firefox EXCEPT !.selected = b.tab] BY <1>2 DEF Show
  <2> QED BY <1>1, <2>1 DEF BrowserOK
<1>3. CASE firefox' = [firefox EXCEPT !.selected = b.tab, !.blank = @ \ {b.tab}]
  <2>1. firefox.blank \ {b.tab} \in SUBSET Tabs BY DEF BrowserOK
  <2> QED BY <1>1, <1>3, <2>1 DEF BrowserOK
<1> QED BY <1>2, <1>3

LEMMA FreshFacts ==
  ASSUME NEW t \in Tabs \cup {Unset}, NEW c \in BOOLEAN
  PROVE  /\ Fresh(t, c) \in Bindings /\ Fresh(t, c) # Unset
         /\ Fresh(t, c).tab = t /\ Fresh(t, c).created = c
<1>1. (t = Unset) \in BOOLEAN OBVIOUS
<1>2. Fresh(t, c) \in Bindings BY <1>1 DEF Fresh, Bindings
<1> QED BY <1>2, Sentinel DEF Fresh

\* A binding that becomes doubtful, or is being closed, still binds.
LEMMA DoubtedSound ==
  ASSUME NEW s, NEW sn, NEW op, NEW n, Sound(s, sn, op, n),
         NEW w \in Workflows, s.bind[w] # Unset
  PROVE  /\ Sound([s EXCEPT !.bind[w].uncertain = TRUE], sn, op, n)
         /\ Sound([s EXCEPT !.bind[w].uncertain = TRUE, !.bind[w].closing = TRUE], sn, op, n)
         /\ Sound([s EXCEPT !.bind[w].uncertain = FALSE, !.bind[w].expired = FALSE], sn, op, n)
<1>1. s \in States /\ s.bind[w] \in Bindings BY DEF Sound, States
<1> DEFINE b == s.bind[w]
           x == [b EXCEPT !.uncertain = TRUE]
           y == [b EXCEPT !.uncertain = TRUE, !.closing = TRUE]
           z == [b EXCEPT !.uncertain = FALSE, !.expired = FALSE]
<1>2. /\ x \in Bindings /\ x.tab = b.tab /\ x.created = b.created
      /\ y \in Bindings /\ y.tab = b.tab /\ y.created = b.created
      /\ z \in Bindings /\ z.tab = b.tab /\ z.created = b.created
  BY <1>1 DEF Bindings
<1>3. /\ [s EXCEPT !.bind[w].uncertain = TRUE] = [s EXCEPT !.bind[w] = x]
      /\ [s EXCEPT !.bind[w].uncertain = TRUE, !.bind[w].closing = TRUE] = [s EXCEPT !.bind[w] = y]
      /\ [s EXCEPT !.bind[w].uncertain = FALSE, !.bind[w].expired = FALSE] = [s EXCEPT !.bind[w] = z]
  BY <1>1 DEF States, Bindings
<1> HIDE DEF x, y, z
<1>4. Sound([s EXCEPT !.bind[w] = x], sn, op, n) BY <1>2, Doubted
<1>5. Sound([s EXCEPT !.bind[w] = y], sn, op, n) BY <1>2, Doubted
<1>6. Sound([s EXCEPT !.bind[w] = z], sn, op, n) BY <1>2, Doubted
<1> QED BY <1>3, <1>4, <1>5, <1>6

LEMMA BindKeeps ==
  ASSUME BridgeInv, BrowserOK', firefox'.first = firefox.first, firefox'.open = firefox.open,
         UNCHANGED <<born, opened>>, NEW w \in Workflows, NEW s \in Loaded, Locked(s),
         NEW mayOpen, mayOpen => s.abandoned[w] = {}, Bind(s, w, mayOpen)
  PROVE  BridgeInv'
<1> DEFINE b == s.bind[w]
<1>1. inputsSent' \in [ActionKeys -> {0, 1}] /\ Sound(s, inputsSent', opened, born) BY LoadedSound
<1>2. HistoryOK' /\ Sound(s, inputsSent', opened', born') BY <1>1 DEF BridgeInv, HistoryOK
<1>3. b \in Bindings \cup {Unset} BY <1>1 DEF Sound, States
<1>4. BrowserOK /\ lapsed \subseteq Workflows BY DEF BridgeInv, FilesOK
<1>5. CASE b # Unset
  <2>1. lapsed' \subseteq Workflows BY <1>4, <1>5 DEF Bind, Renew
  <2>2. CASE Close(s) BY <1>2, <2>1, <2>2, Closed
  <2>3. CASE Close([s EXCEPT !.bind[w].uncertain = TRUE])
    BY <1>2, <1>5, <2>1, <2>3, Closed, DoubtedSound
  <2> QED BY <1>5, <2>2, <2>3 DEF Bind
<1>6. CASE b = Unset /\ Claimable(s)
  <2> DEFINE t == firefox.selected
             r == [s EXCEPT !.bind[w] = Fresh(t, FALSE)]
  <2>1. t \in Tabs /\ t \in firefox.open /\ t <= born BY <1>4, Sentinel DEF BrowserOK, Tabs
  <2>2. lapsed' \subseteq Workflows /\ Close(r) BY <1>4, <1>6 DEF Bind, Renew
  <2>3. \A v \in Workflows : t \notin s.abandoned[v] /\ ~Holds(s, v, t)
    BY <1>6, <2>1 DEF Claimable, Bound, Matches, Holds
  <2>4. opened'[w] = 1 => s.abandoned[w] # {} BY <1>2, <1>6 DEF Sound, TabJournaled
  <2> HIDE DEF t
  <2>5. born' = born BY DEF BridgeInv
  <2> DEFINE f == Fresh(t, FALSE)
  <2>6. f \in Bindings /\ f # Unset /\ f.tab = t /\ f.created = FALSE BY <2>1, FreshFacts
  <2> HIDE DEF f
  <2>7. Sound([s EXCEPT !.bind[w] = f], inputsSent', opened', born')
    BY <1>2, <2>1, <2>3, <2>4, <2>5, <2>6, Rebound
  <2> QED BY <1>2, <2>2, <2>7, Closed DEF f
<1>7. CASE b = Unset /\ ~Claimable(s) /\ mayOpen
  <2> DEFINE r == [s EXCEPT !.bind[w] = Fresh(Unset, TRUE)]
  <2>1. lapsed' \subseteq Workflows /\ SaveFirst(r, "acquire", w, Unset) BY <1>4, <1>7 DEF Bind, Renew
  <2>2. opened'[w] = 0 BY <1>2, <1>7 DEF Sound, TabJournaled
  <2>3. Fresh(Unset, TRUE) \in Bindings /\ Fresh(Unset, TRUE) # Unset
        /\ Fresh(Unset, TRUE).tab = Unset /\ Fresh(Unset, TRUE).created = TRUE
    BY FreshFacts
  <2>4. Sound(r, inputsSent', opened', born')
    BY <1>2, <2>2, <2>3, Rebound, Sentinel
  <2>5. r.bind[w] = Fresh(Unset, TRUE) BY <1>1 DEF Sound, States
  <2> HIDE DEF r
  <2> QED BY <1>2, <1>4, <2>1, <2>2, <2>3, <2>4, <2>5, ReservedTab
<1>8. CASE b = Unset /\ ~Claimable(s) /\ ~mayOpen
  <2>1. lapsed' \subseteq Workflows /\ Close(s) BY <1>4, <1>8 DEF Bind
  <2> QED BY <1>2, <2>1, Closed
<1> QED BY <1>5, <1>6, <1>7, <1>8
LEMMA BrowserUnchanged ==
  ASSUME BrowserOK, UNCHANGED browser
  PROVE  BrowserOK' /\ firefox'.first = firefox.first /\ firefox'.open = firefox.open
BY DEF BrowserOK, browser

\* What every command starts from.
LEMMA Started ==
  ASSUME BridgeInv, UNCHANGED <<born, opened>>, NEW w \in Workflows, NEW s \in Loaded, Locked(s)
  PROVE  /\ HistoryOK' /\ Sound(s, inputsSent', opened', born')
         /\ s \in States /\ s.bind[w] \in Bindings \cup {Unset}
         /\ BrowserOK /\ lapsed \subseteq Workflows
<1>1. inputsSent' \in [ActionKeys -> {0, 1}] /\ Sound(s, inputsSent', opened, born) BY LoadedSound
<1> QED BY <1>1 DEF BridgeInv, HistoryOK, FilesOK, Sound, States

LEMMA AcquireKeeps == ASSUME BridgeInv, NEW w \in Workflows, AcquireTab(w) PROVE BridgeInv'
<1>1. BrowserOK' /\ firefox'.first = firefox.first /\ firefox'.open = firefox.open
      /\ UNCHANGED <<born, opened>>
  BY BrowserUnchanged DEF AcquireTab, BridgeInv, browser
<1>2. PICK s \in Loaded : Locked(s) /\ Bind(s, w, MayOpen(s, w)) BY DEF AcquireTab
<1>3. MayOpen(s, w) => s.abandoned[w] = {} BY DEF MayOpen
<1> QED BY <1>1, <1>2, <1>3, BindKeeps

LEMMA NavigateKeeps == ASSUME BridgeInv, NEW w \in Workflows, Navigate(w) PROVE BridgeInv'
<1>1. PICK s \in Loaded : Locked(s) /\ Bind(s, w, FALSE) BY DEF Navigate
<1>2. UNCHANGED <<born, shortcuts, opened>> BY DEF Navigate
<1>3. BrowserOK BY DEF BridgeInv
<1> DEFINE b == file'.bind[w]
<1>4. /\ HistoryOK' /\ Sound(s, inputsSent', opened', born')
      /\ s \in States /\ s.bind[w] \in Bindings \cup {Unset}
  BY <1>1, <1>2, Started
<1>5. CASE UNCHANGED firefox
  <2>1. UNCHANGED browser BY <1>2, <1>5 DEF browser
  <2> QED BY <1>1, <1>2, <1>3, <2>1, BrowserUnchanged, BindKeeps
<1>6. CASE Shown(b) /\ firefox' = [firefox EXCEPT !.selected = b.tab, !.blank = @ \ {b.tab}]
  <2>1. b.tab \in Tabs /\ b.tab \in firefox.open
    BY <1>3, <1>6 DEF Shown, Matches, BrowserOK
  <2> HIDE DEF b
  <2>2. firefox.blank \ {b.tab} \in SUBSET Tabs BY <1>3 DEF BrowserOK
  <2>3. BrowserOK' /\ firefox'.first = firefox.first /\ firefox'.open = firefox.open
    BY <1>2, <1>3, <1>6, <2>1, <2>2 DEF BrowserOK
  <2> QED BY <1>1, <1>2, <2>3, BindKeeps
<1> QED BY <1>5, <1>6 DEF Navigate

LEMMA InputKeeps ==
  ASSUME BridgeInv, NEW w \in Workflows, NEW k \in ActionKeys, Input(w, k)
  PROVE  BridgeInv'
<1>1. PICK s \in Loaded, op \in Inputs :
        /\ Locked(s)
        /\ IF Shown(s.bind[w]) /\ NewKey(s, k)
           THEN SendOnce(s, w, k, op)
           ELSE Close(s) /\ UNCHANGED firefox
  BY DEF Input, Click, Type, SelectorAction, Inputs
<1>2. UNCHANGED <<born, shortcuts, lapsed, opened>> BY DEF Input
<1>3. /\ HistoryOK' /\ Sound(s, inputsSent', opened', born') /\ s.bind[w] \in Bindings \cup {Unset}
      /\ BrowserOK /\ lapsed' \subseteq Workflows
  BY <1>1, <1>2, Started
<1>4. CASE Shown(s.bind[w]) /\ NewKey(s, k) /\ SendOnce(s, w, k, op)
  <2> DEFINE e == [workflow |-> w, state |-> "started"]
             r == [s EXCEPT !.keys[k] = e]
  <2>1. BrowserOK' BY <1>2, <1>3, <1>4, ShowKeeps DEF SendOnce
  <2>2. e \in Entries BY DEF Entries
  <2>3. SaveFirst(r, op, w, k) BY <1>4 DEF SendOnce
  <2> HIDE DEF e
  <2>4. Sound(r, inputsSent', opened', born') /\ r.keys[k] # Unset BY <1>3, <2>2, Journaled
  <2>5. inputsSent'[k] = 0 BY <1>1, <1>4 DEF Locked, NewKey
  <2> HIDE DEF r
  <2> QED BY <1>2, <1>3, <2>1, <2>3, <2>4, <2>5, ReservedInput
<1>5. CASE Close(s) /\ UNCHANGED firefox
  <2>1. BrowserOK' BY <1>2, <1>3, <1>5, BrowserUnchanged DEF browser
  <2> QED BY <1>3, <1>5, <2>1, Closed
<1> QED BY <1>1, <1>4, <1>5

LEMMA ReleaseKeeps == ASSUME BridgeInv, NEW w \in Workflows, Release(w) PROVE BridgeInv'
<1>1. PICK s \in Loaded :
        LET b == s.bind[w] IN
        /\ Locked(s)
        /\ IF b # Unset /\ b.created /\ Shown(b)
           THEN /\ Show(b)
                /\ SaveFirst([s EXCEPT !.bind[w].uncertain = TRUE, !.bind[w].closing = TRUE],
                           "release", w, Unset)
           ELSE /\ UNCHANGED firefox
                /\ IF b # Unset /\ b.created
                   THEN Close([s EXCEPT !.bind[w].uncertain = TRUE])
                   ELSE Close([s EXCEPT !.bind[w] = Unset])
  BY DEF Release
<1> DEFINE b == s.bind[w]
<1>2. UNCHANGED <<born, shortcuts, lapsed, opened>> BY DEF Release
<1>3. /\ HistoryOK' /\ Sound(s, inputsSent', opened', born') /\ s \in States /\ b \in Bindings \cup {Unset}
      /\ BrowserOK /\ lapsed' \subseteq Workflows
  BY <1>1, <1>2, Started
<1>4. CASE b # Unset /\ b.created /\ Shown(b)
  <2> DEFINE r == [s EXCEPT !.bind[w].uncertain = TRUE, !.bind[w].closing = TRUE]
  <2>1. Show(b) /\ SaveFirst(r, "release", w, Unset) BY <1>1, <1>4
  <2>2. BrowserOK' /\ firefox'.first = firefox.first /\ firefox'.open = firefox.open
    BY <1>2, <1>3, <1>4, <2>1, ShowKeeps
  <2>3. Sound(r, inputsSent', opened', born') BY <1>3, <1>4, DoubtedSound
  <2>4. b \in Bindings /\ b.tab # Unset BY <1>3, <1>4, ShownFacts, Sentinel
  <2>5. r.bind[w] = [b EXCEPT !.uncertain = TRUE, !.closing = TRUE] BY <1>3, <1>4 DEF States
  <2>6. r.bind[w] \in Bindings /\ r.bind[w].tab = b.tab /\ r.bind[w].created
    BY <1>4, <2>4, <2>5 DEF Bindings
  <2> HIDE DEF r
  <2>7. r.bind[w] # Unset BY <2>6, Sentinel
  <2> QED BY <1>3, <2>1, <2>2, <2>3, <2>4, <2>6, <2>7, ReservedTab
<1>5. CASE ~(b # Unset /\ b.created /\ Shown(b))
  <2>1. BrowserOK' BY <1>1, <1>2, <1>3, <1>5, BrowserUnchanged DEF browser
  <2>2. CASE b # Unset /\ b.created
    <3>1. Close([s EXCEPT !.bind[w].uncertain = TRUE]) BY <1>1, <1>5, <2>2
    <3> QED BY <1>3, <2>1, <2>2, <3>1, Closed, DoubtedSound
  <2>3. CASE ~(b # Unset /\ b.created)
    <3>1. Close([s EXCEPT !.bind[w] = Unset]) BY <1>1, <1>5, <2>3
    <3>2. opened'[w] = 1 => s.abandoned[w] # {} BY <1>3, <2>3 DEF Sound, TabJournaled
    <3>3. Sound([s EXCEPT !.bind[w] = Unset], inputsSent', opened', born') BY <1>3, <3>2, Rebound
    <3> QED BY <1>3, <2>1, <3>1, <3>3, Closed
  <2> QED BY <2>2, <2>3
<1> QED BY <1>4, <1>5

LEMMA KeepOpenKeeps == ASSUME BridgeInv, NEW w \in Workflows, KeepOpen(w) PROVE BridgeInv'
<1>1. PICK s \in Loaded :
        Locked(s) /\ Close(s) /\ lapsed' = IF s.bind[w] = Unset THEN lapsed ELSE lapsed \ {w}
  BY DEF KeepOpen
<1>2. UNCHANGED browser /\ UNCHANGED <<born, opened>> BY DEF KeepOpen, browser
<1>3. /\ HistoryOK' /\ Sound(s, inputsSent', opened', born') /\ BrowserOK /\ lapsed \subseteq Workflows
  BY <1>1, <1>2, Started
<1>4. BrowserOK' /\ lapsed' \subseteq Workflows BY <1>1, <1>2, <1>3, BrowserUnchanged
<1> QED BY <1>1, <1>3, <1>4, Closed

LEMMA RecoverKeeps == ASSUME BridgeInv, NEW w \in Workflows, Recover(w) PROVE BridgeInv'
<1>1. PICK s \in Loaded :
        LET b == s.bind[w] IN
        /\ Locked(s)
        /\ \/ /\ b # Unset
              /\ Renew(w)
              /\ Close([s EXCEPT !.bind[w].uncertain = FALSE, !.bind[w].expired = FALSE])
           \/ /\ UNCHANGED lapsed
              /\ Close([s EXCEPT !.bind[w] = Unset,
                                 !.abandoned[w] = @ \cup (IF b = Unset THEN {} ELSE {b.tab})])
  BY DEF Recover
<1>2. UNCHANGED browser /\ UNCHANGED <<born, opened>> BY DEF Recover, browser
<1>3. /\ HistoryOK' /\ Sound(s, inputsSent', opened', born') /\ BrowserOK /\ lapsed \subseteq Workflows
  BY <1>1, <1>2, Started
<1>4. BrowserOK' /\ lapsed' \subseteq Workflows BY <1>1, <1>2, <1>3, BrowserUnchanged DEF Renew
<1>5. CASE /\ s.bind[w] # Unset
           /\ Close([s EXCEPT !.bind[w].uncertain = FALSE, !.bind[w].expired = FALSE])
  BY <1>3, <1>4, <1>5, Closed, DoubtedSound
<1> DEFINE r == [s EXCEPT !.bind[w] = Unset,
                  !.abandoned[w] = @ \cup (IF s.bind[w] = Unset THEN {} ELSE {s.bind[w].tab})]
<1>6. CASE Close(r)
  <2>1. Sound(r, inputsSent', opened', born') BY <1>3, SetAside
  <2> HIDE DEF r
  <2> QED BY <1>3, <1>4, <1>6, <2>1, Closed
<1> QED BY <1>1, <1>5, <1>6

LEMMA StatusKeeps == ASSUME BridgeInv, Status PROVE BridgeInv'
<1>1. PICK looked \in Looks : \E s \in LoadedAfter(looked) : Locked(s) /\ Close(s) BY DEF Status
<1>0. PICK s \in LoadedAfter(looked) : Locked(s) /\ Close(s) BY <1>1
<1>2. UNCHANGED browser /\ UNCHANGED <<born, opened, lapsed>> BY DEF Status, browser
<1>3. inputsSent' \in [ActionKeys -> {0, 1}] /\ Sound(s, inputsSent', opened, born) BY <1>0, LoadedAfterSound
<1>4. BrowserOK' /\ lapsed' \subseteq Workflows /\ HistoryOK' /\ Sound(s, inputsSent', opened', born')
  BY <1>2, <1>3, BrowserUnchanged DEF BridgeInv, FilesOK, HistoryOK
<1> QED BY <1>0, <1>4, Closed
------------------------------------------------------------------------------
(* The rest of a command.                                                  *)

\* What the invariant says of a command under way, its file being what it holds.
LEMMA UnderWay ==
  ASSUME BridgeInv
  PROVE  /\ BrowserOK /\ HistoryOK /\ file \in States /\ working = file /\ lapsed \subseteq Workflows
         /\ Sound(file, inputsSent, opened, born)
         /\ Sound(working, inputsSent, opened, born)
BY DEF BridgeInv, FilesOK

LEMMA SendActionKeeps == ASSUME BridgeInv, SendAction PROVE BridgeInv'
<1>1. cmd \in KeyCommands /\ cmd.at = "reserved"
  BY CommandFacts DEF SendAction, BridgeInv
<1>2. UNCHANGED browser /\ UNCHANGED <<file, working, lapsed, opened>> BY DEF SendAction
<1>3. cmd' = [cmd EXCEPT !.at = "sent"] /\ inputsSent' = [inputsSent EXCEPT ![cmd.key] = @ + 1]
  BY DEF SendAction
<1>4. cmd.key \in ActionKeys /\ file.keys[cmd.key] # Unset /\ inputsSent[cmd.key] = 0
  BY <1>1 DEF BridgeInv, CmdInv, KeyCommands
<1>5. cmd' \in KeyCommands /\ cmd'.key = cmd.key /\ cmd'.at = "sent"
  BY <1>1, <1>3 DEF KeyCommands
<1>6. inputsSent' \in [ActionKeys -> {0, 1}] /\ \A k \in ActionKeys : inputsSent'[k] = IF k = cmd.key THEN 1 ELSE inputsSent[k]
  BY <1>3, <1>4, UnderWay DEF HistoryOK
<1>7. HistoryOK' BY <1>2, <1>6, UnderWay DEF HistoryOK
<1>8. BrowserOK' BY <1>2, UnderWay, BrowserUnchanged
<1>9. FilesOK' BY <1>2, <1>5 DEF BridgeInv, FilesOK
<1>10. KeyJournaled(file', inputsSent')
  BY <1>2, <1>4, <1>6, UnderWay DEF Sound, KeyJournaled
<1>11. Sound(file, inputsSent, opened, born)'
  BY <1>2, <1>10, UnderWay DEF Sound, TabJournaled, OneHolderIn, Known, Holds, browser
<1>12. cmd' \notin TabCommands BY <1>4, <1>5, Sentinel DEF TabCommands
<1>13. CmdInv' BY <1>2, <1>4, <1>5, <1>12 DEF CmdInv
<1> QED BY <1>7, <1>8, <1>9, <1>11, <1>13 DEF BridgeInv

LEMMA ConfirmActionKeeps == ASSUME BridgeInv, ConfirmAction PROVE BridgeInv'
<1>1. cmd \in KeyCommands BY CommandFacts DEF ConfirmAction, BridgeInv
<1>2. PICK state \in Outcomes(cmd.op) : Close([working EXCEPT !.keys[cmd.key].state = state])
  BY DEF ConfirmAction
<1> DEFINE k == cmd.key
           e == [working.keys[k] EXCEPT !.state = state]
<1>3. k \in ActionKeys /\ working.keys[k] # Unset /\ working \in States
  BY <1>1, UnderWay DEF BridgeInv, CmdInv, KeyCommands
<1>4. working.keys[k] \in Entries BY <1>3 DEF States
<1>5. e \in Entries BY <1>2, <1>4 DEF Entries, Outcomes
<1>6. [working EXCEPT !.keys[k].state = state] = [working EXCEPT !.keys[k] = e]
  BY <1>3, <1>4 DEF States, Entries
<1> HIDE DEF k, e
<1>7. Sound([working EXCEPT !.keys[k] = e], inputsSent, opened, born) BY <1>3, <1>5, UnderWay, Journaled
<1>8. UNCHANGED browser /\ UNCHANGED <<lapsed, opened, inputsSent>> BY DEF ConfirmAction, bridgeHistory
<1>9. BrowserOK' /\ HistoryOK' /\ lapsed' \subseteq Workflows /\ born' = born
  BY <1>8, UnderWay, BrowserUnchanged DEF HistoryOK, browser
<1>10. Close([working EXCEPT !.keys[k] = e]) BY <1>2, <1>6 DEF k
<1> QED BY <1>7, <1>8, <1>9, <1>10, Closed

LEMMA SendShortcutKeeps == ASSUME BridgeInv, SendShortcut PROVE BridgeInv'
<1>1. cmd \in TabCommands /\ cmd.at = "reserved"
  BY CommandFacts DEF SendShortcut, BridgeInv
<1>2. UNCHANGED <<firefox, born, file, working, lapsed, inputsSent>> BY DEF SendShortcut
<1>3. cmd' = [cmd EXCEPT !.at = "sent"] BY DEF SendShortcut
<1>4. /\ cmd' \in TabCommands /\ cmd'.op = cmd.op /\ cmd'.workflow = cmd.workflow
      /\ cmd'.seen = cmd.seen /\ cmd'.at = "sent"
  BY <1>1, <1>3 DEF TabCommands
<1> DEFINE w == cmd.workflow
           b == file.bind[w]
<1>5. /\ w \in Workflows /\ b # Unset /\ b.created
      /\ cmd.op = "release" => b.tab # Unset
      /\ cmd.op = "acquire" =>
           /\ b.tab = Unset /\ opened[w] = 0
           /\ \A t \in firefox.open, v \in Workflows :
                Holds(file, v, t) \/ t \in file.abandoned[v] => t \in cmd.seen.open
  BY <1>1 DEF BridgeInv, CmdInv, TabCommands
<1>6. shortcuts' \in Seq({"t", "w"}) BY UnderWay DEF SendShortcut, BrowserOK
<1>7. BrowserOK' BY <1>2, <1>6, UnderWay DEF BrowserOK
<1>8. FilesOK' BY <1>2, <1>4 DEF BridgeInv, FilesOK
<1>9. opened' = IF cmd.op = "acquire" THEN [opened EXCEPT ![w] = 1] ELSE opened
  <2>1. CASE cmd.op = "acquire"
    <3>1. opened' = [opened EXCEPT ![w] = opened[w] + 1] BY <2>1 DEF SendShortcut
    <3>2. opened[w] + 1 = 1 BY <1>5, <2>1
    <3> QED BY <2>1, <3>1, <3>2
  <2>2. CASE cmd.op # "acquire" BY <2>2 DEF SendShortcut
  <2> QED BY <2>1, <2>2
<1>10. HistoryOK' BY <1>2, <1>9, UnderWay DEF HistoryOK
<1>11. /\ opened' \in [Workflows -> {0, 1}]
       /\ \A v \in Workflows : opened'[v] = IF v = w /\ cmd.op = "acquire" THEN 1 ELSE opened[v]
  BY <1>5, <1>9, UnderWay DEF HistoryOK
<1> HIDE DEF w, b
<1>12. TabJournaled(file, opened') BY <1>5, <1>11, UnderWay DEF Sound, TabJournaled, b
<1>13. Sound(file, inputsSent, opened, born)'
  BY <1>2, <1>12, UnderWay DEF Sound, TabJournaled, KeyJournaled, OneHolderIn, Known, Holds
<1>14. cmd' \notin KeyCommands BY <1>4, Sentinel DEF KeyCommands, TabCommands
<1>15. cmd.op = "acquire" => opened'[w] = 1 BY <1>5, <1>11
<1>16. CmdInv' BY <1>2, <1>4, <1>5, <1>14, <1>15 DEF CmdInv, Holds, w, b
<1> QED BY <1>7, <1>8, <1>10, <1>13, <1>16 DEF BridgeInv

LEMMA ObserveTabKeeps == ASSUME BridgeInv, ObserveTab PROVE BridgeInv'
<1> DEFINE w == cmd.workflow
           t == firefox.selected
           f == Fresh(t, TRUE)
<1>1. cmd \in TabCommands /\ cmd.at = "sent" /\ cmd.op = "acquire"
  BY CommandFacts DEF ObserveTab, BridgeInv
<1>2. UNCHANGED browser /\ UNCHANGED <<opened, inputsSent>> /\ lapsed' = lapsed \ {w}
      /\ Close([working EXCEPT !.bind[w] = f])
  BY DEF ObserveTab, Renew, bridgeHistory
<1>3. t \in Tabs /\ t <= born /\ t \in firefox.open \ cmd.seen.open
  BY UnderWay, Sentinel DEF ObserveTab, BrowserOK, Tabs
<1>4. /\ w \in Workflows /\ opened[w] = 1
      /\ \A v \in Workflows : t \notin working.abandoned[v] /\ ~Holds(working, v, t)
  BY <1>1, <1>3, UnderWay DEF BridgeInv, CmdInv, TabCommands
<1>5. f \in Bindings /\ f # Unset /\ f.tab = t /\ f.created BY <1>3, FreshFacts
<1> HIDE DEF w, t, f
<1>6. Sound([working EXCEPT !.bind[w] = f], inputsSent, opened, born)
  BY <1>3, <1>4, <1>5, UnderWay, Rebound
<1>7. BrowserOK' /\ HistoryOK' /\ lapsed' \subseteq Workflows /\ born' = born
  BY <1>2, UnderWay, BrowserUnchanged DEF HistoryOK, browser
<1> QED BY <1>2, <1>6, <1>7, Closed

LEMMA ObserveClosureKeeps == ASSUME BridgeInv, ObserveClosure PROVE BridgeInv'
<1> DEFINE w == cmd.workflow
           r == [working EXCEPT !.bind[w] = Unset]
<1>1. cmd \in TabCommands /\ cmd.op = "release"
  BY CommandFacts DEF ObserveClosure, BridgeInv
<1>2. UNCHANGED browser /\ UNCHANGED <<lapsed, inputsSent>>
      /\ opened' = [opened EXCEPT ![w] = @ - 1] /\ Close(r)
  BY DEF ObserveClosure
<1>3. w \in Workflows /\ working.bind[w] # Unset /\ working.bind[w].created /\ working.bind[w].tab # Unset
  BY <1>1, UnderWay DEF BridgeInv, CmdInv, TabCommands
<1>4. opened[w] = 1 BY <1>3, UnderWay DEF Sound, TabJournaled
<1> HIDE DEF w
<1>5. /\ opened' \in [Workflows -> {0, 1}]
      /\ \A v \in Workflows : opened'[v] = IF v = w THEN 0 ELSE opened[v]
  BY <1>2, <1>3, <1>4, UnderWay DEF HistoryOK
<1>6. working \in States BY UnderWay
<1>7. /\ r \in States /\ r.keys = working.keys /\ r.abandoned = working.abandoned
      /\ \A v \in Workflows : r.bind[v] = IF v = w THEN Unset ELSE working.bind[v]
  BY <1>3, <1>6 DEF States
<1> HIDE DEF r
<1>8. KeyJournaled(r, inputsSent) BY <1>7, UnderWay DEF Sound, KeyJournaled
<1>9. TabJournaled(r, opened') BY <1>3, <1>5, <1>7, UnderWay DEF Sound, TabJournaled
<1>10. \A t \in Tabs, v \in Workflows : Holds(r, v, t) => Holds(working, v, t) BY <1>7 DEF Holds
<1>11. OneHolderIn(r) /\ Known(r, born)
  BY <1>7, <1>10, UnderWay DEF Sound, OneHolderIn, Known
<1>12. Sound(r, inputsSent, opened', born) BY <1>7, <1>8, <1>9, <1>11 DEF Sound
<1>13. BrowserOK' /\ HistoryOK' /\ lapsed' \subseteq Workflows /\ born' = born
  BY <1>2, <1>5, UnderWay, BrowserUnchanged DEF HistoryOK, browser
<1> QED BY <1>2, <1>12, <1>13, Closed

LEMMA FailKeeps == ASSUME BridgeInv, FailCommand \/ Kill PROVE BridgeInv'
<1>1. Close(working) /\ UNCHANGED browser /\ UNCHANGED <<lapsed, opened, inputsSent>>
  BY UnderWay DEF FailCommand, Kill, Close, bridgeHistory
<1>2. BrowserOK' /\ HistoryOK' /\ lapsed' \subseteq Workflows /\ born' = born
  BY <1>1, UnderWay, BrowserUnchanged DEF HistoryOK, browser
<1> QED BY <1>1, <1>2, UnderWay, Closed
------------------------------------------------------------------------------
(* Firefox, its owner and the clock: tabs are new, or were there before.   *)

\* While the files and the command stay, the browser may do what it likes to
\* tabs, as long as one that appears has never been seen.
LEMMA BrowserMoves ==
  ASSUME BridgeInv, BrowserOK', UNCHANGED <<file, working, cmd, lapsed, opened, inputsSent>>,
         born \in Nat, born' \in Nat, born <= born',
         \A t \in firefox'.open : t \in firefox.open \/ t > born
  PROVE  BridgeInv'
<1>1. FilesOK' /\ HistoryOK' BY DEF BridgeInv, FilesOK, HistoryOK
<1>2. \A t \in Tabs, w \in Workflows : Holds(file, w, t) \/ t \in file.abandoned[w] => t <= born
  BY UnderWay DEF Sound, Known
<1>3. Known(file, born')
  <2> SUFFICES ASSUME NEW t \in Tabs, NEW w \in Workflows, Holds(file, w, t) \/ t \in file.abandoned[w]
               PROVE  t <= born'
    BY DEF Known
  <2>1. t \in Nat /\ t <= born BY <1>2, Sentinel
  <2> QED BY <2>1
<1>4. Sound(file, inputsSent, opened, born)'
  BY <1>3, UnderWay DEF Sound, TabJournaled, KeyJournaled, OneHolderIn, Known, Holds
<1>5. firefox'.open \subseteq Tabs BY DEF BrowserOK
<1>6. \A t \in firefox'.open, w \in Workflows :
        Holds(file, w, t) \/ t \in file.abandoned[w] => t \in firefox.open
  <2> SUFFICES ASSUME NEW t \in firefox'.open, NEW w \in Workflows,
                      Holds(file, w, t) \/ t \in file.abandoned[w]
               PROVE  t \in firefox.open
    OBVIOUS
  <2>1. t \in Tabs /\ t \in Nat BY <1>5, Sentinel
  <2>2. t <= born BY <1>2, <2>1
  <2> QED BY <2>1, <2>2
<1>7. CmdInv' BY <1>6 DEF BridgeInv, CmdInv, Holds
<1> QED BY <1>1, <1>4, <1>7 DEF BridgeInv

LEMMA OpenTabKeeps ==
  ASSUME BrowserOK, OpenTab, shortcuts' \in Seq({"t", "w"})
  PROVE  /\ BrowserOK' /\ born \in Nat /\ born' \in Nat /\ born <= born'
         /\ \A t \in firefox'.open : t \in firefox.open \/ t > born
<1>1. /\ born \in Nat /\ born >= 1 /\ born <= MaxTabs /\ born' = born + 1 /\ born < MaxTabs
      /\ firefox' = [firefox EXCEPT !.open = @ \cup {born'}, !.blank = @ \cup {born'}, !.selected = born']
      /\ MaxTabs \in Nat
  BY UiBridgeAssumption DEF BrowserOK, OpenTab, Tabs
<1>2. born' \in Tabs /\ Tabs \subseteq Nat BY <1>1 DEF Tabs
<1>3. firefox.first \in Tabs /\ firefox.open \subseteq firefox.first .. born
      /\ firefox.blank \subseteq firefox.open /\ 1 \in Tabs
      /\ firefox.selected \in firefox.open
  BY <1>1 DEF BrowserOK, Tabs
<1>4. firefox.first <= born BY <1>1, <1>2, <1>3
<1>5. firefox.first .. born \subseteq firefox.first .. born' /\ born' \in firefox.first .. born'
  BY <1>1, <1>2, <1>3, <1>4
<1>6. /\ firefox'.first = firefox.first /\ firefox'.open = firefox.open \cup {born'}
      /\ firefox'.blank = firefox.blank \cup {born'} /\ firefox'.selected = born'
      /\ firefox' \in [first : Tabs, open : SUBSET Tabs, blank : SUBSET Tabs, selected : Tabs]
  BY <1>1, <1>2 DEF BrowserOK
<1>7. BrowserOK' BY <1>2, <1>3, <1>5, <1>6 DEF BrowserOK
<1> QED BY <1>1, <1>6, <1>7

LEMMA CloseTabKeeps ==
  ASSUME BrowserOK, NEW c \in Tabs, CloseTab(c), shortcuts' \in Seq({"t", "w"})
  PROVE  /\ BrowserOK' /\ born \in Nat /\ born' \in Nat /\ born <= born'
         /\ \A t \in firefox'.open : t \in firefox.open \/ t > born
<1>1. PICK s \in firefox.open \ {c} :
        firefox' = [firefox EXCEPT !.open = @ \ {c}, !.blank = @ \ {c}, !.selected = s]
  BY DEF CloseTab
<1>2. born' = born /\ born \in Nat /\ s \in Tabs BY Sentinel DEF CloseTab, BrowserOK
<1>3. /\ firefox'.first = firefox.first /\ firefox'.open = firefox.open \ {c}
      /\ firefox'.blank = firefox.blank \ {c} /\ firefox'.selected = s
      /\ firefox' \in [first : Tabs, open : SUBSET Tabs, blank : SUBSET Tabs, selected : Tabs]
  BY <1>1, <1>2 DEF BrowserOK
<1>4. BrowserOK' BY <1>1, <1>2, <1>3 DEF BrowserOK
<1> QED BY <1>2, <1>3, <1>4

LEMMA HandleShortcutKeeps == ASSUME BridgeInv, HandleShortcut \/ LoseShortcut PROVE BridgeInv'
<1>1. BrowserOK BY UnderWay
<1>2. shortcuts' \in Seq({"t", "w"})
  <2>1. shortcuts \in Seq({"t", "w"}) /\ shortcuts # <<>> /\ shortcuts' = Tail(shortcuts)
    BY <1>1 DEF HandleShortcut, LoseShortcut, BrowserOK
  <2> QED BY <2>1
<1>3. UNCHANGED <<file, working, cmd, lapsed, opened, inputsSent>> BY DEF HandleShortcut, LoseShortcut, bridgeHistory
<1>4. CASE OpenTab BY <1>1, <1>2, <1>3, <1>4, OpenTabKeeps, BrowserMoves
<1>5. CASE CloseTab(firefox.selected)
  <2>1. firefox.selected \in Tabs BY <1>1 DEF BrowserOK
  <2> QED BY <1>1, <1>2, <1>3, <1>5, <2>1, CloseTabKeeps, BrowserMoves
<1>6. CASE UNCHANGED <<firefox, born>>
  <2>1. BrowserOK' /\ born \in Nat BY <1>1, <1>2, <1>6, Sentinel DEF BrowserOK
  <2> QED BY <1>3, <1>6, <2>1, BrowserMoves
<1> QED BY <1>4, <1>5, <1>6 DEF HandleShortcut, LoseShortcut

LEMMA OwnerActsKeeps == ASSUME BridgeInv, OwnerActs PROVE BridgeInv'
<1>1. BrowserOK BY UnderWay
<1>2. shortcuts' \in Seq({"t", "w"}) BY <1>1 DEF OwnerActs, BrowserOK
<1>3. UNCHANGED <<file, working, cmd, lapsed, opened, inputsSent>> BY DEF OwnerActs, bridgeHistory
<1>4. CASE OpenTab BY <1>1, <1>2, <1>3, <1>4, OpenTabKeeps, BrowserMoves
<1>5. ASSUME NEW t \in firefox.open, CloseTab(t) PROVE BridgeInv'
  <2>1. t \in Tabs BY <1>1 DEF BrowserOK
  <2> QED BY <1>1, <1>2, <1>3, <1>5, <2>1, CloseTabKeeps, BrowserMoves
<1>6. ASSUME NEW t \in firefox.open, firefox' = [firefox EXCEPT !.selected = t], UNCHANGED born
      PROVE  BridgeInv'
  <2>1. BrowserOK' /\ born \in Nat /\ firefox'.open = firefox.open
    BY <1>1, <1>2, <1>6, Sentinel DEF BrowserOK
  <2> QED BY <1>3, <1>6, <2>1, BrowserMoves
<1>7. ASSUME NEW t \in firefox.blank, firefox' = [firefox EXCEPT !.blank = @ \ {t}], UNCHANGED born
      PROVE  BridgeInv'
  <2>1. firefox.blank \ {t} \in SUBSET Tabs BY <1>1 DEF BrowserOK
  <2>2. BrowserOK' /\ born \in Nat /\ firefox'.open = firefox.open
    BY <1>1, <1>2, <1>7, <2>1, Sentinel DEF BrowserOK
  <2> QED BY <1>3, <1>7, <2>2, BrowserMoves
<1> QED BY <1>4, <1>5, <1>6, <1>7 DEF OwnerActs

LEMMA RestartFirefoxKeeps == ASSUME BridgeInv, NewFirefox PROVE BridgeInv'
<1>1. UNCHANGED <<file, working, cmd, lapsed, opened, inputsSent>> BY DEF NewFirefox, bridgeHistory
<1>2. born \in Nat /\ born >= 1 /\ born' = born + 1 /\ born' \in Tabs
  BY UiBridgeAssumption, UnderWay DEF NewFirefox, BrowserOK, Tabs
<1>3. /\ firefox' = [first |-> born', open |-> {born'}, blank |-> {born'}, selected |-> born']
      /\ shortcuts' = <<>>
  BY DEF NewFirefox
<1>4. BrowserOK' BY <1>2, <1>3 DEF BrowserOK
<1> QED BY <1>1, <1>2, <1>3, <1>4, BrowserMoves

LEMMA LapseKeeps == ASSUME BridgeInv, NEW w \in Workflows, Lapse(w) PROVE BridgeInv'
<1>1. UNCHANGED <<firefox, born, shortcuts, file, working, cmd, opened, inputsSent>>
      /\ lapsed' = lapsed \cup {w}
  BY DEF Lapse, browser, bridgeHistory
<1> QED BY <1>1 DEF BridgeInv, BrowserOK, FilesOK, HistoryOK, CmdInv, Sound, KeyJournaled,
                    TabJournaled, OneHolderIn, Known, Holds
------------------------------------------------------------------------------
(* The theorems.                                                           *)

LEMMA InitBridgeInv == BridgeInit => BridgeInv
<1> SUFFICES ASSUME BridgeInit PROVE BridgeInv OBVIOUS
<1>1. 1 \in Tabs BY UiBridgeAssumption DEF Tabs
<1>2. BrowserOK BY <1>1 DEF BridgeInit, BrowserOK
<1>3. /\ file = [bind |-> [w \in Workflows |-> Unset], abandoned |-> [w \in Workflows |-> {}],
                 keys |-> [k \in ActionKeys |-> Unset]]
      /\ working = file /\ cmd = NoCommand /\ lapsed = {}
      /\ opened = [w \in Workflows |-> 0] /\ inputsSent = [k \in ActionKeys |-> 0]
  BY DEF BridgeInit
<1>4. file \in States BY <1>3 DEF States
<1>5. FilesOK /\ HistoryOK BY <1>3, <1>4 DEF FilesOK, HistoryOK
<1>6. Sound(file, inputsSent, opened, born)
  BY <1>3, <1>4 DEF Sound, KeyJournaled, TabJournaled, OneHolderIn, Known, Holds
<1>7. CmdInv BY <1>3, IdleFacts DEF CmdInv
<1> QED BY <1>2, <1>5, <1>6, <1>7 DEF BridgeInv

LEMMA NextBridgeInv == BridgeInv /\ [BridgeNext]_bridgeVars => BridgeInv'
<1> SUFFICES ASSUME BridgeInv, [BridgeNext]_bridgeVars PROVE BridgeInv' OBVIOUS
<1>1. ASSUME NEW w \in Workflows,
             AcquireTab(w) \/ Navigate(w) \/ Release(w) \/ KeepOpen(w) \/ Recover(w)
      PROVE  BridgeInv'
  BY <1>1, AcquireKeeps, NavigateKeeps, ReleaseKeeps, KeepOpenKeeps, RecoverKeeps
<1>2. ASSUME NEW w \in Workflows, NEW k \in ActionKeys, Input(w, k) PROVE BridgeInv'
  BY <1>2, InputKeeps
<1>3. CASE Command BY <1>1, <1>2, <1>3 DEF Command
<1>4. CASE Status BY <1>4, StatusKeeps
<1>5. CASE SendAction BY <1>5, SendActionKeeps
<1>6. CASE ConfirmAction BY <1>6, ConfirmActionKeeps
<1>7. CASE SendShortcut BY <1>7, SendShortcutKeeps
<1>8. CASE ObserveTab BY <1>8, ObserveTabKeeps
<1>9. CASE ObserveClosure BY <1>9, ObserveClosureKeeps
<1>10. CASE FailCommand \/ Kill BY <1>10, FailKeeps
<1>11. CASE HandleShortcut \/ LoseShortcut BY <1>11, HandleShortcutKeeps
<1>12. CASE OwnerActs BY <1>12, OwnerActsKeeps
<1>13. CASE NewFirefox BY <1>13, RestartFirefoxKeeps
<1>14. ASSUME NEW w \in Workflows, Lapse(w) PROVE BridgeInv' BY <1>14, LapseKeeps
<1>15. CASE UNCHANGED bridgeVars
  BY <1>15 DEF bridgeVars, browser, bridgeHistory, BridgeInv, BrowserOK, FilesOK, HistoryOK, CmdInv, Sound,
               KeyJournaled, TabJournaled, OneHolderIn, Known, Holds
<1> QED BY <1>3, <1>4, <1>5, <1>6, <1>7, <1>8, <1>9, <1>10, <1>11, <1>12, <1>13, <1>14, <1>15
        DEF BridgeNext

\* The invariant of the bridge: the file is what a command holds, inputs and
\* tabs are journaled before they are sent, and a tab that appears while a
\* command waits for its own is held by nobody.
THEOREM BridgeInvariant == BridgeSpec => []BridgeInv
BY InitBridgeInv, NextBridgeInv, PTL DEF BridgeSpec

\* State, journal, command and browser keep their types; the file is what the
\* next command reads.
THEOREM TypeCorrect == BridgeSpec => []BridgeTypeOK
<1>1. BridgeInv => BridgeTypeOK
  <2> SUFFICES ASSUME BridgeInv PROVE BridgeTypeOK OBVIOUS
  <2>1. cmd.at \in {"idle", "reserved", "sent"}
    BY DEF BridgeInv, FilesOK, KeyCommands, TabCommands, NoCommand
  <2>2. opened \in [Workflows -> Nat] /\ inputsSent \in [ActionKeys -> Nat] BY UnderWay DEF HistoryOK
  <2> QED BY <2>1, <2>2, UnderWay DEF BridgeTypeOK, BrowserOK, States
<1> QED BY <1>1, BridgeInvariant, PTL

\* An input journaled under an action key is sent at most once, over refused
\* and repeated commands, lapsed leases, restarts of Firefox and commands
\* killed anywhere (command_click, command_type, command_selector_action).
THEOREM InputSafety == BridgeSpec => []KeyedInputOnce
<1>1. BridgeInv => KeyedInputOnce BY DEF BridgeInv, HistoryOK, KeyedInputOnce
<1> QED BY <1>1, BridgeInvariant, PTL

\* No workflow has a second tab opened before the closure of the first was
\* seen, and no tab two holders, whatever the owner of the browser does while
\* a command waits for its tab (_ensure_workflow, command_tabs).
THEOREM TabSafety == BridgeSpec => []TabsAreAccounted
<1>1. BridgeInv => TabsAreAccounted
  <2> SUFFICES ASSUME BridgeInv PROVE TabsAreAccounted OBVIOUS
  <2>1. NoReplacementGrowth BY UnderWay DEF HistoryOK, NoReplacementGrowth
  <2>2. OneHolder BY UnderWay DEF Sound, OneHolderIn, Holds, OneHolder
  <2> QED BY <2>1, <2>2 DEF TabsAreAccounted
<1> QED BY <1>1, BridgeInvariant, PTL

\* What a command finds of a doubtful binding of a tab that was opened for its
\* workflow: the same tab, the same closure, the same doubt.
LEMMA DoubtFoundAfter ==
  ASSUME BridgeInv, NEW looked, NEW s \in LoadedAfter(looked), NEW w \in Workflows,
         file.bind[w] # Unset, file.bind[w].created, file.bind[w].uncertain
  PROVE  /\ s \in States /\ s.bind[w] # Unset /\ s.bind[w].created /\ s.bind[w].uncertain
         /\ s.bind[w].tab = file.bind[w].tab /\ s.bind[w].closing = file.bind[w].closing
<1>1. PICK old \in SUBSET {k \in ActionKeys : file.keys[k] # Unset} : s = Reconciled(file, old, looked)
  BY DEF LoadedAfter
<1>2. file \in States /\ old \in SUBSET ActionKeys BY <1>1 DEF BridgeInv, FilesOK
<1>3. s \in States /\ OnlyDoubts(file.bind[w], s.bind[w])
  BY <1>1, <1>2, ReconciledBinding
<1> QED BY <1>3 DEF OnlyDoubts

LEMMA DoubtFound ==
  ASSUME BridgeInv, NEW s \in Loaded, NEW w \in Workflows,
         file.bind[w] # Unset, file.bind[w].created, file.bind[w].uncertain
  PROVE  /\ s \in States /\ s.bind[w] # Unset /\ s.bind[w].created /\ s.bind[w].uncertain
         /\ s.bind[w].tab = file.bind[w].tab /\ s.bind[w].closing = file.bind[w].closing
BY DoubtFoundAfter DEF Loaded

\* What a command leaves of the binding, whichever workflow it is for.
LEMMA DoubtLeft ==
  ASSUME NEW s \in States, NEW w \in Workflows, s.bind[w] # Unset, s.bind[w].uncertain,
         NEW v \in Workflows
  PROVE  /\ file' = s => file'.bind[w].uncertain
         /\ \A b : v # w /\ file' = [s EXCEPT !.bind[v] = b] => file'.bind[w].uncertain
         /\ s.bind[v] # Unset =>
              /\ file' = [s EXCEPT !.bind[v].uncertain = TRUE] => file'.bind[w].uncertain
              /\ file' = [s EXCEPT !.bind[v].uncertain = TRUE, !.bind[v].closing = TRUE] =>
                   file'.bind[w].uncertain
         /\ \A k, e : file' = [s EXCEPT !.keys[k] = e] => file'.bind[w].uncertain
<1>1. s.bind \in [Workflows -> Bindings \cup {Unset}] BY DEF States
<1>2. s.bind[v] # Unset => s.bind[v] \in Bindings BY <1>1
<1>3. CASE v # w BY <1>1, <1>3 DEF States
<1>4. CASE v = w
  <2>1. s.bind[w] \in Bindings BY <1>1
  <2>2. file' = [s EXCEPT !.bind[w].uncertain = TRUE] => file'.bind[w].uncertain
    BY <1>1, <2>1 DEF States, Bindings
  <2>3. file' = [s EXCEPT !.bind[w].uncertain = TRUE, !.bind[w].closing = TRUE] =>
          file'.bind[w].uncertain
    BY <1>1, <2>1 DEF States, Bindings
  <2>4. \A k, e : file' = [s EXCEPT !.keys[k] = e] => file'.bind[w].uncertain
    BY DEF States
  <2> QED BY <1>4, <2>2, <2>3, <2>4
<1> QED BY <1>3, <1>4

LEMMA BindDoubts ==
  ASSUME NEW s \in States, NEW w \in Workflows, s.bind[w] # Unset, s.bind[w].uncertain,
         NEW v \in Workflows, NEW mayOpen, Bind(s, v, mayOpen)
  PROVE  file'.bind[w].uncertain
<1>1. CASE s.bind[v] # Unset BY <1>1, DoubtLeft DEF Bind, Close
<1>2. CASE s.bind[v] = Unset
  <2>1. v # w BY <1>2
  <2>2. file' = s \/ \E b : file' = [s EXCEPT !.bind[v] = b]
    BY <1>2 DEF Bind, Close, SaveFirst
  <2> QED BY <2>1, <2>2, DoubtLeft
<1> QED BY <1>1, <1>2

LEMMA DoubtStays ==
  ASSUME BridgeInv, NEW w \in Workflows, NEW v \in Workflows,
         file.bind[w] # Unset, file.bind[w].created, file.bind[w].uncertain,
         \/ AcquireTab(v) \/ Navigate(v) \/ Release(v) \/ KeepOpen(v) \/ Status
         \/ \E k \in ActionKeys : Input(v, k)
  PROVE  file'.bind[w] = Unset \/ file'.bind[w].uncertain
<1>1. \A s \in Loaded : s \in States /\ s.bind[w] # Unset /\ s.bind[w].created /\ s.bind[w].uncertain
  BY DoubtFound
<1>2. CASE AcquireTab(v) \/ Navigate(v)
  <2>1. PICK s \in Loaded : Bind(s, v, MayOpen(s, v)) \/ Bind(s, v, FALSE)
    BY <1>2 DEF AcquireTab, Navigate
  <2> QED BY <1>1, <2>1, BindDoubts
<1>3. CASE Release(v)
  <2>1. PICK s \in Loaded :
          \/ s.bind[v] # Unset /\ file' = [s EXCEPT !.bind[v].uncertain = TRUE, !.bind[v].closing = TRUE]
          \/ s.bind[v] # Unset /\ file' = [s EXCEPT !.bind[v].uncertain = TRUE]
          \/ file' = [s EXCEPT !.bind[v] = Unset] /\ ~(s.bind[v] # Unset /\ s.bind[v].created)
    BY <1>3 DEF Release, Close, SaveFirst
  <2>2. s \in States /\ s.bind[w] # Unset /\ s.bind[w].created /\ s.bind[w].uncertain
    BY <1>1
  <2> QED BY <2>1, <2>2, DoubtLeft
<1>4. CASE KeepOpen(v)
  <2>1. PICK s \in Loaded : file' = s BY <1>4 DEF KeepOpen, Close
  <2> QED BY <1>1, <2>1, DoubtLeft
<1>6. CASE Status
  <2>1. \E looked \in Looks : file' \in LoadedAfter(looked) BY <1>6 DEF Status, Close
  <2> QED BY <2>1, DoubtFoundAfter
<1>5. ASSUME NEW k \in ActionKeys, Input(v, k) PROVE file'.bind[w].uncertain
  <2>1. PICK s \in Loaded : file' = s
           \/ \E e : file' = [s EXCEPT !.keys[k] = e]
    BY <1>5 DEF Input, Click, Type, SelectorAction, SendOnce, Close, SaveFirst
  <2> QED BY <1>1, <2>1, DoubtLeft
<1> QED BY <1>2, <1>3, <1>4, <1>5, <1>6

\* A recovery either takes the binding away, or meets every condition of the
\* property.
LEMMA RecoverClears ==
  ASSUME BridgeInv, NEW w \in Workflows, NEW v \in Workflows, Recover(v),
         file.bind[w] # Unset, file.bind[w].created, file.bind[w].uncertain,
         file'.bind[w] # Unset, ~file'.bind[w].uncertain
  PROVE  /\ file'.bind[w].tab = file.bind[w].tab /\ file.bind[w].tab \in firefox.open
         /\ ~file.bind[w].closing
         /\ \A k \in ActionKeys : file'.keys[k] # Unset /\ file'.keys[k].workflow = w =>
              file'.keys[k].state = "delivered"
<1> DEFINE Cleared(s) == [s EXCEPT !.bind[v].uncertain = FALSE, !.bind[v].expired = FALSE]
           Aside(s, gone) == [s EXCEPT !.bind[v] = Unset, !.abandoned[v] = @ \cup gone]
<1>1. PICK s \in Loaded :
        \/ /\ s.bind[v] # Unset /\ ~s.bind[v].closing /\ ~Doubtful(s, v) /\ Matches(s.bind[v]) # {}
           /\ file' = Cleared(s)
        \/ file' = Aside(s, IF s.bind[v] = Unset THEN {} ELSE {s.bind[v].tab})
  BY DEF Recover, Close
<1>2. /\ s \in States /\ s.bind[w] # Unset /\ s.bind[w].uncertain
      /\ s.bind[w].tab = file.bind[w].tab /\ s.bind[w].closing = file.bind[w].closing
  BY DoubtFound
<1>3. s.bind \in [Workflows -> Bindings \cup {Unset}] /\ s.bind[w] \in Bindings BY <1>2 DEF States
<1>4. \A gone : file' = Aside(s, gone) => file'.bind[w] = IF v = w THEN Unset ELSE s.bind[w]
  BY <1>2, <1>3 DEF States
<1>5. /\ s.bind[v] # Unset /\ ~s.bind[v].closing /\ ~Doubtful(s, v) /\ Matches(s.bind[v]) # {}
      /\ file' = Cleared(s)
  BY <1>1, <1>2, <1>4
<1>6. CASE v # w
  <2>1. file'.bind[w] = s.bind[w] BY <1>2, <1>3, <1>5, <1>6 DEF States
  <2> QED BY <1>2, <2>1
<1>7. CASE v = w
  <2>1. file'.bind[w].tab = s.bind[w].tab /\ file'.keys = s.keys
    BY <1>2, <1>3, <1>5, <1>7 DEF States, Bindings
  <2>2. s.bind[w].tab \in firefox.open BY <1>5, <1>7 DEF Matches
  <2>3. \A k \in ActionKeys : s.keys[k] # Unset /\ s.keys[k].workflow = w => s.keys[k].state = "delivered"
    BY <1>5, <1>7 DEF Doubtful
  <2> QED BY <1>2, <1>5, <1>7, <2>1, <2>2, <2>3
<1> QED BY <1>6, <1>7

\* Doubt about a tab that was opened for a workflow is removed only by the
\* recovery of that tab, with no input of the workflow unconfirmed: not by a
\* lapsed lease, a restarted Firefox, or any command of any workflow
\* (_reconcile_state, command_tabs).
THEOREM DoubtSafety == BridgeSpec => DoubtRemovedByRecovery
<1> DEFINE Kept(w) ==
      LET b == file.bind[w]
          c == file'.bind[w]
      IN b # Unset /\ c # Unset /\ cmd = NoCommand /\ b.created /\ b.uncertain /\ ~c.uncertain =>
           /\ c.tab = b.tab /\ b.tab \in firefox.open /\ ~b.closing
           /\ \A k \in ActionKeys : LET e == file'.keys[k] IN
                e # Unset /\ e.workflow = w => e.state = "delivered"
<1>1. ASSUME BridgeInv, [BridgeNext]_bridgeVars, NEW w \in Workflows PROVE Kept(w)
  <2> SUFFICES ASSUME file.bind[w] # Unset, file'.bind[w] # Unset, cmd = NoCommand,
                      file.bind[w].created, file.bind[w].uncertain, ~file'.bind[w].uncertain
               PROVE  /\ file'.bind[w].tab = file.bind[w].tab /\ file.bind[w].tab \in firefox.open
                      /\ ~file.bind[w].closing
                      /\ \A k \in ActionKeys : file'.keys[k] # Unset /\ file'.keys[k].workflow = w =>
                           file'.keys[k].state = "delivered"
    OBVIOUS
  <2>1. cmd.at = "idle" BY DEF NoCommand
  <2>2. file' # file OBVIOUS
  <2>3. PICK v \in Workflows :
          \/ AcquireTab(v) \/ Navigate(v) \/ Release(v) \/ KeepOpen(v) \/ Recover(v) \/ Status
          \/ \E k \in ActionKeys : Input(v, k)
    BY <2>1, <2>2, <1>1 DEF BridgeNext, Command, SendAction, ConfirmAction, SendShortcut, ObserveTab, ObserveClosure,
       FailCommand, Kill, HandleShortcut, LoseShortcut, OwnerActs, NewFirefox, Lapse, bridgeVars
  <2>4. CASE Recover(v) BY <2>4, <1>1, RecoverClears
  <2>5. ASSUME NEW k \in ActionKeys, Input(v, k) PROVE FALSE BY <2>5, <1>1, DoubtStays
  <2> QED BY <2>3, <2>4, <2>5, <1>1, DoubtStays
<1>2. BridgeInv /\ [BridgeNext]_bridgeVars => \A w \in Workflows : Kept(w) BY <1>1
<1>3. BridgeInv /\ [BridgeNext]_bridgeVars => [\A w \in Workflows : Kept(w)]_bridgeVars BY <1>2
<1>4. BridgeSpec => [][\A w \in Workflows : Kept(w)]_bridgeVars
  BY <1>3, BridgeInvariant, PTL DEF BridgeSpec
<1> QED BY <1>4 DEF DoubtRemovedByRecovery
==============================================================================
