------------------------ MODULE FirefoxWindows_proofs ------------------------
(***************************************************************************)
(* Proofs about FirefoxWindows for every set of scopes and action keys,    *)
(* any number of windows, controller and Firefox processes.                *)
(***************************************************************************)
EXTENDS FirefoxWindows, TLAPS

\* The creation a scope asked for last, and those that may show or open a window.
Current(s, a) == [scope |-> s, n |-> a[s]]
Existing == wire \cup {creator[w] : w \in tree}

\* What a record says of its scope s, of which a[s] creations were sent and
\* l[s] abandoned, when e may show or open a window and m made the windows.
RecordOK(r, s, a, l, e, m) ==
  /\ r.state \in {"none", "recovery_ready"} => a[s] = l[s]
  /\ r.state \in {"none", "recovery_ready", "retired"} => r.context = None
  /\ r.state \in {"create_failed", "closed"} =>
       \A c \in e : c \in Creations /\ c.scope = s => c.n <= l[s]
  /\ r.context # None => m[r.context] = Current(s, a) /\ a[s] > l[s]

\* A journal that is true to the past: h[k] deliveries of key k among it.
TrueTo(j, a, l, e, m, h) ==
  /\ \A s \in Scopes : RecordOK(j.windows[s], s, a, l, e, m)
  /\ \A k \in Keys \ LegacyKeys : h[k] = 1 => j.actions[k] # "none"

Shaped(j) ==
  /\ j \in Journals
  /\ j.controller.state # "none" => j.controller.epoch # 0
  /\ \A s \in Scopes : j.windows[s].state \in {"open", "closing"} => j.windows[s].context # None

\* The process and Firefox.
ProcessOK ==
  /\ epoch \in Epochs \ {0}
  /\ orphaned \in BOOLEAN /\ connected \in BOOLEAN /\ session \in BOOLEAN
  /\ pending \in Creations \cup {None}
  /\ reply \in Windows \cup {None, Rejected}
  /\ starts \in Epochs /\ gen \in 1 .. MaxNative
  /\ terminated \subseteq Scopes

\* A recorded session is of this Firefox process only in this generation.
SessionOK ==
  /\ mem.controller.gen <= gen /\ disk.controller.gen <= gen
  /\ Resumable(mem) => mem.controller.epoch = epoch
  /\ connected => session /\ Resumable(mem)

Counted ==
  /\ sent \in [Scopes -> Nat] /\ granted \in [Scopes -> Nat] /\ abandoned \in [Scopes -> Nat]
  /\ \A s \in Scopes :
       abandoned[s] <= granted[s] /\ sent[s] \in {abandoned[s], abandoned[s] + 1}
  /\ hits \in [Keys -> {0, 1}]

\* A creation opens one window, and none while it is on its way.
CreationsOK ==
  /\ wire \subseteq Creations /\ tree \subseteq Windows
  /\ creator \in [Windows -> Creations \cup {None, User}]
  /\ \A c \in wire : c.n <= sent[c.scope] /\ \A w \in Windows : creator[w] # c
  /\ \A w \in Windows : creator[w] \in Creations =>
       /\ creator[w].n <= sent[creator[w].scope]
       /\ \A v \in Windows : creator[v] = creator[w] => v = w

\* The creation without a receipt, and the reply to it.
ReceiptOK ==
  /\ pending # None =>
       /\ pc \in {"await", "idle"} /\ connected
       /\ pending = Current(pending.scope, sent) /\ sent[pending.scope] > abandoned[pending.scope]
       /\ mem.windows[pending.scope].state = "creating"
  /\ pending = None => reply = None
  /\ reply = Rejected => pending \notin wire /\ \A w \in Windows : creator[w] # pending
  /\ reply \in Windows => creator[reply] = pending

\* What an operation that has saved its reservation relies on.
PlaceOK ==
  /\ pc \in {"startup", "down", "idle", "session", "ready", "create", "await", "finish",
             "input", "confirm", "close", "closed"}
  /\ scope \in Scopes \cup {None} /\ key \in Keys \cup {None}
  /\ pc \in {"create", "await", "finish", "input", "confirm", "close", "closed"} => scope \in Scopes
  /\ pc \in {"input", "confirm"} => key \in Keys \ LegacyKeys /\ mem.actions[key] # "none"
  /\ pc = "input" => hits[key] = 0
  /\ pc \in {"startup", "down", "session", "ready"} => ~connected
  /\ pc \notin {"down", "idle"} => mem = disk
  /\ pc = "create" =>
       /\ mem.windows[scope].state = "creating" /\ mem.windows[scope].context = None
       /\ sent[scope] = abandoned[scope]

\* A process that a failed grant ends has a stale journal, and never uses it.
JournalsOK ==
  /\ Shaped(mem) /\ Shaped(disk)
  /\ TrueTo(disk, sent, abandoned, Existing, creator, hits)
  /\ pc # "down" => TrueTo(mem, sent, abandoned, Existing, creator, hits)

\* The inductive invariant.
WindowInv ==
  ProcessOK /\ SessionOK /\ Counted /\ CreationsOK /\ ReceiptOK /\ PlaceOK /\ JournalsOK
------------------------------------------------------------------------------
LEMMA Constants ==
  /\ LegacyKeys \subseteq Keys /\ None \notin Scopes /\ None \notin Keys
  /\ None \notin Windows /\ None \notin Creations
  /\ User \notin Creations /\ User # None /\ Rejected \notin Windows /\ Rejected # None
  /\ MaxWindows \in Nat /\ MaxStarts \in Nat \ {0} /\ MaxNative \in Nat \ {0}
BY FirefoxAssumption

LEMMA PriorStates ==
  ASSUME WindowInv
  PROVE  /\ mem \in Journals /\ disk \in Journals
         /\ \A s \in Scopes : mem.windows[s] \in Records
         /\ mem.windows \in [Scopes -> Records]
         /\ mem.controller \in Controllers
BY DEF WindowInv, JournalsOK, Shaped, Journals

\* A record that is true to the past takes its place in a journal.
LEMMA Entered ==
  ASSUME NEW j, NEW a, NEW l, NEW e, NEW m, NEW h, Shaped(j), TrueTo(j, a, l, e, m, h),
         NEW s \in Scopes, NEW r \in Records, RecordOK(r, s, a, l, e, m),
         r.state \in {"open", "closing"} => r.context # None
  PROVE  /\ Shaped([j EXCEPT !.windows[s] = r])
         /\ TrueTo([j EXCEPT !.windows[s] = r], a, l, e, m, h)
         /\ [j EXCEPT !.windows[s] = r].controller = j.controller
         /\ [j EXCEPT !.windows[s] = r].actions = j.actions
         /\ [j EXCEPT !.windows[s] = r].windows = [j.windows EXCEPT ![s] = r]
<1> DEFINE g == [j EXCEPT !.windows[s] = r]
<1>1. /\ g \in Journals /\ g.controller = j.controller /\ g.actions = j.actions
      /\ g.windows = [j.windows EXCEPT ![s] = r] /\ j.windows \in [Scopes -> Records]
  BY DEF Shaped, Journals
<1> HIDE DEF g
<1>2. \A t \in Scopes : g.windows[t] = IF t = s THEN r ELSE j.windows[t] BY <1>1
<1>3. Shaped(g) BY <1>1, <1>2 DEF Shaped
<1>4. TrueTo(g, a, l, e, m, h) BY <1>1, <1>2 DEF TrueTo
<1> QED BY <1>1, <1>3, <1>4 DEF g

\* Windows that open and close, and creations that are handled or lost, make
\* no journal untrue.
LEMMA StaysTrue ==
  ASSUME NEW j, NEW a \in [Scopes -> Nat], NEW l \in [Scopes -> Nat], NEW e, NEW m, NEW h,
         Shaped(j), TrueTo(j, a, l, e, m, h),
         NEW f, \A c \in f : c \in e \/ c \notin Creations,
         NEW n, \A w \in Windows : m[w] \in Creations => n[w] = m[w]
  PROVE  TrueTo(j, a, l, f, n, h)
<1>1. ASSUME NEW s \in Scopes PROVE RecordOK(j.windows[s], s, a, l, f, n)
  <2> DEFINE r == j.windows[s]
  <2>1. RecordOK(r, s, a, l, e, m) BY DEF TrueTo
  <2>2. r \in Records BY DEF Shaped, Journals
  <2>3. r.context # None => n[r.context] = Current(s, a)
    <3> HAVE r.context # None
    <3>1. r.context \in Windows BY <2>2 DEF Records
    <3>2. m[r.context] = Current(s, a) /\ a[s] > l[s] BY <2>1 DEF RecordOK
    <3>3. a[s] \in Nat \ {0} BY <3>2
    <3>4. Current(s, a) \in Creations BY <3>3 DEF Current, Creations
    <3> QED BY <3>1, <3>2, <3>4
  <2> QED BY <2>1, <2>3 DEF RecordOK
<1> QED BY <1>1 DEF TrueTo

\* A grant: what the scope asked for is abandoned, its record is ready, and the
\* others are as they were or retired.
LEMMA Granted ==
  ASSUME NEW j, NEW a, NEW l \in [Scopes -> Nat], NEW e, NEW m, NEW h,
         NEW s \in Scopes, j.windows[s].context = None, j.windows[s].state \in {"none", "recovery_ready"},
         \A t \in Scopes \ {s} : RecordOK(j.windows[t], t, a, l, e, m),
         \A k \in Keys \ LegacyKeys : h[k] = 1 => j.actions[k] # "none",
         NEW i, i = [l EXCEPT ![s] = a[s]]
  PROVE  TrueTo(j, a, i, e, m, h)
BY DEF TrueTo, RecordOK
------------------------------------------------------------------------------
(* Steps of the controller that send nothing: what they change is the      *)
(* journal, its file and the place of the operation.                       *)

Past == <<native, history>>

LEMMA Remembered ==
  ASSUME WindowInv, UNCHANGED Past
  PROVE  /\ Counted' /\ CreationsOK' /\ Existing' = Existing
         /\ \A j : TrueTo(j, sent, abandoned, Existing, creator, hits) =>
                   TrueTo(j, sent', abandoned', Existing', creator', hits')
<1>1. Existing' = Existing BY DEF Past, native, Existing
<1> QED BY <1>1 DEF Past, native, history, WindowInv, Counted, CreationsOK

\* The journals of a step that sends nothing.
LEMMA JournalsNext ==
  ASSUME WindowInv, UNCHANGED Past, Shaped(mem'), Shaped(disk'),
         TrueTo(disk', sent, abandoned, Existing, creator, hits),
         pc' # "down" => TrueTo(mem', sent, abandoned, Existing, creator, hits)
  PROVE  JournalsOK'
BY Remembered DEF JournalsOK, Shaped, TrueTo, RecordOK, Current

LEMMA StoredFacts ==
  ASSUME WindowInv, NEW j, Stored(j) \/ UNCHANGED <<disk, terminated>>
  PROVE  disk' \in {disk, j} /\ terminated' \subseteq Scopes
BY DEF Stored, WindowInv, ProcessOK

\* An operation that keeps its observer commits a journal and becomes idle, or
\* goes on, if the journal was saved, at a place it fits.
LEMMA Committed ==
  ASSUME WindowInv, UNCHANGED history, NEW j, Shaped(j),
         TrueTo(j, sent, abandoned, Existing, creator, hits), j.controller = mem.controller,
         NEW l, NEW s, NEW k, Commit(j, l, s, k),
         \/ l = "idle" /\ s = None /\ k = None
         \/ /\ l \in {"create", "input", "close"} /\ s \in Scopes /\ pending = None
            /\ l = "create" => /\ j.windows[s].state = "creating" /\ j.windows[s].context = None
                               /\ sent[s] = abandoned[s] /\ k = None
            /\ l = "input" => k \in Keys \ LegacyKeys /\ j.actions[k] # "none" /\ hits[k] = 0
            /\ l = "close" => k = None,
         pending # None => j.windows[pending.scope].state = "creating",
         pc \notin {"startup", "down"}
  PROVE  WindowInv'
<1>1. UNCHANGED <<process, native>> /\ mem' = j /\ disk' \in {disk, j} /\ terminated' \subseteq Scopes
  BY StoredFacts DEF Commit, Saved, SaveFails
<1>2. \/ Saved(j) /\ pc' = l /\ scope' = s /\ key' = k
      \/ pc' = "idle" /\ scope' = None /\ key' = None
  BY DEF Commit, Go, Idle
<1>3. UNCHANGED Past BY <1>1 DEF Past
<1>4. Counted' /\ CreationsOK' BY <1>3, Remembered
<1>5. JournalsOK' BY <1>1, <1>3, JournalsNext DEF WindowInv, JournalsOK
<1>6. ProcessOK' BY <1>1 DEF WindowInv, ProcessOK, process, native
<1>7. SessionOK' BY <1>1 DEF WindowInv, SessionOK, process, native, Resumable
<1>8. pending # None => pc' \in {"await", "idle"} BY <1>2
<1>9. ReceiptOK'
  BY <1>1, <1>3, <1>8 DEF WindowInv, ReceiptOK, process, Past, native, history, Current
<1>10. PlaceOK'
  <2>1. CASE Saved(j) /\ pc' = l /\ scope' = s /\ key' = k
    <3>1. mem' = disk' BY <2>1 DEF Saved, Stored
    <3> QED BY <1>1, <1>3, <2>1, <3>1 DEF PlaceOK, Past, history
  <2>2. CASE pc' = "idle" /\ scope' = None /\ key' = None BY <2>2 DEF PlaceOK
  <2> QED BY <1>2, <2>1, <2>2
<1> QED BY <1>4, <1>5, <1>6, <1>9, <1>10, <1>7 DEF WindowInv

\* An operation that gives up: the observer is closed, and the process idle.
LEMMA Disconnected ==
  ASSUME WindowInv, UNCHANGED Past, Disconnect, Idle,
         Shaped(mem'), Shaped(disk'), terminated' \subseteq Scopes,
         TrueTo(disk', sent, abandoned, Existing, creator, hits),
         TrueTo(mem', sent, abandoned, Existing, creator, hits),
         mem'.controller.gen <= gen, disk'.controller.gen <= gen,
         Resumable(mem') => mem'.controller.epoch = epoch
  PROVE  WindowInv'
<1>1. Counted' /\ CreationsOK' BY Remembered
<1>2. JournalsOK' BY JournalsNext
<1>3. /\ connected' = FALSE /\ pending' = None /\ reply' = None
      /\ UNCHANGED <<epoch, orphaned, starts, session, gen>>
      /\ pc' = "idle" /\ scope' = None /\ key' = None
  BY DEF Disconnect, Idle, Go, Past, native
<1>4. ProcessOK' /\ SessionOK' BY <1>3 DEF WindowInv, ProcessOK, SessionOK, Resumable
<1>5. ReceiptOK' BY <1>3, Constants DEF ReceiptOK
<1>6. PlaceOK' BY <1>3 DEF PlaceOK
<1> QED BY <1>1, <1>2, <1>4, <1>5, <1>6 DEF WindowInv
LEMMA Known ==
  ASSUME WindowInv
  PROVE  /\ Shaped(mem) /\ Shaped(disk) /\ terminated \subseteq Scopes
         /\ TrueTo(disk, sent, abandoned, Existing, creator, hits)
         /\ pc # "down" => TrueTo(mem, sent, abandoned, Existing, creator, hits)
BY DEF WindowInv, JournalsOK, ProcessOK

LEMMA RestartKeeps == ASSUME WindowInv, Restart PROVE WindowInv'
<1>1. /\ UNCHANGED Past /\ UNCHANGED <<disk, terminated>> /\ mem' = disk
      /\ starts < MaxStarts /\ starts' = starts + 1
      /\ connected' = FALSE /\ pending' = None /\ reply' = None
      /\ pc' = "startup" /\ scope' = None /\ key' = None
  BY DEF Restart, Go, Past
<1>2. Counted' /\ CreationsOK' BY <1>1, Remembered
<1>3. JournalsOK' BY <1>1, Known, JournalsNext
<1>4. starts \in Nat /\ MaxStarts \in Nat BY Constants DEF WindowInv, ProcessOK, Epochs
<1>5. starts' \in Epochs /\ starts' # 0 BY <1>1, <1>4 DEF Epochs
<1>6. epoch' \in Epochs \ {0} /\ orphaned' \in BOOLEAN
  <2>1. /\ disk.controller.state # "none" => disk.controller.epoch \in Epochs \ {0}
        /\ disk.reconciled \in Epochs
        /\ disk.owner \in BOOLEAN
    BY Known DEF Shaped, Journals, Controllers
  <2>2. CASE Resumable(disk)
    <3>1. epoch' = disk.controller.epoch /\ orphaned' = FALSE BY <2>2 DEF Restart, Resumable
    <3> QED BY <2>1, <2>2, <3>1 DEF Resumable
  <2>3. CASE ~Resumable(disk) /\ disk.controller.state = "none" /\ disk.reconciled # 0
    <3>1. epoch' = disk.reconciled /\ orphaned' = FALSE BY <2>3 DEF Restart
    <3> QED BY <2>1, <2>3, <3>1
  <2>4. CASE ~Resumable(disk) /\ ~(disk.controller.state = "none" /\ disk.reconciled # 0)
    <3>1. /\ epoch' = starts + 1
          /\ orphaned' = (disk.owner \/ \E s \in Scopes : disk.windows[s].state \notin {"none", "closed"})
      BY <2>4 DEF Restart
    <3> QED BY <1>1, <1>5, <2>1, <3>1
  <2> QED BY <2>2, <2>3, <2>4
<1>7. ProcessOK' BY <1>1, <1>5, <1>6 DEF WindowInv, ProcessOK, Past, native
<1>8. ReceiptOK' BY <1>1, Constants DEF ReceiptOK
<1>9. PlaceOK' BY <1>1 DEF PlaceOK
<1>10. Resumable(disk) => epoch' = disk.controller.epoch BY DEF Restart, Resumable
<1>11. SessionOK' BY <1>1, <1>10 DEF WindowInv, SessionOK, Resumable, Past, native
<1> QED BY <1>2, <1>3, <1>7, <1>8, <1>9, <1>11 DEF WindowInv

LEMMA ServeKeeps == ASSUME WindowInv, Serve PROVE WindowInv'
<1>1. /\ UNCHANGED Past /\ UNCHANGED <<mem, disk, terminated, process>> /\ pc = "startup"
      /\ pc' = "idle" /\ scope' = None /\ key' = None
  BY DEF Serve, Idle, Go, Past
<1>2. Counted' /\ CreationsOK' BY <1>1, Remembered
<1>3. JournalsOK' BY <1>1, Known, JournalsNext
<1>4. ProcessOK' /\ SessionOK'
  BY <1>1 DEF WindowInv, ProcessOK, SessionOK, Resumable, Past, native, process
<1>5. pending = None BY <1>1 DEF WindowInv, ReceiptOK
<1>6. ReceiptOK' BY <1>1, <1>5, Constants DEF WindowInv, ReceiptOK, process, Past, native
<1>7. PlaceOK' BY <1>1 DEF PlaceOK
<1> QED BY <1>2, <1>3, <1>4, <1>6, <1>7 DEF WindowInv

LEMMA ReconnectKeeps == ASSUME WindowInv, Reconnect PROVE WindowInv'
<1>1. /\ UNCHANGED Past
      /\ UNCHANGED <<mem, disk, terminated, control, epoch, orphaned, pending, reply, starts>>
      /\ connected' = TRUE /\ pc = "idle" /\ Resumable(mem) /\ session
  BY DEF Reconnect, Past
<1>2. Counted' /\ CreationsOK' BY <1>1, Remembered
<1>3. JournalsOK' BY <1>1, Known, JournalsNext DEF control
<1>4. ProcessOK' BY <1>1 DEF WindowInv, ProcessOK, Past, native
<1>5. SessionOK' BY <1>1 DEF WindowInv, SessionOK, Resumable, Past, native
<1>6. ReceiptOK'
  BY <1>1 DEF WindowInv, ReceiptOK, Past, native, history, control, Current
<1>7. PlaceOK' BY <1>1 DEF WindowInv, PlaceOK, control, Past, history
<1> QED BY <1>2, <1>3, <1>4, <1>5, <1>6, <1>7 DEF WindowInv

\* Another controller record makes no journal untrue.
LEMMA Recontrolled ==
  ASSUME NEW j, NEW a, NEW l, NEW e, NEW m, NEW h, Shaped(j), TrueTo(j, a, l, e, m, h),
         NEW c \in Controllers, c.state # "none" => c.epoch # 0
  PROVE  /\ Shaped([j EXCEPT !.controller = c]) /\ TrueTo([j EXCEPT !.controller = c], a, l, e, m, h)
         /\ [j EXCEPT !.controller = c].controller = c
<1> DEFINE g == [j EXCEPT !.controller = c]
<1>1. g \in Journals /\ g.controller = c /\ g.windows = j.windows /\ g.actions = j.actions
  BY DEF Shaped, Journals
<1> HIDE DEF g
<1>2. Shaped(g) /\ TrueTo(g, a, l, e, m, h) BY <1>1 DEF Shaped, TrueTo
<1> QED BY <1>1, <1>2 DEF g

LEMMA ReserveSessionKeeps == ASSUME WindowInv, ReserveSession PROVE WindowInv'
<1> DEFINE c == [state |-> "creating", epoch |-> epoch, gen |-> 0]
           j == [mem EXCEPT !.controller = c]
<1>1. pc = "idle" /\ ~connected /\ UNCHANGED Past /\ mem' = j /\ disk' \in {disk, j}
      /\ terminated' \subseteq Scopes
  BY StoredFacts DEF ReserveSession, Saved, SaveFails, Past
<1>2. c \in Controllers /\ c.epoch # 0 /\ gen \in Nat /\ gen >= 1
  BY Constants DEF WindowInv, ProcessOK, Controllers
<1> HIDE DEF c
<1>3. Shaped(j) /\ TrueTo(j, sent, abandoned, Existing, creator, hits) /\ j.controller = c
  BY <1>1, <1>2, Known, Recontrolled
<1>4. c.gen <= gen /\ ~(c.state = "ready") BY <1>2 DEF c
<1>5. disk.controller.gen <= gen BY DEF WindowInv, SessionOK
<1> HIDE DEF j
<1>6. Shaped(disk') /\ TrueTo(disk', sent, abandoned, Existing, creator, hits)
      /\ disk'.controller.gen <= gen
  BY <1>1, <1>3, <1>4, <1>5, Known
<1>7. CASE Disconnect /\ Idle
  <2>1. ~Resumable(mem') BY <1>1, <1>3, <1>4 DEF Resumable
  <2> QED BY <1>1, <1>3, <1>4, <1>6, <1>7, <2>1, Disconnected
<1>8. CASE Saved(j) /\ Go("session", None, None) /\ UNCHANGED process
  <2>1. Counted' /\ CreationsOK' BY <1>1, Remembered
  <2>2. JournalsOK' BY <1>1, <1>3, <1>6, JournalsNext
  <2>3. ProcessOK' BY <1>1, <1>8 DEF WindowInv, ProcessOK, Past, native, process
  <2>4. SessionOK'
    BY <1>1, <1>3, <1>4, <1>6, <1>8 DEF WindowInv, SessionOK, Resumable, Past, native, process
  <2>5. pending = None /\ mem' = disk' BY <1>1, <1>8 DEF WindowInv, ReceiptOK, Saved, Stored
  <2>6. ReceiptOK' BY <1>1, <1>8, <2>5, Constants DEF WindowInv, ReceiptOK, Past, native, process
  <2>7. PlaceOK' BY <1>1, <1>8, <2>5 DEF PlaceOK, Go, process
  <2> QED BY <2>1, <2>2, <2>3, <2>4, <2>6, <2>7 DEF WindowInv
<1>9. (Disconnect /\ Idle) \/ (Saved(j) /\ Go("session", None, None) /\ UNCHANGED process)
  BY DEF ReserveSession, j, c
<1> QED BY <1>7, <1>8, <1>9

LEMMA CreateSessionKeeps == ASSUME WindowInv, CreateSession PROVE WindowInv'
<1>1. /\ UNCHANGED <<mem, disk, terminated, process, gen, tree, wire, creator, history>>
      /\ session' = TRUE /\ pc = "session" /\ pc' = "ready" /\ scope' = None /\ key' = None
  BY DEF CreateSession, Go
<1>2. Counted' /\ CreationsOK' BY <1>1 DEF WindowInv, Counted, CreationsOK, history
<1>3. JournalsOK'
  BY <1>1 DEF WindowInv, JournalsOK, Shaped, TrueTo, RecordOK, Existing, Current, history
<1>4. ProcessOK' /\ SessionOK' BY <1>1 DEF WindowInv, ProcessOK, SessionOK, Resumable, process
<1>5. pending = None /\ ~connected BY <1>1 DEF WindowInv, ReceiptOK, PlaceOK
<1>6. ReceiptOK' BY <1>1, <1>5, Constants DEF WindowInv, ReceiptOK, process
<1>7. PlaceOK' BY <1>1, <1>5 DEF WindowInv, PlaceOK, process
<1> QED BY <1>2, <1>3, <1>4, <1>6, <1>7 DEF WindowInv

LEMMA RecordSessionKeeps == ASSUME WindowInv, RecordSession PROVE WindowInv'
<1> DEFINE c == [state |-> "ready", epoch |-> epoch, gen |-> gen]
           j == [mem EXCEPT !.controller = c]
<1>1. pc = "ready" /\ session /\ UNCHANGED Past /\ mem' = j /\ disk' \in {disk, j}
      /\ terminated' \subseteq Scopes /\ Idle
  BY StoredFacts DEF RecordSession, Saved, SaveFails, Past
<1>2. c \in Controllers /\ c.epoch # 0 /\ gen \in Nat
  BY Constants DEF WindowInv, ProcessOK, Controllers
<1>3. c.gen <= gen /\ c.epoch = epoch /\ c.gen = gen /\ c.state = "ready" BY <1>2
<1> HIDE DEF c
<1>4. Shaped(j) /\ TrueTo(j, sent, abandoned, Existing, creator, hits) /\ j.controller = c
  BY <1>1, <1>2, Known, Recontrolled
<1>5. disk.controller.gen <= gen BY DEF WindowInv, SessionOK
<1>6. \/ connected' = TRUE /\ UNCHANGED <<epoch, orphaned, pending, reply, starts>>
      \/ Disconnect
  BY DEF RecordSession, j, c
<1> HIDE DEF j
<1>7. Shaped(disk') /\ TrueTo(disk', sent, abandoned, Existing, creator, hits)
      /\ disk'.controller.gen <= gen
  BY <1>1, <1>3, <1>4, <1>5, Known
<1>8. CASE Disconnect BY <1>1, <1>3, <1>4, <1>7, <1>8, Disconnected
<1>9. CASE connected' = TRUE /\ UNCHANGED <<epoch, orphaned, pending, reply, starts>>
  <2>1. Counted' /\ CreationsOK' BY <1>1, Remembered
  <2>2. JournalsOK' BY <1>1, <1>4, <1>7, JournalsNext
  <2>3. ProcessOK' BY <1>1, <1>9 DEF WindowInv, ProcessOK, Past, native
  <2>4. SessionOK'
    BY <1>1, <1>3, <1>4, <1>7, <1>9 DEF WindowInv, SessionOK, Resumable, Past, native
  <2>5. pending = None BY <1>1 DEF WindowInv, ReceiptOK
  <2>6. ReceiptOK' BY <1>1, <1>9, <2>5, Constants DEF WindowInv, ReceiptOK, Past, native
  <2>7. PlaceOK' BY <1>1 DEF PlaceOK, Idle, Go
  <2> QED BY <2>1, <2>2, <2>3, <2>4, <2>6, <2>7 DEF WindowInv
<1> QED BY <1>6, <1>8, <1>9
LEMMA FailKeeps == ASSUME WindowInv, Fail PROVE WindowInv'
<1>1. /\ Disconnect /\ Idle /\ UNCHANGED Past /\ mem' = mem /\ disk' \in {disk, mem}
      /\ terminated' \subseteq Scopes /\ pc # "down"
  BY StoredFacts DEF Fail, Past
<1>2. /\ mem.controller.gen <= gen /\ disk.controller.gen <= gen
      /\ Resumable(mem) => mem.controller.epoch = epoch
  BY DEF WindowInv, SessionOK
<1>3. Shaped(disk') /\ TrueTo(disk', sent, abandoned, Existing, creator, hits)
      /\ disk'.controller.gen <= gen
  BY <1>1, <1>2, Known
<1> QED BY <1>1, <1>2, <1>3, Known, Disconnected
------------------------------------------------------------------------------
(* Steps that change one record, or one key, of the journal.               *)

\* Nothing is left of what a scope asked for if all of it is abandoned.
LEMMA NothingLeft ==
  ASSUME WindowInv, NEW s \in Scopes, sent[s] = abandoned[s],
         NEW c \in Existing, c \in Creations, c.scope = s
  PROVE  c.n <= abandoned[s]
BY DEF WindowInv, CreationsOK, Existing

LEMMA RecordKnown ==
  ASSUME WindowInv, pc # "down", NEW s \in Scopes
  PROVE  /\ mem.windows[s] \in Records /\ mem \in Journals
         /\ RecordOK(mem.windows[s], s, sent, abandoned, Existing, creator)
         /\ mem.windows[s].state \in {"open", "closing"} => mem.windows[s].context # None
BY Known DEF Shaped, TrueTo, Journals

LEMMA CommittedRecord ==
  ASSUME WindowInv, UNCHANGED history, NEW s \in Scopes, NEW r \in Records,
         RecordOK(r, s, sent, abandoned, Existing, creator),
         r.state \in {"open", "closing"} => r.context # None,
         pending # None => pending.scope # s,
         pc \notin {"startup", "down"},
         NEW l, Commit([mem EXCEPT !.windows[s] = r], l, IF l = "idle" THEN None ELSE s, None),
         \/ l = "idle"
         \/ l = "close" /\ pending = None
         \/ /\ l = "create" /\ pending = None
            /\ r.state = "creating" /\ r.context = None /\ sent[s] = abandoned[s]
  PROVE  WindowInv'
<1> DEFINE j == [mem EXCEPT !.windows[s] = r]
<1>1. /\ Shaped(j) /\ TrueTo(j, sent, abandoned, Existing, creator, hits)
      /\ j.controller = mem.controller /\ j.windows = [mem.windows EXCEPT ![s] = r]
  BY Known, Entered
<1>2. mem.windows \in [Scopes -> Records] BY PriorStates
<1>3. Commit(j, l, IF l = "idle" THEN None ELSE s, None) OBVIOUS
<1> HIDE DEF j
<1>4. \A t \in Scopes : j.windows[t] = IF t = s THEN r ELSE mem.windows[t] BY <1>1, <1>2
<1>5. pending # None => pending.scope \in Scopes /\ mem.windows[pending.scope].state = "creating"
  BY DEF WindowInv, ProcessOK, ReceiptOK, Creations
<1>6. pending # None => j.windows[pending.scope].state = "creating" BY <1>4, <1>5
<1>7. CASE l = "idle"
  <2>1. Commit(j, "idle", None, None) BY <1>3, <1>7
  <2> QED BY <1>1, <1>6, <2>1, Committed
<1>8. CASE l \in {"create", "close"}
  <2>1. Commit(j, l, s, None) BY <1>3, <1>8
  <2>2. l = "create" => /\ j.windows[s].state = "creating" /\ j.windows[s].context = None
                        /\ sent[s] = abandoned[s]
    BY <1>4, <1>8
  <2>3. pending = None BY <1>8
  <2> QED BY <1>1, <1>6, <1>8, <2>1, <2>2, <2>3, Committed
<1> QED BY <1>7, <1>8

LEMMA ReserveKeeps ==
  ASSUME WindowInv, NEW s \in Scopes, Reserve(s)
  PROVE  WindowInv'
<1> DEFINE r == [NoRecord EXCEPT !.state = "creating", !.epoch = epoch]
<1>1. /\ UNCHANGED history /\ Commit([mem EXCEPT !.windows[s] = r], "create", s, None)
      /\ pc = "idle" /\ pending = None /\ mem.windows[s].state \in {"none", "recovery_ready"}
  BY DEF Reserve, Ready, Set
<1>2. sent[s] = abandoned[s] BY <1>1, RecordKnown DEF RecordOK
<1>3. r \in Records /\ r.state = "creating" /\ r.context = None
  BY DEF NoRecord, Records, WindowInv, ProcessOK
<1> HIDE DEF r
<1>4. RecordOK(r, s, sent, abandoned, Existing, creator) BY <1>3 DEF RecordOK
<1> QED BY <1>1, <1>2, <1>3, <1>4, CommittedRecord

LEMMA FinishKeeps ==
  ASSUME WindowInv, NEW s \in Scopes, Finish(s)
  PROVE  WindowInv'
<1> DEFINE r == [mem.windows[s] EXCEPT !.state = "open"]
<1>1. /\ UNCHANGED history /\ Commit([mem EXCEPT !.windows[s].state = "open"], "idle", None, None)
      /\ pc \in {"finish", "idle"} /\ pending = None /\ mem.windows[s].context \in tree
  BY DEF Finish, Ready, WindowInv, ReceiptOK
<1>2. /\ mem.windows[s] \in Records /\ mem \in Journals
      /\ RecordOK(mem.windows[s], s, sent, abandoned, Existing, creator)
  BY <1>1, RecordKnown
<1>3. r \in Records /\ r.state = "open" /\ r.context = mem.windows[s].context BY <1>2 DEF Records
<1>4. mem.windows[s].context # None BY <1>1, Constants DEF WindowInv, CreationsOK
<1>5. [mem EXCEPT !.windows[s].state = "open"] = [mem EXCEPT !.windows[s] = r]
  BY <1>2 DEF Journals, Records
<1> HIDE DEF r
<1>6. RecordOK(r, s, sent, abandoned, Existing, creator) BY <1>2, <1>3 DEF RecordOK
<1> QED BY <1>1, <1>3, <1>4, <1>5, <1>6, CommittedRecord

\* A record that is closed, with nothing left of its scope, or is fenced.
LEMMA TombstoneKeeps ==
  ASSUME WindowInv, NEW s \in Scopes, Tombstone(s)
  PROVE  WindowInv'
<1> DEFINE r == [mem.windows[s] EXCEPT !.state = "closed", !.terminal = TRUE]
<1>1. /\ UNCHANGED history
      /\ Commit([mem EXCEPT !.windows[s].state = "closed", !.windows[s].terminal = TRUE],
                "idle", None, None)
      /\ pc = "idle" /\ mem.windows[s].state \in {"none", "create_failed"}
  BY DEF Tombstone
<1>2. /\ mem.windows[s] \in Records /\ mem \in Journals
      /\ RecordOK(mem.windows[s], s, sent, abandoned, Existing, creator)
  BY <1>1, RecordKnown
<1>3. r \in Records /\ r.state = "closed" /\ r.context = mem.windows[s].context BY <1>2 DEF Records
<1>4. [mem EXCEPT !.windows[s].state = "closed", !.windows[s].terminal = TRUE]
      = [mem EXCEPT !.windows[s] = r]
  BY <1>2 DEF Journals, Records
<1> HIDE DEF r
<1>5. \A c \in Existing : c \in Creations /\ c.scope = s => c.n <= abandoned[s]
  <2>1. CASE mem.windows[s].state = "none"
    <3>1. sent[s] = abandoned[s] BY <1>2, <2>1 DEF RecordOK
    <3> QED BY <3>1, NothingLeft
  <2>2. CASE mem.windows[s].state = "create_failed" BY <1>2, <2>2 DEF RecordOK
  <2> QED BY <1>1, <2>1, <2>2
<1>6. RecordOK(r, s, sent, abandoned, Existing, creator) BY <1>2, <1>3, <1>5 DEF RecordOK
<1>7. pending # None => pending.scope # s BY <1>1 DEF WindowInv, ReceiptOK
<1> QED BY <1>1, <1>3, <1>4, <1>6, <1>7, CommittedRecord

LEMMA FenceRetiredKeeps ==
  ASSUME WindowInv, NEW s \in Scopes, FenceRetired(s)
  PROVE  WindowInv'
<1> DEFINE r == [mem.windows[s] EXCEPT !.state = "retired", !.terminal = TRUE]
<1>1. /\ UNCHANGED history
      /\ Commit([mem EXCEPT !.windows[s].state = "retired", !.windows[s].terminal = TRUE],
                "idle", None, None)
      /\ pc = "idle" /\ mem.windows[s].state \in {"retired", "recovery_ready"}
  BY DEF FenceRetired
<1>2. /\ mem.windows[s] \in Records /\ mem \in Journals
      /\ RecordOK(mem.windows[s], s, sent, abandoned, Existing, creator)
  BY <1>1, RecordKnown
<1>3. r \in Records /\ r.state = "retired" /\ r.context = mem.windows[s].context BY <1>2 DEF Records
<1>4. [mem EXCEPT !.windows[s].state = "retired", !.windows[s].terminal = TRUE]
      = [mem EXCEPT !.windows[s] = r]
  BY <1>2 DEF Journals, Records
<1> HIDE DEF r
<1>5. RecordOK(r, s, sent, abandoned, Existing, creator) BY <1>1, <1>2, <1>3 DEF RecordOK
<1>6. pending # None => pending.scope # s BY <1>1 DEF WindowInv, ReceiptOK
<1> QED BY <1>1, <1>3, <1>4, <1>5, <1>6, CommittedRecord

LEMMA BeginCloseKeeps ==
  ASSUME WindowInv, NEW s \in Scopes, BeginClose(s)
  PROVE  WindowInv'
<1> DEFINE r == [mem.windows[s] EXCEPT !.state = "closing", !.terminal = TRUE]
<1>1. /\ UNCHANGED history
      /\ Commit([mem EXCEPT !.windows[s].state = "closing", !.windows[s].terminal = TRUE],
                "close", s, None)
      /\ pc = "idle" /\ pending = None /\ mem.windows[s].state = "open"
  BY DEF BeginClose, Ready, Resolved
<1>2. /\ mem.windows[s] \in Records /\ mem \in Journals /\ mem.windows[s].context # None
      /\ RecordOK(mem.windows[s], s, sent, abandoned, Existing, creator)
  BY <1>1, RecordKnown
<1>3. r \in Records /\ r.state = "closing" /\ r.context = mem.windows[s].context BY <1>2 DEF Records
<1>4. [mem EXCEPT !.windows[s].state = "closing", !.windows[s].terminal = TRUE]
      = [mem EXCEPT !.windows[s] = r]
  BY <1>2 DEF Journals, Records
<1> HIDE DEF r
<1>5. RecordOK(r, s, sent, abandoned, Existing, creator) BY <1>2, <1>3 DEF RecordOK
<1> QED BY <1>1, <1>2, <1>3, <1>4, <1>5, CommittedRecord

\* The window is gone: it was the one its scope's creation opened, no other was.
LEMMA ConfirmCloseKeeps ==
  ASSUME WindowInv, NEW s \in Scopes, ConfirmClose(s)
  PROVE  WindowInv'
<1> DEFINE r == [mem.windows[s] EXCEPT !.state = "closed"]
           x == mem.windows[s].context
<1>1. /\ UNCHANGED history /\ Commit([mem EXCEPT !.windows[s].state = "closed"], "idle", None, None)
      /\ pc \in {"closed", "idle"} /\ pending = None
      /\ mem.windows[s].state = "closing" /\ x \notin tree
  BY DEF ConfirmClose, Ready, WindowInv, ReceiptOK
<1>2. /\ mem.windows[s] \in Records /\ mem \in Journals
      /\ RecordOK(mem.windows[s], s, sent, abandoned, Existing, creator) /\ x # None
  BY <1>1, RecordKnown
<1>3. r \in Records /\ r.state = "closed" /\ r.context = x BY <1>2 DEF Records
<1>4. [mem EXCEPT !.windows[s].state = "closed"] = [mem EXCEPT !.windows[s] = r]
  BY <1>2 DEF Journals, Records
<1>5. x \in Windows /\ creator[x] = Current(s, sent) /\ sent[s] > abandoned[s]
  BY <1>2 DEF RecordOK, Records
<1> HIDE DEF r, x
<1>6. ASSUME NEW c \in Existing, c \in Creations, c.scope = s PROVE c.n <= abandoned[s]
  <2>1. c.n <= sent[s] /\ c # creator[x]
    <3>1. CASE c \in wire BY <1>5, <1>6, <3>1 DEF WindowInv, CreationsOK
    <3>2. CASE c \notin wire
      <4>1. PICK w \in tree : c = creator[w] BY <3>2, <1>6 DEF Existing
      <4>2. w \in Windows /\ w # x BY <1>1, <4>1 DEF WindowInv, CreationsOK, x
      <4> QED BY <1>5, <1>6, <4>1, <4>2 DEF WindowInv, CreationsOK
    <3> QED BY <3>1, <3>2
  <2>2. c = [scope |-> c.scope, n |-> c.n] /\ c.n \in Nat BY <1>6 DEF Creations
  <2>3. c.n # sent[s] BY <1>5, <1>6, <2>1, <2>2 DEF Current
  <2>4. sent[s] \in Nat /\ abandoned[s] \in Nat /\ sent[s] \in {abandoned[s], abandoned[s] + 1}
    BY DEF WindowInv, Counted
  <2> QED BY <2>1, <2>2, <2>3, <2>4
<1>7. RecordOK(r, s, sent, abandoned, Existing, creator) BY <1>2, <1>3, <1>6 DEF RecordOK, x
<1> QED BY <1>1, <1>3, <1>4, <1>7, CommittedRecord
LEMMA TakeOwnerKeeps == ASSUME WindowInv, TakeOwner PROVE WindowInv'
<1> DEFINE j == [mem EXCEPT !.owner = TRUE]
<1>1. UNCHANGED history /\ Commit(j, "idle", None, None) /\ pc = "idle" /\ pending = None
  BY DEF TakeOwner, Ready
<1>2. /\ j \in Journals /\ j.windows = mem.windows /\ j.controller = mem.controller
      /\ j.actions = mem.actions
  BY PriorStates DEF Journals
<1> HIDE DEF j
<1>3. Shaped(j) /\ TrueTo(j, sent, abandoned, Existing, creator, hits)
  BY <1>1, <1>2, Known DEF Shaped, TrueTo
<1> QED BY <1>1, <1>2, <1>3, Committed

LEMMA KeyUsed ==
  ASSUME WindowInv, pc # "down", NEW k \in Keys, NEW v \in {"started", "uncertain", "delivered"},
         NEW j, j = [mem EXCEPT !.actions[k] = v]
  PROVE  /\ Shaped(j) /\ TrueTo(j, sent, abandoned, Existing, creator, hits)
         /\ j.controller = mem.controller /\ j.windows = mem.windows /\ j.actions[k] # "none"
<1>1. /\ j \in Journals /\ j.windows = mem.windows /\ j.controller = mem.controller
      /\ j.actions = [mem.actions EXCEPT ![k] = v]
      /\ mem.actions \in [Keys -> {"none", "started", "uncertain", "delivered"}]
  BY PriorStates DEF Journals
<1>2. j.actions[k] # "none" BY <1>1
<1>3. \A q \in Keys : j.actions[q] = "none" => mem.actions[q] = "none" BY <1>1, <1>2
<1>4. Shaped(mem) /\ TrueTo(mem, sent, abandoned, Existing, creator, hits) BY Known
<1>5. Shaped(j) BY <1>1, <1>4 DEF Shaped
<1>6. TrueTo(j, sent, abandoned, Existing, creator, hits) BY <1>1, <1>3, <1>4 DEF TrueTo
<1> QED BY <1>1, <1>2, <1>5, <1>6

\* A key that is not used was not delivered.
LEMMA BeginInputKeeps ==
  ASSUME WindowInv, NEW s \in Scopes, NEW k \in Keys, BeginInput(s, k)
  PROVE  WindowInv'
<1> DEFINE j == [mem EXCEPT !.actions[k] = "started"]
<1>1. /\ UNCHANGED history /\ Commit(j, "input", s, k) /\ pc = "idle" /\ pending = None
      /\ k \in Keys \ LegacyKeys /\ mem.actions[k] = "none"
  BY DEF BeginInput, Ready
<1>2. /\ Shaped(j) /\ TrueTo(j, sent, abandoned, Existing, creator, hits)
      /\ j.controller = mem.controller /\ j.actions[k] # "none"
  BY <1>1, KeyUsed
<1>3. hits[k] = 0
  <2>1. hits[k] # 1 BY <1>1, Known DEF TrueTo
  <2> QED BY <1>1, <2>1 DEF WindowInv, Counted
<1> HIDE DEF j
<1> QED BY <1>1, <1>2, <1>3, Committed

LEMMA ConfirmInputKeeps == ASSUME WindowInv, ConfirmInput PROVE WindowInv'
<1>1. PICK r \in {"delivered", "uncertain"} :
        UNCHANGED history /\ Commit([mem EXCEPT !.actions[key] = r], "idle", None, None)
  BY DEF ConfirmInput
<1> DEFINE j == [mem EXCEPT !.actions[key] = r]
<1>2. pc = "confirm" /\ pending = None /\ key \in Keys
  BY DEF ConfirmInput, WindowInv, ReceiptOK, PlaceOK
<1>3. /\ Shaped(j) /\ TrueTo(j, sent, abandoned, Existing, creator, hits)
      /\ j.controller = mem.controller
  BY <1>2, KeyUsed
<1>4. Commit(j, "idle", None, None) BY <1>1
<1> HIDE DEF j
<1> QED BY <1>1, <1>2, <1>3, <1>4, Committed
------------------------------------------------------------------------------
(* Receipts.                                                               *)

LEMMA NotSentKeeps == ASSUME WindowInv, NotSent PROVE WindowInv'
<1> DEFINE r == [mem.windows[scope] EXCEPT !.state = "create_failed"]
           j == [mem EXCEPT !.windows[scope] = r]
<1>1. /\ pc = "create" /\ scope \in Scopes /\ sent[scope] = abandoned[scope]
      /\ mem.windows[scope].state = "creating"
  BY DEF NotSent, WindowInv, PlaceOK
<1>2. /\ mem.windows[scope] \in Records /\ mem \in Journals
      /\ RecordOK(mem.windows[scope], scope, sent, abandoned, Existing, creator)
  BY <1>1, RecordKnown
<1>3. r \in Records /\ r.state = "create_failed" /\ r.context = mem.windows[scope].context
  BY <1>2 DEF Records
<1>4. j = [mem EXCEPT !.windows[scope].state = "create_failed"]
  BY <1>1, <1>2 DEF Journals, Records
<1>5. /\ mem' = j /\ disk' \in {disk, j} /\ terminated' \subseteq Scopes
      /\ Idle /\ Disconnect /\ UNCHANGED Past
  BY <1>4, StoredFacts DEF NotSent, Saved, SaveFails, Past
<1> HIDE DEF r
<1>6. \A c \in Existing : c \in Creations /\ c.scope = scope => c.n <= abandoned[scope]
  BY <1>1, NothingLeft
<1>7. RecordOK(r, scope, sent, abandoned, Existing, creator) BY <1>2, <1>3, <1>6 DEF RecordOK
<1>8. /\ Shaped(j) /\ TrueTo(j, sent, abandoned, Existing, creator, hits)
      /\ j.controller = mem.controller
  BY <1>1, <1>3, <1>7, Known, Entered
<1> HIDE DEF j
<1>9. /\ mem.controller.gen <= gen /\ disk.controller.gen <= gen
      /\ Resumable(mem) => mem.controller.epoch = epoch
  BY DEF WindowInv, SessionOK
<1>10. Shaped(disk') /\ TrueTo(disk', sent, abandoned, Existing, creator, hits)
       /\ disk'.controller.gen <= gen
  BY <1>5, <1>8, <1>9, Known
<1>11. Resumable(mem') => mem'.controller.epoch = epoch BY <1>5, <1>8, <1>9 DEF Resumable
<1> QED BY <1>5, <1>8, <1>9, <1>10, <1>11, Disconnected

\* What the receipt records is true.
LEMMA ReceiptTrue ==
  ASSUME WindowInv, pc \in {"await", "idle"}, pending # None, reply # None
  PROVE  /\ Shaped(Receipt) /\ TrueTo(Receipt, sent, abandoned, Existing, creator, hits)
         /\ Receipt.controller = mem.controller
         /\ pending \in Creations
<1> DEFINE s == pending.scope
           p == mem.windows[s]
           f == [p EXCEPT !.state = "create_failed"]
           g == [p EXCEPT !.context = reply]
<1>1. /\ pending \in Creations /\ s \in Scopes /\ p.state = "creating"
      /\ pending = Current(s, sent) /\ sent[s] > abandoned[s]
  BY DEF WindowInv, ProcessOK, ReceiptOK, Creations
<1>2. p \in Records /\ mem \in Journals /\ RecordOK(p, s, sent, abandoned, Existing, creator)
  BY <1>1, RecordKnown
<1>3. CASE reply = Rejected
  <2>1. Receipt = [mem EXCEPT !.windows[s] = f] BY <1>1, <1>2, <1>3 DEF Receipt, Journals, Records
  <2>2. f \in Records /\ f.state = "create_failed" /\ f.context = p.context BY <1>2 DEF Records
  <2>3. ASSUME NEW c \in Existing, c \in Creations, c.scope = s PROVE c.n <= abandoned[s]
    <3>1. c # pending BY <1>3, <2>3 DEF WindowInv, ReceiptOK, CreationsOK, Existing
    <3>2. c.n <= sent[s] BY <2>3 DEF WindowInv, CreationsOK, Existing
    <3>3. c = [scope |-> c.scope, n |-> c.n] /\ c.n \in Nat BY <2>3 DEF Creations
    <3>4. c.n # sent[s] BY <1>1, <2>3, <3>1, <3>3 DEF Current
    <3>5. sent[s] \in Nat /\ abandoned[s] \in Nat /\ sent[s] \in {abandoned[s], abandoned[s] + 1}
      BY <1>1 DEF WindowInv, Counted
    <3> QED BY <3>2, <3>3, <3>4, <3>5
  <2> HIDE DEF f
  <2>4. RecordOK(f, s, sent, abandoned, Existing, creator)
    BY <1>2, <2>2, <2>3 DEF RecordOK
  <2> QED BY <1>1, <2>1, <2>2, <2>4, Known, Entered
<1>4. CASE reply # Rejected
  <2>1. reply \in Windows /\ creator[reply] = pending BY <1>4 DEF WindowInv, ProcessOK, ReceiptOK
  <2>2. Receipt = [mem EXCEPT !.windows[s] = g] BY <1>1, <1>2, <1>4 DEF Receipt, Journals, Records
  <2>3. g \in Records /\ g.state = "creating" /\ g.context = reply
    BY <1>1, <1>2, <2>1 DEF Records
  <2> HIDE DEF g
  <2>4. RecordOK(g, s, sent, abandoned, Existing, creator)
    BY <1>1, <2>1, <2>3 DEF RecordOK
  <2> QED BY <1>1, <2>2, <2>3, <2>4, Known, Entered
<1> QED BY <1>3, <1>4

LEMMA ReceiveKeeps == ASSUME WindowInv, Receive PROVE WindowInv'
<1> DEFINE j == Receipt
<1>1. pc \in {"await", "idle"} /\ pending # None /\ reply # None /\ UNCHANGED Past
  BY DEF Receive, Past
<1>2. /\ Shaped(j) /\ TrueTo(j, sent, abandoned, Existing, creator, hits)
      /\ j.controller = mem.controller /\ pending \in Creations
  BY <1>1, ReceiptTrue
<1>3. \/ /\ Saved(j)
         /\ IF pc = "await" /\ reply # Rejected THEN Go("finish", scope, None) ELSE Idle
         /\ \/ /\ pending' = None /\ reply' = None
               /\ UNCHANGED <<epoch, orphaned, connected, starts>>
            \/ pc = "idle" /\ Disconnect
      \/ /\ UNCHANGED mem
         /\ Stored(j) \/ UNCHANGED <<disk, terminated>>
         /\ Idle
         /\ \/ Disconnect
            \/ /\ reply' = None
               /\ UNCHANGED <<epoch, orphaned, connected, pending, starts>>
  BY DEF Receive
<1>4. mem' \in {mem, j} /\ disk' \in {disk, j} /\ terminated' \subseteq Scopes
  BY <1>3, StoredFacts DEF Saved
<1> HIDE DEF j
<1>5. /\ mem.controller.gen <= gen /\ disk.controller.gen <= gen
      /\ Resumable(mem) => mem.controller.epoch = epoch
      /\ connected => session /\ Resumable(mem)
  BY DEF WindowInv, SessionOK
<1>6. mem'.controller = mem.controller /\ disk'.controller.gen <= gen BY <1>2, <1>4, <1>5
<1>7. /\ Shaped(mem') /\ TrueTo(mem', sent, abandoned, Existing, creator, hits)
      /\ Shaped(disk') /\ TrueTo(disk', sent, abandoned, Existing, creator, hits)
  BY <1>1, <1>2, <1>4, Known
<1>8. Resumable(mem') => mem'.controller.epoch = epoch BY <1>5, <1>6 DEF Resumable
<1>9. CASE Disconnect /\ Idle BY <1>1, <1>4, <1>5, <1>6, <1>7, <1>8, <1>9, Disconnected
<1>10. CASE /\ reply' = None /\ pending' \in {pending, None}
            /\ UNCHANGED <<epoch, orphaned, connected, starts>>
            /\ \/ Idle /\ (pending' = pending => UNCHANGED mem)
               \/ Saved(j) /\ Go("finish", scope, None) /\ pc = "await" /\ pending' = None
  <2>1. Counted' /\ CreationsOK' BY <1>1, Remembered
  <2>2. JournalsOK' BY <1>1, <1>7, JournalsNext
  <2>3. ProcessOK' BY <1>1, <1>2, <1>4, <1>10 DEF WindowInv, ProcessOK, Past, native
  <2>4. SessionOK' BY <1>1, <1>5, <1>6, <1>10 DEF SessionOK, Resumable, Past, native
  <2>5. \/ pc' = "idle" /\ scope' = None /\ key' = None
        \/ /\ pc' = "finish" /\ scope' = scope /\ scope \in Scopes /\ key' = None
           /\ mem' = disk' /\ pending' = None
    BY <1>10 DEF Idle, Go, Saved, Stored, WindowInv, PlaceOK
  <2>6. PlaceOK' BY <2>5 DEF PlaceOK
  <2>7. ReceiptOK'
    BY <1>1, <1>10, <2>5, Constants DEF WindowInv, ReceiptOK, Past, native, history, Current, Go, Idle
  <2> QED BY <2>1, <2>2, <2>3, <2>4, <2>6, <2>7 DEF WindowInv
<1> QED BY <1>3, <1>9, <1>10, <1>1 DEF Disconnect

LEMMA TimeoutKeeps == ASSUME WindowInv, Timeout PROVE WindowInv'
<1>1. /\ pc = "await" /\ UNCHANGED Past /\ UNCHANGED process /\ mem' = mem /\ disk' \in {disk, mem}
      /\ terminated' \subseteq Scopes /\ pc' = "idle" /\ scope' = None /\ key' = None
  BY StoredFacts DEF Timeout, Idle, Go, Past
<1>2. Counted' /\ CreationsOK' BY <1>1, Remembered
<1>3. JournalsOK' BY <1>1, Known, JournalsNext
<1>4. ProcessOK' /\ SessionOK'
  BY <1>1 DEF WindowInv, ProcessOK, SessionOK, Resumable, Past, native, process
<1>5. ReceiptOK' BY <1>1 DEF WindowInv, ReceiptOK, Past, native, history, process, Current
<1>6. PlaceOK' BY <1>1 DEF PlaceOK
<1> QED BY <1>2, <1>3, <1>4, <1>5, <1>6 DEF WindowInv

LEMMA GiveUpKeeps == ASSUME WindowInv, GiveUp PROVE WindowInv'
<1>1. /\ pc = "idle" /\ UNCHANGED Past /\ UNCHANGED <<mem, disk, terminated, control>>
      /\ connected' = FALSE /\ pending' = None /\ reply' = None
      /\ UNCHANGED <<epoch, orphaned, starts>>
  BY DEF GiveUp, Disconnect, Past
<1>2. Counted' /\ CreationsOK' BY <1>1, Remembered
<1>3. JournalsOK' BY <1>1, Known, JournalsNext DEF control
<1>4. ProcessOK' /\ SessionOK'
  BY <1>1 DEF WindowInv, ProcessOK, SessionOK, Resumable, Past, native
<1>5. ReceiptOK' BY <1>1, Constants DEF ReceiptOK
<1>6. PlaceOK' BY <1>1 DEF WindowInv, PlaceOK, control
<1> QED BY <1>2, <1>3, <1>4, <1>5, <1>6 DEF WindowInv
------------------------------------------------------------------------------
(* Grants.                                                                 *)

LEMMA GrantKeeps ==
  ASSUME WindowInv, pc = "startup", NEW s \in Scopes, NEW j, Grant(s, j), Shaped(j),
         j.windows[s].context = None, j.windows[s].state \in {"none", "recovery_ready"},
         \A t \in Scopes \ {s} : RecordOK(j.windows[t], t, sent, abandoned, Existing, creator),
         j.actions = mem.actions, j.controller.gen <= gen,
         Resumable(j) => j.controller.epoch = epoch,
         orphaned' \in BOOLEAN, UNCHANGED <<epoch, connected, pending, reply, starts>>
  PROVE  WindowInv'
<1>1. /\ UNCHANGED <<gen, session, tree, wire, creator, sent, hits>>
      /\ granted' = [granted EXCEPT ![s] = @ + 1]
      /\ abandoned' = [abandoned EXCEPT ![s] = sent[s]]
      /\ disk' = j /\ terminated' \subseteq Scopes
      /\ \/ mem' = j /\ UNCHANGED control
         \/ mem' = mem /\ pc' = "down" /\ scope' = None /\ key' = None
  BY Known DEF Grant, Saved, Stored, Go, native
<1>2. Counted'
  <2>1. \A t \in Scopes : granted'[t] = IF t = s THEN granted[s] + 1 ELSE granted[t]
    BY <1>1 DEF WindowInv, Counted
  <2>2. \A t \in Scopes : abandoned'[t] = IF t = s THEN sent[s] ELSE abandoned[t]
    BY <1>1 DEF WindowInv, Counted
  <2>3. granted' \in [Scopes -> Nat] /\ abandoned' \in [Scopes -> Nat]
    BY <1>1 DEF WindowInv, Counted
  <2> QED BY <1>1, <2>1, <2>2, <2>3 DEF WindowInv, Counted
<1>3. CreationsOK' BY <1>1 DEF WindowInv, CreationsOK
<1>4. Existing' = Existing BY <1>1 DEF Existing
<1>5. \A k \in Keys \ LegacyKeys : hits[k] = 1 => j.actions[k] # "none"
  BY Known DEF TrueTo
<1>6. abandoned \in [Scopes -> Nat] BY DEF WindowInv, Counted
<1>7. TrueTo(j, sent, abandoned', Existing, creator, hits)
  BY <1>1, <1>5, <1>6, Granted
<1>8. JournalsOK'
  <2>1. Shaped(mem') /\ Shaped(disk') BY <1>1, Known
  <2>2. TrueTo(disk', sent', abandoned', Existing', creator', hits') BY <1>1, <1>4, <1>7
  <2>3. pc' # "down" => TrueTo(mem', sent', abandoned', Existing', creator', hits')
    BY <1>1, <1>4, <1>7
  <2> QED BY <2>1, <2>2, <2>3 DEF JournalsOK, Shaped, TrueTo, RecordOK, Current
<1>9. ProcessOK' BY <1>1 DEF WindowInv, ProcessOK
<1>10. connected = FALSE /\ pending = None
  BY DEF WindowInv, PlaceOK, ReceiptOK, ProcessOK
<1>11. SessionOK' BY <1>1, <1>10 DEF WindowInv, SessionOK, Resumable
<1>12. ReceiptOK' BY <1>1, <1>10, Constants DEF WindowInv, ReceiptOK
<1>13. PlaceOK' BY <1>1, <1>10 DEF WindowInv, PlaceOK, control
<1> QED BY <1>2, <1>3, <1>8, <1>9, <1>11, <1>12, <1>13 DEF WindowInv

LEMMA ReconcileKeeps ==
  ASSUME WindowInv, NEW s \in Scopes, Reconcile(s)
  PROVE  WindowInv'
<1> DEFINE After(t) ==
      IF t = s THEN NoRecord
      ELSE IF mem.windows[t].state \in {"none", "closed", "retired"} THEN mem.windows[t]
      ELSE [NoRecord EXCEPT !.state = "retired"]
           windows == [t \in Scopes |-> After(t)]
           j == [mem EXCEPT !.windows = windows, !.owner = FALSE, !.controller = NoController,
                            !.reconciled = epoch]
<1>1. /\ pc = "startup" /\ Grant(s, j) /\ orphaned' = FALSE
      /\ UNCHANGED <<epoch, connected, pending, reply, starts>>
  BY DEF Reconcile
<1>2. ASSUME NEW t \in Scopes
      PROVE  /\ After(t) \in Records /\ After(t).state \notin {"open", "closing"}
             /\ RecordOK(mem.windows[t], t, sent, abandoned, Existing, creator)
             /\ t # s => RecordOK(After(t), t, sent, abandoned, Existing, creator)
  <2>1. /\ mem.windows[t] \in Records
        /\ RecordOK(mem.windows[t], t, sent, abandoned, Existing, creator)
    BY <1>1, RecordKnown
  <2>2. 0 \in Epochs BY Constants DEF Epochs
  <2>3. NoRecord \in Records /\ NoRecord.state = "none" /\ NoRecord.context = None
    BY <2>2 DEF NoRecord, Records
  <2>4. NoRecord \in Records /\ [NoRecord EXCEPT !.state = "retired"] \in Records
        /\ [NoRecord EXCEPT !.state = "retired"].state = "retired"
        /\ [NoRecord EXCEPT !.state = "retired"].context = None /\ NoRecord.state = "none"
    BY <2>3 DEF Records
  <2>5. RecordOK([NoRecord EXCEPT !.state = "retired"], t, sent, abandoned, Existing, creator)
    BY <2>4 DEF RecordOK
  <2> QED BY <2>1, <2>4, <2>5
<1>3. After(s) = NoRecord OBVIOUS
<1> HIDE DEF After
<1>4. windows \in [Scopes -> Records] BY <1>2
<1>5. /\ NoController \in Controllers /\ NoController.state = "none" /\ NoController.gen = 0
      /\ epoch \in Epochs
  BY Constants DEF NoController, Controllers, Epochs, WindowInv, ProcessOK
<1>6. \A t \in Scopes : windows[t] = After(t) OBVIOUS
<1> HIDE DEF windows
<1>7. /\ j \in Journals /\ j.windows = windows /\ j.controller = NoController
      /\ j.actions = mem.actions
  BY <1>4, <1>5, PriorStates DEF Journals
<1> HIDE DEF j
<1>8. Shaped(j) BY <1>2, <1>5, <1>6, <1>7 DEF Shaped
<1>9. j.windows[s].context = None /\ j.windows[s].state = "none"
  BY <1>3, <1>6, <1>7 DEF NoRecord
<1>10. \A t \in Scopes \ {s} : RecordOK(j.windows[t], t, sent, abandoned, Existing, creator)
  BY <1>2, <1>6, <1>7
<1>11. j.controller.gen <= gen /\ ~Resumable(j)
  BY <1>5, <1>7 DEF Resumable, WindowInv, ProcessOK
<1> QED BY <1>1, <1>7, <1>8, <1>9, <1>10, <1>11, GrantKeeps

LEMMA AuthorizeKeeps ==
  ASSUME WindowInv, NEW s \in Scopes, AuthorizeBinding(s) \/ AuthorizeCreation(s)
  PROVE  WindowInv'
<1> DEFINE r == [mem.windows[s] EXCEPT !.state = "recovery_ready"]
<1>1. /\ pc = "startup" /\ UNCHANGED process
      /\ mem.windows[s].state = "retired" \/ mem.windows[s].context = None
  BY DEF AuthorizeBinding, AuthorizeCreation
<1>2. PICK j : /\ Grant(s, j)
               /\ \/ j = [mem EXCEPT !.windows[s].state = "recovery_ready", !.recovery[s] = epoch]
                  \/ j = [mem EXCEPT !.windows[s].state = "recovery_ready", !.recovery[s] = epoch,
                                     !.recreated[s] = TRUE]
  BY DEF AuthorizeBinding, AuthorizeCreation
<1>3. \A t \in Scopes :
        /\ mem.windows[t] \in Records
        /\ RecordOK(mem.windows[t], t, sent, abandoned, Existing, creator)
  BY <1>1, RecordKnown
<1>4. mem \in Journals /\ epoch \in Epochs BY PriorStates DEF WindowInv, ProcessOK
<1>5. r \in Records /\ r.state = "recovery_ready" /\ r.context = None
  BY <1>1, <1>3 DEF Records, RecordOK
<1> DEFINE x == [mem.windows EXCEPT ![s] = r]
           y == [mem.recovery EXCEPT ![s] = epoch]
           z == [mem.recreated EXCEPT ![s] = TRUE]
<1>6. x \in [Scopes -> Records] /\ y \in [Scopes -> Epochs] /\ z \in [Scopes -> BOOLEAN]
  BY <1>4, <1>5 DEF Journals
<1>7. j = [mem EXCEPT !.windows = x, !.recovery = y]
       \/ j = [mem EXCEPT !.windows = x, !.recovery = y, !.recreated = z]
  BY <1>2
<1> HIDE DEF x, y, z
<1>8. j \in Journals /\ j.actions = mem.actions /\ j.controller = mem.controller /\ j.windows = x
  BY <1>4, <1>6, <1>7 DEF Journals
<1>9. /\ j \in Journals /\ j.actions = mem.actions /\ j.controller = mem.controller
      /\ j.windows = [mem.windows EXCEPT ![s] = r]
  BY <1>8 DEF x
<1> HIDE DEF r
<1>10. \A t \in Scopes : j.windows[t] = IF t = s THEN r ELSE mem.windows[t]
  BY <1>4, <1>9 DEF Journals
<1>11. Shaped(j) BY <1>5, <1>9, <1>10, Known DEF Shaped
<1>12. j.controller.gen <= gen /\ (Resumable(j) => j.controller.epoch = epoch)
  BY <1>9 DEF WindowInv, SessionOK, Resumable
<1>13. \A t \in Scopes \ {s} : RecordOK(j.windows[t], t, sent, abandoned, Existing, creator)
  BY <1>3, <1>10
<1>14. orphaned' \in BOOLEAN /\ UNCHANGED <<epoch, connected, pending, reply, starts>>
  BY <1>1 DEF process, WindowInv, ProcessOK
<1> QED BY <1>1, <1>2, <1>5, <1>9, <1>10, <1>11, <1>12, <1>13, <1>14, GrantKeeps
------------------------------------------------------------------------------
(* What is sent, and Firefox.                                              *)

LEMMA SendCreateKeeps == ASSUME WindowInv, SendCreate PROVE WindowInv'
<1> DEFINE c == [scope |-> scope, n |-> sent[scope] + 1]
<1>1. /\ pc = "create" /\ connected /\ wire' = wire \cup {c} /\ pending' = c /\ reply' = None
      /\ sent' = [sent EXCEPT ![scope] = @ + 1]
      /\ pc' = "await" /\ scope' = scope /\ key' = None
      /\ UNCHANGED <<mem, disk, terminated, epoch, orphaned, connected, starts,
                     gen, session, tree, creator, granted, abandoned, hits>>
  BY DEF SendCreate, Go
<1>2. /\ scope \in Scopes /\ mem = disk /\ sent[scope] = abandoned[scope]
      /\ mem.windows[scope].state = "creating" /\ mem.windows[scope].context = None
  BY <1>1 DEF WindowInv, PlaceOK
<1>3. sent \in [Scopes -> Nat] /\ abandoned \in [Scopes -> Nat] BY DEF WindowInv, Counted
<1>4. c \in Creations /\ c.scope = scope /\ c.n = sent[scope] + 1 BY <1>2, <1>3 DEF Creations
<1>5. /\ sent' \in [Scopes -> Nat]
      /\ \A s \in Scopes : sent'[s] = IF s = scope THEN sent[s] + 1 ELSE sent[s]
  BY <1>1, <1>2, <1>3
<1>6. c = Current(scope, sent') BY <1>2, <1>5 DEF Current
<1> HIDE DEF c
<1>7. Counted' BY <1>1, <1>2, <1>5 DEF WindowInv, Counted
<1>8. ASSUME NEW w \in Windows PROVE creator[w] # c
  <2>1. creator[w] \in Creations => creator[w].n <= sent[creator[w].scope]
    BY DEF WindowInv, CreationsOK
  <2> QED BY <1>2, <1>3, <1>4, <2>1
<1>9. CreationsOK'
  <2>1. \A d \in wire' : d.n <= sent'[d.scope] /\ \A w \in Windows : creator[w] # d
    <3> SUFFICES ASSUME NEW d \in wire'
                 PROVE  d.n <= sent'[d.scope] /\ \A w \in Windows : creator[w] # d
      OBVIOUS
    <3>1. CASE d = c BY <1>2, <1>4, <1>5, <1>8, <3>1
    <3>2. CASE d \in wire
      <4>1. d \in Creations /\ d.n <= sent[d.scope] /\ \A w \in Windows : creator[w] # d
        BY <3>2 DEF WindowInv, CreationsOK
      <4>2. d.scope \in Scopes /\ d.n \in Nat BY <4>1 DEF Creations
      <4> QED BY <1>3, <1>5, <4>1, <4>2
    <3> QED BY <1>1, <3>1, <3>2
  <2>2. ASSUME NEW w \in Windows, creator[w] \in Creations
        PROVE  creator[w].n <= sent'[creator[w].scope]
    <3>1. creator[w].n <= sent[creator[w].scope] BY <2>2 DEF WindowInv, CreationsOK
    <3>2. creator[w].scope \in Scopes /\ creator[w].n \in Nat BY <2>2 DEF Creations
    <3> QED BY <1>3, <1>5, <3>1, <3>2
  <2>3. wire' \subseteq Creations BY <1>1, <1>4 DEF WindowInv, CreationsOK
  <2> QED BY <1>1, <2>1, <2>2, <2>3 DEF WindowInv, CreationsOK
<1>10. TrueTo(mem, sent', abandoned, Existing', creator, hits)
  <2>1. TrueTo(mem, sent, abandoned, Existing, creator, hits) BY <1>1, Known
  <2>2. \A d \in Existing' : d = c \/ d \in Existing BY <1>1 DEF Existing
  <2>3. ASSUME NEW s \in Scopes
        PROVE  RecordOK(mem.windows[s], s, sent', abandoned, Existing', creator)
    <3>1. CASE s = scope BY <1>2, <3>1 DEF RecordOK
    <3>2. CASE s # scope
      <4>1. RecordOK(mem.windows[s], s, sent, abandoned, Existing, creator) BY <2>1 DEF TrueTo
      <4>2. sent'[s] = sent[s] /\ c.scope # s BY <1>4, <1>5, <3>2
      <4> QED BY <2>2, <4>1, <4>2 DEF RecordOK, Current
    <3> QED BY <3>1, <3>2
  <2> QED BY <2>1, <2>3 DEF TrueTo
<1>11. JournalsOK'
  BY <1>1, <1>2, <1>10, Known DEF JournalsOK, Shaped, TrueTo, RecordOK, Current
<1>12. ProcessOK' /\ SessionOK'
  BY <1>1, <1>4 DEF WindowInv, ProcessOK, SessionOK, Resumable
<1>13. sent'[scope] > abandoned'[scope] BY <1>1, <1>2, <1>3, <1>5
<1>14. ReceiptOK' BY <1>1, <1>2, <1>4, <1>6, <1>13, Constants DEF ReceiptOK, Current
<1>15. PlaceOK' BY <1>1, <1>2 DEF PlaceOK
<1> QED BY <1>7, <1>9, <1>11, <1>12, <1>14, <1>15 DEF WindowInv

LEMMA SendInputKeeps == ASSUME WindowInv, SendInput PROVE WindowInv'
<1>1. /\ pc = "input" /\ hits' = [hits EXCEPT ![key] = @ + 1]
      /\ pc' = "confirm" /\ scope' = scope /\ key' = key
      /\ UNCHANGED <<mem, disk, terminated, process, native, sent, granted, abandoned>>
  BY DEF SendInput, Go
<1>2. /\ scope \in Scopes /\ key \in Keys \ LegacyKeys /\ mem = disk
      /\ mem.actions[key] # "none" /\ hits[key] = 0
  BY <1>1 DEF WindowInv, PlaceOK
<1>3. /\ hits' \in [Keys -> {0, 1}]
      /\ \A k \in Keys : hits'[k] = IF k = key THEN 1 ELSE hits[k]
  BY <1>1, <1>2 DEF WindowInv, Counted
<1>4. Counted' BY <1>1, <1>3 DEF WindowInv, Counted
<1>5. CreationsOK' BY <1>1 DEF WindowInv, CreationsOK, native
<1>6. TrueTo(mem, sent, abandoned, Existing, creator, hits) BY <1>1, Known
<1>7. TrueTo(mem, sent, abandoned, Existing, creator, hits') BY <1>2, <1>3, <1>6 DEF TrueTo
<1>8. Existing' = Existing BY <1>1 DEF Existing, native
<1>9. JournalsOK'
  BY <1>1, <1>2, <1>7, <1>8, Known DEF JournalsOK, Shaped, TrueTo, RecordOK, Current, native
<1>10. ProcessOK' /\ SessionOK'
  BY <1>1 DEF WindowInv, ProcessOK, SessionOK, Resumable, process, native
<1>11. pending = None BY <1>1 DEF WindowInv, ReceiptOK
<1>12. ReceiptOK' BY <1>1, <1>11, Constants DEF WindowInv, ReceiptOK, process, native
<1>13. PlaceOK' BY <1>1, <1>2 DEF PlaceOK
<1> QED BY <1>4, <1>5, <1>9, <1>10, <1>12, <1>13 DEF WindowInv

\* A step of Firefox leaves the journals true if no creation appears.
LEMMA NativeStep ==
  ASSUME WindowInv, UNCHANGED <<mem, disk, history>>, pc' = "down" <=> pc = "down",
         \A c \in Existing' : c \in Existing \/ c \notin Creations,
         \A w \in Windows : creator[w] \in Creations => creator'[w] = creator[w]
  PROVE  Counted' /\ JournalsOK'
<1>1. sent \in [Scopes -> Nat] /\ abandoned \in [Scopes -> Nat] BY DEF WindowInv, Counted
<1>2. Counted' BY DEF WindowInv, Counted, history
<1>3. Shaped(mem) /\ Shaped(disk) BY Known
<1>4. TrueTo(disk, sent, abandoned, Existing', creator', hits)
  BY <1>1, <1>3, Known, StaysTrue
<1>5. pc # "down" => TrueTo(mem, sent, abandoned, Existing', creator', hits)
  BY <1>1, <1>3, Known, StaysTrue
<1>6. JournalsOK'
  BY <1>3, <1>4, <1>5 DEF JournalsOK, Shaped, TrueTo, RecordOK, Current, history
<1> QED BY <1>2, <1>6

LEMMA SendCloseKeeps == ASSUME WindowInv, SendClose PROVE WindowInv'
<1>1. /\ pc = "close" /\ tree' \subseteq tree /\ pc' = "closed" /\ scope' = scope /\ key' = None
      /\ UNCHANGED <<mem, disk, terminated, process, gen, session, wire, creator>>
      /\ UNCHANGED history
  BY DEF SendClose, Go, history
<1>2. \A c \in Existing' : c \in Existing BY <1>1 DEF Existing
<1>3. Counted' /\ JournalsOK' BY <1>1, <1>2, NativeStep
<1>4. CreationsOK' BY <1>1 DEF WindowInv, CreationsOK, history
<1>5. ProcessOK' /\ SessionOK' BY <1>1 DEF WindowInv, ProcessOK, SessionOK, Resumable, process
<1>6. pending = None /\ scope \in Scopes /\ mem = disk BY <1>1 DEF WindowInv, ReceiptOK, PlaceOK
<1>7. ReceiptOK' BY <1>1, <1>6, Constants DEF WindowInv, ReceiptOK, process
<1>8. PlaceOK' BY <1>1, <1>6 DEF PlaceOK
<1> QED BY <1>3, <1>4, <1>5, <1>7, <1>8 DEF WindowInv

\* A window that opens is a new one.
LEMMA Opened ==
  ASSUME WindowInv, NEW who \in Creations \cup {User}, Open(who),
         who \in Creations => who \in wire,
         wire' = wire \ {who}, UNCHANGED <<mem, disk, terminated, control, epoch, orphaned, connected,
                                           pending, starts, gen, session, history>>
  PROVE  WindowInv'
<1>1. PICK w \in Windows :
        /\ \A v \in Windows : creator[v] = None <=> v >= w
        /\ creator' = [creator EXCEPT ![w] = who]
        /\ tree' = tree \cup {w}
        /\ reply' = IF who = pending THEN w ELSE reply
  BY DEF Open
<1>2. creator[w] = None BY <1>1 DEF Windows
<1>3. who # None BY Constants
<1>4. /\ creator' \in [Windows -> Creations \cup {None, User}]
      /\ \A v \in Windows : creator'[v] = IF v = w THEN who ELSE creator[v]
  BY <1>1 DEF WindowInv, CreationsOK
<1>5. \A c \in Existing' : c \in Existing \/ c \notin Creations
  <2> SUFFICES ASSUME NEW c \in Existing', c \in Creations PROVE c \in Existing OBVIOUS
  <2>1. CASE c \in wire' BY <2>1 DEF Existing
  <2>2. CASE c \notin wire'
    <3>1. PICK v \in tree' : c = creator'[v] BY <2>2 DEF Existing
    <3>2. v \in Windows BY <1>1 DEF WindowInv, CreationsOK
    <3>3. CASE v = w
      <4>1. c = who /\ who \in wire BY <1>4, <3>1, <3>2, <3>3, Constants
      <4> QED BY <4>1 DEF Existing
    <3>4. CASE v # w BY <1>1, <1>4, <3>1, <3>2, <3>4 DEF Existing
    <3> QED BY <3>3, <3>4
  <2> QED BY <2>1, <2>2
<1>6. \A v \in Windows : creator[v] \in Creations => creator'[v] = creator[v]
  BY <1>2, <1>4, Constants
<1>7. Counted' /\ JournalsOK' BY <1>5, <1>6, NativeStep DEF control
<1>8. \A c \in wire : c.n <= sent[c.scope] /\ \A v \in Windows : creator[v] # c
  BY DEF WindowInv, CreationsOK
<1>9. CreationsOK'
  <2>1. wire' \subseteq Creations /\ tree' \subseteq Windows BY <1>1 DEF WindowInv, CreationsOK
  <2>2. \A c \in wire' : c.n <= sent'[c.scope] /\ \A v \in Windows : creator'[v] # c
    BY <1>4, <1>8 DEF history
  <2>3. ASSUME NEW v \in Windows, creator'[v] \in Creations
        PROVE  /\ creator'[v].n <= sent'[creator'[v].scope]
               /\ \A u \in Windows : creator'[u] = creator'[v] => u = v
    <3>1. \A u \in Windows : creator[u] \in Creations =>
            /\ creator[u].n <= sent[creator[u].scope]
            /\ \A x \in Windows : creator[x] = creator[u] => x = u
      BY DEF WindowInv, CreationsOK
    <3>2. CASE v = w
      <4>1. creator'[v] = who /\ who \in wire BY <1>4, <2>3, <3>2
      <4> QED BY <1>4, <1>8, <3>2, <4>1 DEF history
    <3>3. CASE v # w
      <4>1. creator'[v] = creator[v] /\ creator[v] \in Creations BY <1>4, <2>3, <3>3
      <4>2. who # creator[v] BY <1>8, <4>1, Constants
      <4> QED BY <1>4, <3>1, <3>3, <4>1, <4>2 DEF history
    <3> QED BY <3>2, <3>3
  <2> QED BY <1>4, <2>1, <2>2, <2>3 DEF CreationsOK
<1>10. ProcessOK' /\ SessionOK'
  BY <1>1 DEF WindowInv, ProcessOK, SessionOK, Resumable
<1>11. ReceiptOK'
  <2>1. pending \in Creations \cup {None} /\ reply \in Windows \cup {None, Rejected}
    BY DEF WindowInv, ProcessOK
  <2>2. /\ pending = None => reply = None
        /\ reply = Rejected => pending \notin wire /\ \A v \in Windows : creator[v] # pending
        /\ reply \in Windows => creator[reply] = pending
    BY DEF WindowInv, ReceiptOK
  <2>3. pending' # None =>
          /\ pc' \in {"await", "idle"} /\ connected'
          /\ pending' = Current(pending'.scope, sent') /\ sent'[pending'.scope] > abandoned'[pending'.scope]
          /\ mem'.windows[pending'.scope].state = "creating"
    BY DEF WindowInv, ReceiptOK, control, history, Current
  <2>4. CASE who = pending
    <3>1. reply' = w /\ creator'[w] = pending /\ pending # None /\ w # Rejected
      BY <1>1, <1>3, <1>4, <2>4, Constants
    <3> QED BY <2>3, <3>1 DEF ReceiptOK
  <2>5. CASE who # pending
    <3>1. reply' = reply BY <1>1, <2>5
    <3>2. reply \in Windows => reply # w /\ creator'[reply] = creator[reply]
      BY <1>2, <1>4, <2>2, Constants
    <3>3. \A v \in Windows : creator'[v] = pending => creator[v] = pending BY <1>4, <2>5
    <3> QED BY <2>2, <2>3, <3>1, <3>2, <3>3 DEF ReceiptOK
  <2> QED BY <2>4, <2>5
<1>12. PlaceOK' BY DEF WindowInv, PlaceOK, control, history
<1> QED BY <1>7, <1>9, <1>10, <1>11, <1>12 DEF WindowInv

LEMMA CreateKeeps == ASSUME WindowInv, NEW c \in wire, Create(c) PROVE WindowInv'
<1>1. c \in Creations BY DEF WindowInv, CreationsOK
<1> QED BY <1>1, Opened DEF Create

LEMMA UserOpensKeeps == ASSUME WindowInv, UserOpens PROVE WindowInv'
<1>1. User \notin wire BY Constants DEF WindowInv, CreationsOK
<1>2. wire' = wire \ {User} BY <1>1 DEF UserOpens
<1> QED BY <1>2, Opened, Constants DEF UserOpens

LEMMA RejectKeeps == ASSUME WindowInv, NEW c \in wire, Reject(c) PROVE WindowInv'
<1>1. /\ wire' = wire \ {c} /\ reply' = IF c = pending THEN Rejected ELSE reply
      /\ UNCHANGED <<mem, disk, terminated, control, epoch, orphaned, connected, pending,
                     starts, gen, session, tree, creator>>
      /\ UNCHANGED history
  BY DEF Reject
<1>2. \A d \in Existing' : d \in Existing BY <1>1 DEF Existing
<1>3. Counted' /\ JournalsOK' BY <1>1, <1>2, NativeStep DEF control
<1>4. CreationsOK' BY <1>1 DEF WindowInv, CreationsOK, history
<1>5. ProcessOK' /\ SessionOK' BY <1>1 DEF WindowInv, ProcessOK, SessionOK, Resumable
<1>6. c \in Creations /\ c # None /\ \A w \in Windows : creator[w] # c
  BY Constants DEF WindowInv, CreationsOK
<1>7. ReceiptOK'
  BY <1>1, <1>6, Constants DEF WindowInv, ReceiptOK, control, history, Current
<1>8. PlaceOK' BY <1>1 DEF WindowInv, PlaceOK, control, history
<1> QED BY <1>3, <1>4, <1>5, <1>7, <1>8 DEF WindowInv

LEMMA UserClosesKeeps ==
  ASSUME WindowInv, NEW w \in tree, UserCloses(w)
  PROVE  WindowInv'
<1>1. /\ tree' = tree \ {w}
      /\ UNCHANGED <<mem, disk, terminated, control, process, gen, session, wire, creator, history>>
  BY DEF UserCloses
<1>2. \A c \in Existing' : c \in Existing BY <1>1 DEF Existing
<1>3. Counted' /\ JournalsOK' BY <1>1, <1>2, NativeStep DEF control
<1>4. CreationsOK' BY <1>1 DEF WindowInv, CreationsOK, history
<1>5. ProcessOK' /\ SessionOK' BY <1>1 DEF WindowInv, ProcessOK, SessionOK, Resumable, process
<1>6. ReceiptOK' BY <1>1 DEF WindowInv, ReceiptOK, control, history, process, Current
<1>7. PlaceOK' BY <1>1 DEF WindowInv, PlaceOK, control, history, process
<1> QED BY <1>3, <1>4, <1>5, <1>6, <1>7 DEF WindowInv

\* Another process has no session, and resumes none.
LEMMA RestartFirefoxKeeps == ASSUME WindowInv, RestartFirefox PROVE WindowInv'
<1>1. /\ gen < MaxNative /\ gen' = gen + 1 /\ session' = FALSE /\ tree' = {} /\ wire' = {}
      /\ IF connected THEN Disconnect ELSE UNCHANGED process
      /\ UNCHANGED <<mem, disk, terminated, control, creator, history>>
  BY DEF RestartFirefox
<1>2. \A c \in Existing' : c \in Existing BY <1>1 DEF Existing
<1>3. Counted' /\ JournalsOK' BY <1>1, <1>2, NativeStep DEF control
<1>4. CreationsOK' BY <1>1 DEF WindowInv, CreationsOK, history
<1>5. connected' = FALSE /\ pending' = None /\ reply' = None /\ UNCHANGED <<epoch, orphaned, starts>>
  BY <1>1 DEF Disconnect, process, WindowInv, ReceiptOK, ProcessOK
<1>6. gen \in Nat /\ gen' \in 1 .. MaxNative BY <1>1, Constants DEF WindowInv, ProcessOK
<1>7. ProcessOK' BY <1>1, <1>5, <1>6 DEF WindowInv, ProcessOK
<1>8. mem.controller.gen \in Nat /\ disk.controller.gen \in Nat
  BY PriorStates, Constants DEF Journals, Controllers
<1>9. SessionOK' BY <1>1, <1>5, <1>6, <1>8 DEF WindowInv, SessionOK, Resumable
<1>10. ReceiptOK' BY <1>5, Constants DEF ReceiptOK
<1>11. PlaceOK' BY <1>1, <1>5 DEF WindowInv, PlaceOK, control, history
<1> QED BY <1>3, <1>4, <1>7, <1>9, <1>10, <1>11 DEF WindowInv
------------------------------------------------------------------------------
(* The theorems.                                                           *)

LEMMA InitWindowInv == Init => WindowInv
<1> SUFFICES ASSUME Init PROVE WindowInv OBVIOUS
<1> USE Constants DEF Init
<1>1. 0 \in Epochs /\ 1 \in Epochs \ {0} /\ 0 \in 0 .. MaxNative /\ 1 \in 1 .. MaxNative
  BY DEF Epochs
<1>2. NoRecord \in Records /\ NoController \in Controllers
  BY <1>1 DEF NoRecord, Records, NoController, Controllers
<1>3. Shaped(mem) /\ mem.controller = NoController
  BY <1>1, <1>2 DEF Shaped, Journals, NoRecord, NoController
<1>4. TrueTo(mem, sent, abandoned, Existing, creator, hits)
  BY DEF TrueTo, RecordOK, NoRecord
<1>5. ProcessOK BY <1>1 DEF ProcessOK
<1>6. SessionOK BY <1>1, <1>3 DEF SessionOK, Resumable, NoController
<1>7. Counted BY DEF Counted
<1>8. CreationsOK BY DEF CreationsOK
<1>9. ReceiptOK BY DEF ReceiptOK
<1>10. PlaceOK BY DEF PlaceOK
<1>11. JournalsOK BY <1>3, <1>4 DEF JournalsOK
<1> QED BY <1>5, <1>6, <1>7, <1>8, <1>9, <1>10, <1>11 DEF WindowInv

LEMMA NextWindowInv == WindowInv /\ [Next]_vars => WindowInv'
<1> SUFFICES ASSUME WindowInv, [Next]_vars PROVE WindowInv' OBVIOUS
<1>1. CASE Restart \/ Serve BY <1>1, RestartKeeps, ServeKeeps
<1>2. CASE Operator BY <1>2, ReconcileKeeps, AuthorizeKeeps DEF Operator
<1>3. CASE Reconnect \/ ReserveSession \/ CreateSession \/ RecordSession \/ Fail
  BY <1>3, ReconnectKeeps, ReserveSessionKeeps, CreateSessionKeeps, RecordSessionKeeps, FailKeeps
<1>4. CASE Acquire
  BY <1>4, TakeOwnerKeeps, SendCreateKeeps, NotSentKeeps, ReceiveKeeps, TimeoutKeeps, GiveUpKeeps,
     ReserveKeeps, FinishKeeps DEF Acquire
<1>5. CASE Act
  BY <1>5, SendInputKeeps, ConfirmInputKeeps, SendCloseKeeps, TombstoneKeeps, FenceRetiredKeeps,
     BeginCloseKeeps, ConfirmCloseKeeps, BeginInputKeeps DEF Act
<1>6. CASE Firefox
  BY <1>6, CreateKeeps, RejectKeeps, UserOpensKeeps, UserClosesKeeps, RestartFirefoxKeeps DEF Firefox
<1>7. CASE UNCHANGED vars
  BY <1>7 DEF vars, control, process, native, history, WindowInv, ProcessOK, SessionOK, Resumable,
     Counted, CreationsOK, ReceiptOK, PlaceOK, JournalsOK, Shaped, TrueTo, RecordOK, Current, Existing
<1> QED BY <1>1, <1>2, <1>3, <1>4, <1>5, <1>6, <1>7 DEF Next

\* The invariant of the controller: no process uses a journal that is not true
\* to what was sent, and what is about to be sent was not sent before.
THEOREM WindowInvariant == Spec => []WindowInv
BY InitWindowInv, NextWindowInv, PTL DEF Spec

\* Journal, process and Firefox keep their types, and a connected observer is of
\* the session in memory, which runs (_call, _connect, _resumable).
THEOREM TypeCorrect == Spec => []TypeOK
<1>1. WindowInv => TypeOK
  <2> SUFFICES ASSUME WindowInv PROVE TypeOK OBVIOUS
  <2>1. ProcessOK /\ SessionOK /\ Counted /\ CreationsOK /\ ReceiptOK /\ PlaceOK
    BY DEF WindowInv
  <2>2. connected => mem.controller = [state |-> "ready", epoch |-> epoch, gen |-> gen] /\ session
    <3>1. mem.controller \in Controllers BY PriorStates
    <3>2. mem.controller = [state |-> mem.controller.state, epoch |-> mem.controller.epoch,
                            gen |-> mem.controller.gen]
      BY <3>1 DEF Controllers
    <3>3. connected => /\ session /\ mem.controller.state = "ready"
                       /\ mem.controller.epoch = epoch /\ mem.controller.gen = gen
      BY <2>1 DEF SessionOK, Resumable
    <3> QED BY <3>2, <3>3
  <2>3. \A s \in Scopes : mem.windows[s].state \in {"open", "closing"} => mem.windows[s].context # None
    BY DEF WindowInv, JournalsOK, Shaped
  <2>4. hits \in [Keys -> Nat] BY <2>1 DEF Counted
  <2> QED BY <2>1, <2>2, <2>3, <2>4, PriorStates
          DEF TypeOK, ProcessOK, Counted, CreationsOK, ReceiptOK, PlaceOK
<1> QED BY <1>1, WindowInvariant, PTL

\* No scope has a second window asked for without a grant that names it, and no
\* action key is delivered twice, over lost replies, failed saves, recoveries,
\* and any number of controller and Firefox processes (acquire, _input,
\* reconcile_generation, authorize_binding, authorize_creation_recovery).
THEOREM NothingIsTwice == Spec => []NothingTwice
<1>1. WindowInv => NothingTwice
  BY DEF WindowInv, Counted, NothingTwice, CreatedAtMostOnce, InputAtMostOnce
<1> QED BY <1>1, WindowInvariant, PTL

\* A scope's input and close go to the window its own last creation opened, and a
\* scope that is closed has no window left or yet to come but those a grant
\* abandoned (_finish_creation, lifecycle, _input).
THEOREM WindowSafety == Spec => []WindowsAreAccounted
<1>1. WindowInv => WindowsAreAccounted
  <2> SUFFICES ASSUME WindowInv PROVE WindowsAreAccounted OBVIOUS
  <2>1. BoundToItsOwnCreation
    <3> SUFFICES ASSUME NEW s \in Scopes, pc # "down", mem.windows[s].context # None
                 PROVE  LET c == creator[mem.windows[s].context] IN
                        c \in Creations /\ c.scope = s /\ c.n = sent[s] /\ c.n > abandoned[s]
      BY DEF BoundToItsOwnCreation
    <3>1. RecordOK(mem.windows[s], s, sent, abandoned, Existing, creator) BY RecordKnown
    <3>2. creator[mem.windows[s].context] = Current(s, sent) /\ sent[s] > abandoned[s]
      BY <3>1 DEF RecordOK
    <3>3. sent[s] \in Nat /\ abandoned[s] \in Nat BY DEF WindowInv, Counted
    <3>4. sent[s] \in Nat \ {0} BY <3>2, <3>3
    <3>5. Current(s, sent) \in Creations /\ Current(s, sent).scope = s /\ Current(s, sent).n = sent[s]
      BY <3>4 DEF Current, Creations
    <3> QED BY <3>2, <3>5
  <2>2. ClosedMeansGone
    BY DEF WindowInv, JournalsOK, TrueTo, RecordOK, ClosedMeansGone, Existing
  <2> QED BY <2>1, <2>2 DEF WindowsAreAccounted
<1> QED BY <1>1, WindowInvariant, PTL
==============================================================================
