---------------------------- MODULE FirefoxWindows ----------------------------
(***************************************************************************)
(* The resident window controller of src/files/firefox-browser             *)
(* /firefox_windows.py: one native window per request scope in one Firefox *)
(* session, a journal that is saved before every creation, input and       *)
(* close, and the local recoveries of an operator.                         *)
(*                                                                         *)
(* One controller process runs at a time (controller_lease) and its        *)
(* operations are serialized by its lock, but it may be killed, and Firefox*)
(* restarted, between any two steps, a save may fail before or after it    *)
(* reached the disk, and a reply may be late or lost.  A window stands for *)
(* its one browsing context; observation, navigation, budgets, expiry and  *)
(* foreign contexts in a bound window only refuse, or change nothing.      *)
(***************************************************************************)
EXTENDS Integers, FiniteSets

CONSTANTS
  Scopes,       \* request scopes; the owner's is mem.owner
  Keys,         \* action keys
  LegacyKeys,   \* keys already used in the journal of the earlier bridge
  None,         \* no scope, key, window or creation
  User,         \* the creator of the owner's own windows
  Rejected,     \* the reply to a creation without effect
  MaxWindows,   \* bound on native windows ever opened
  MaxStarts,    \* bound on controller processes
  MaxNative     \* bound on Firefox processes

VARIABLES
  mem,        \* self.state
  disk,       \* windows.json
  epoch,      \* self.epoch
  orphaned,   \* self.orphaned
  connected,  \* self.browser is an observer socket and not self.broken
  pending,    \* its creation without a reply
  reply,      \* the reply to it, not yet received
  pc,         \* where the operation under way is
  scope,      \* its scope
  key,        \* and action key
  starts,     \* controller processes so far
  gen,        \* the Firefox process
  session,    \* its driver holds a session
  tree,       \* its windows, without the owner's initial one
  wire,       \* creations sent to it and not handled
  creator,    \* creator[w] (history, as are all below)
  sent,       \* sent[s]: creations sent for scope s
  granted,    \* granted[s]: operator's grants that name s
  abandoned,  \* abandoned[s]: creations before the last of them
  hits,       \* hits[k]: deliveries of key k
  terminated  \* scopes whose terminal event was saved

control == <<pc, scope, key>>
process == <<epoch, orphaned, connected, pending, reply, starts>>
native  == <<gen, session, tree, wire, creator>>
history == <<sent, granted, abandoned, hits>>
vars    == <<mem, disk, terminated, control, process, native, history>>

Windows   == 1 .. MaxWindows
Epochs    == 0 .. MaxStarts
Creations == [scope : Scopes, n : Nat \ {0}]

ASSUME FirefoxAssumption ==
  /\ LegacyKeys \subseteq Keys
  /\ None \notin Scopes \cup Keys \cup Windows \cup Creations
  /\ User \notin Creations \cup {None} /\ Rejected \notin Windows \cup {None}
  /\ MaxWindows \in Nat /\ MaxStarts \in Nat \ {0} /\ MaxNative \in Nat \ {0}

NoRecord == [state |-> "none", epoch |-> 0, context |-> None, terminal |-> FALSE]
Records  == [state : {"none", "creating", "create_failed", "open", "closing",
                      "closed", "retired", "recovery_ready"},
             epoch : Epochs, context : Windows \cup {None}, terminal : BOOLEAN]

NoController == [state |-> "none", epoch |-> 0, gen |-> 0]
Controllers  == [state : {"none", "creating", "ready"}, epoch : Epochs, gen : 0 .. MaxNative]

Journals ==
  [windows : [Scopes -> Records], owner : BOOLEAN, controller : Controllers,
   actions : [Keys -> {"none", "started", "uncertain", "delivered"}],
   reconciled : Epochs,                  \* reconciliation.epoch
   recovery : [Scopes -> Epochs],        \* binding_recoveries: the grant's epoch
   recreated : [Scopes -> BOOLEAN]]      \* creation_recoveries

TypeOK ==
  /\ mem \in Journals /\ disk \in Journals
  /\ epoch \in Epochs \ {0}
  /\ {orphaned, connected, session} \subseteq BOOLEAN
  /\ pending \in Creations \cup {None}
  /\ reply \in Windows \cup {None, Rejected}
  /\ pc \in {"startup", "down", "idle", "session", "ready", "create", "await", "finish",
             "input", "confirm", "close", "closed"}
  /\ scope \in Scopes \cup {None} /\ key \in Keys \cup {None}
  /\ starts \in Epochs /\ gen \in 1 .. MaxNative
  /\ tree \subseteq Windows /\ wire \subseteq Creations
  /\ creator \in [Windows -> Creations \cup {None, User}]
  /\ sent \in [Scopes -> Nat] /\ granted \in [Scopes -> Nat] /\ abandoned \in [Scopes -> Nat]
  /\ hits \in [Keys -> Nat]
  /\ terminated \subseteq Scopes
  \* An observer is connected to the session in memory, which it never outlives.
  /\ connected => mem.controller = [state |-> "ready", epoch |-> epoch, gen |-> gen] /\ session
  /\ pending # None => connected /\ mem.windows[pending.scope].state = "creating"
  /\ \A s \in Scopes : mem.windows[s].state \in {"open", "closing"} => mem.windows[s].context # None

Init ==
  /\ mem = [windows |-> [s \in Scopes |-> NoRecord], owner |-> FALSE,
            controller |-> NoController, actions |-> [k \in Keys |-> "none"],
            reconciled |-> 0, recovery |-> [s \in Scopes |-> 0],
            recreated |-> [s \in Scopes |-> FALSE]]
  /\ disk = mem
  /\ epoch = 1 /\ starts = 1
  /\ orphaned = FALSE /\ connected = FALSE
  /\ pending = None /\ reply = None
  /\ pc = "startup" /\ scope = None /\ key = None
  /\ gen = 1 /\ session = FALSE /\ tree = {} /\ wire = {}
  /\ creator = [w \in Windows |-> None]
  /\ sent = [s \in Scopes |-> 0] /\ granted = [s \in Scopes |-> 0]
  /\ abandoned = [s \in Scopes |-> 0]
  /\ hits = [k \in Keys |-> IF k \in LegacyKeys THEN 1 ELSE 0]
  /\ terminated = {}
------------------------------------------------------------------------------
(* The journal and the process.                                            *)

\* _resumable: the recorded Firefox process is the one that runs.
Resumable(j) == j.controller.state = "ready" /\ j.controller.gen = gen

\* No action is pending or uncertain.
Settled(j) == \A k \in Keys : j.actions[k] \in {"none", "delivered"}

Go(l, s, k) == pc' = l /\ scope' = s /\ key' = k
Idle == Go("idle", None, None)

Stored(j) ==
  /\ disk' = j
  /\ terminated' = terminated \cup {s \in Scopes : j.windows[s].terminal}

\* _save after a change of self.state: replaced and synced, or an error before
\* or after the replacement.
Saved(j) == mem' = j /\ Stored(j)

SaveFails(j) == mem' = j /\ (Stored(j) \/ UNCHANGED <<disk, terminated>>)

\* The observer socket is closed; a creation without reply loses its receipt.
Disconnect ==
  /\ connected' = FALSE /\ pending' = None /\ reply' = None
  /\ UNCHANGED <<epoch, orphaned, starts>>

\* An operation saves journal j and goes on at l.
Commit(j, l, s, k) ==
  /\ \/ Saved(j) /\ Go(l, s, k)
     \/ SaveFails(j) /\ Idle
  /\ UNCHANGED <<process, native>>

Set(s, r) == [mem EXCEPT !.windows[s] = r]

\* The process ends anywhere, and the next one reads the journal.
Restart ==
  /\ starts < MaxStarts
  /\ starts' = starts + 1
  /\ mem' = disk
  /\ connected' = FALSE /\ pending' = None /\ reply' = None
  /\ CASE Resumable(disk) ->
            epoch' = disk.controller.epoch /\ orphaned' = FALSE
       [] disk.controller.state = "none" /\ disk.reconciled # 0 ->
            epoch' = disk.reconciled /\ orphaned' = FALSE
       [] OTHER ->
            /\ epoch' = starts + 1
            /\ orphaned' = (disk.owner \/ \E s \in Scopes : disk.windows[s].state \notin {"none", "closed"})
  /\ Go("startup", None, None)
  /\ UNCHANGED <<disk, terminated, native, history>>

Serve ==
  /\ pc = "startup"
  /\ Idle
  /\ UNCHANGED <<mem, disk, terminated, process, native, history>>
------------------------------------------------------------------------------
(* Grants of the local operator, before the server starts to serve.        *)

\* An error ends the process.
Grant(s, j) ==
  /\ granted' = [granted EXCEPT ![s] = @ + 1]
  /\ abandoned' = [abandoned EXCEPT ![s] = sent[s]]
  /\ \/ Saved(j) /\ UNCHANGED control
     \/ Stored(j) /\ UNCHANGED mem /\ Go("down", None, None)
  /\ UNCHANGED <<native, sent, hits>>

\* reconcile_generation: a lost generation is retired, the owner and one scope
\* may bind again.
Reconcile(s) ==
  /\ pc = "startup"
  /\ orphaned /\ ~ Resumable(mem) /\ ~ session
  /\ mem.windows[s].state # "closed" /\ ~ mem.windows[s].terminal
  /\ Settled(mem)
  /\ orphaned' = FALSE
  /\ Grant(s, [mem EXCEPT
       !.windows = [t \in Scopes |->
          IF t = s THEN NoRecord
          ELSE IF @[t].state \in {"none", "closed", "retired"} THEN @[t]
          ELSE [NoRecord EXCEPT !.state = "retired"]],
       !.owner = FALSE, !.controller = NoController, !.reconciled = epoch])
  /\ UNCHANGED <<epoch, connected, pending, reply, starts>>

\* authorize_binding: one new binding for a retired scope.
AuthorizeBinding(s) ==
  /\ pc = "startup"
  /\ mem.windows[s].state = "retired" /\ ~ mem.windows[s].terminal
  /\ mem.recovery[s] = 0
  /\ ~ orphaned /\ mem.reconciled = epoch
  /\ mem.controller.state = "none" \/ Resumable(mem)
  /\ Settled(mem)
  /\ Grant(s, [mem EXCEPT !.windows[s].state = "recovery_ready", !.recovery[s] = epoch])
  /\ UNCHANGED process

\* authorize_creation_recovery: a creation without a receipt is abandoned.
AuthorizeCreation(s) ==
  /\ pc = "startup"
  /\ Resumable(mem)
  /\ ~ mem.recreated[s]
  /\ mem.windows[s] = [state |-> "creating", epoch |-> epoch, context |-> None, terminal |-> FALSE]
  /\ Settled(mem)
  /\ Grant(s, [mem EXCEPT !.windows[s].state = "recovery_ready", !.recovery[s] = epoch,
                          !.recreated[s] = TRUE])
  /\ UNCHANGED process
------------------------------------------------------------------------------
(* The native session.                                                     *)

\* _call with no observer: an identity that is still there is reconnected.
Reconnect ==
  /\ pc = "idle" /\ ~ connected /\ ~ orphaned
  /\ Resumable(mem) /\ session
  /\ connected' = TRUE
  /\ UNCHANGED <<mem, disk, terminated, control, epoch, orphaned, pending, reply, starts,
                 native, history>>

\* _connect: the session is created once, after its reservation is saved.
ReserveSession ==
  /\ pc = "idle" /\ ~ connected /\ ~ orphaned
  /\ mem.controller.state = "none"
  /\ LET j == [mem EXCEPT !.controller = [state |-> "creating", epoch |-> epoch, gen |-> 0]] IN
       \/ Saved(j) /\ Go("session", None, None) /\ UNCHANGED process
       \/ SaveFails(j) /\ Idle /\ Disconnect
  /\ UNCHANGED <<native, history>>

CreateSession ==
  /\ pc = "session"
  /\ ~ session
  /\ session' = TRUE
  /\ Go("ready", None, None)
  /\ UNCHANGED <<mem, disk, terminated, process, gen, tree, wire, creator, history>>

RecordSession ==
  /\ pc = "ready" /\ session
  /\ LET j == [mem EXCEPT !.controller = [state |-> "ready", epoch |-> epoch, gen |-> gen]] IN
       \/ /\ Saved(j) /\ connected' = TRUE
          /\ UNCHANGED <<epoch, orphaned, pending, reply, starts>>
       \/ SaveFails(j) /\ Disconnect
  /\ Idle
  /\ UNCHANGED <<native, history>>

\* A call fails or its reply is lost: the observer is closed and nothing is
\* sent again.  What the operation changed in memory may be saved.
Fail ==
  /\ pc \notin {"startup", "down", "idle"}
  /\ Idle
  /\ Disconnect
  /\ Stored(mem) \/ UNCHANGED <<disk, terminated>>
  /\ UNCHANGED <<mem, native, history>>

Ready == pc = "idle" /\ connected /\ pending = None
------------------------------------------------------------------------------
(* acquire.                                                                *)

\* The window that is active before any agent's is the owner's.
TakeOwner ==
  /\ Ready /\ ~ mem.owner
  /\ Commit([mem EXCEPT !.owner = TRUE], "idle", None, None)
  /\ UNCHANGED history

\* Mutant: a creation in doubt is tried again.
ReserveAgain(s) ==
  /\ Ready /\ mem.owner
  /\ \/ mem.windows[s].state = "none"
     \/ mem.windows[s].state = "creating" /\ mem.windows[s].context = None
     \/ mem.windows[s].state = "recovery_ready" /\ mem.recovery[s] = epoch /\ Settled(mem)
  /\ Commit(Set(s, [NoRecord EXCEPT !.state = "creating", !.epoch = epoch]), "create", s, None)
  /\ UNCHANGED history

\* Only a scope never seen, or one with a grant of this generation.
Reserve(s) ==
  /\ Ready /\ mem.owner
  /\ \/ mem.windows[s].state = "none"
     \/ mem.windows[s].state = "recovery_ready" /\ mem.recovery[s] = epoch /\ Settled(mem)
  /\ Commit(Set(s, [NoRecord EXCEPT !.state = "creating", !.epoch = epoch]), "create", s, None)
  /\ UNCHANGED history

SendCreate ==
  LET c == [scope |-> scope, n |-> sent[scope] + 1] IN
  /\ pc = "create" /\ connected
  /\ sent' = [sent EXCEPT ![scope] = @ + 1]
  /\ wire' = wire \cup {c}
  /\ pending' = c /\ reply' = None
  /\ Go("await", scope, None)
  /\ UNCHANGED <<mem, disk, terminated, epoch, orphaned, connected, starts,
                 gen, session, tree, creator, granted, abandoned, hits>>

\* The socket was closed before the send; the next call finds it closed as well.
NotSent ==
  LET j == [mem EXCEPT !.windows[scope].state = "create_failed"] IN
  /\ pc = "create"
  /\ Saved(j) \/ SaveFails(j)
  /\ Idle
  /\ Disconnect
  /\ UNCHANGED <<native, history>>

\* The receipt: what the correlated reply says is saved before anything else.
\* It arrives in time, or with the next use of the same observer.
Receipt ==
  IF reply = Rejected
    THEN [mem EXCEPT !.windows[pending.scope].state = "create_failed"]
    ELSE [mem EXCEPT !.windows[pending.scope].context = reply]

Receive ==
  /\ pc \in {"await", "idle"}
  /\ pending # None /\ reply # None
  /\ \/ /\ Saved(Receipt)
        /\ IF pc = "await" /\ reply # Rejected THEN Go("finish", scope, None) ELSE Idle
        /\ \/ /\ pending' = None /\ reply' = None
              /\ UNCHANGED <<epoch, orphaned, connected, starts>>
           \/ pc = "idle" /\ reply = Rejected /\ Disconnect
     \/ /\ UNCHANGED mem
        /\ Stored(Receipt) \/ UNCHANGED <<disk, terminated>>
        /\ Idle
        /\ \/ Disconnect
           \/ /\ pc = "idle" /\ reply' = None
              /\ UNCHANGED <<epoch, orphaned, connected, pending, starts>>
  /\ UNCHANGED <<native, history>>

\* No reply in time: the observer is kept for it, or given up by a recovery.
Timeout ==
  /\ pc = "await"
  /\ Idle
  /\ Stored(mem) \/ UNCHANGED <<disk, terminated>>
  /\ UNCHANGED <<mem, process, native, history>>

GiveUp ==
  /\ pc = "idle" /\ pending # None
  /\ Disconnect
  /\ UNCHANGED <<mem, disk, terminated, control, native, history>>

\* Mutant: the window that was not there before is taken for the created one.
FinishByDifference(s) ==
  /\ (pc = "finish" /\ scope = s) \/ Ready
  /\ mem.windows[s].state = "creating" /\ mem.windows[s].epoch = epoch /\ connected
  /\ \E w \in tree :
       /\ \A t \in Scopes : mem.windows[t].context # w
       /\ Commit([mem EXCEPT !.windows[s].state = "open", !.windows[s].context = w], "idle", None, None)
  /\ UNCHANGED history

\* _finish_creation: the retained context is in the tree.
Finish(s) ==
  /\ (pc = "finish" /\ scope = s) \/ Ready
  /\ mem.windows[s].state = "creating" /\ mem.windows[s].epoch = epoch /\ connected
  /\ mem.windows[s].context \in tree
  /\ Commit([mem EXCEPT !.windows[s].state = "open"], "idle", None, None)
  /\ UNCHANGED history
------------------------------------------------------------------------------
(* _input and lifecycle.                                                   *)

\* _resolve: this generation's binding, and its window is there.
Resolved(s) ==
  /\ mem.windows[s].state = "open" /\ mem.windows[s].epoch = epoch
  /\ mem.windows[s].context \in tree

\* A key that was ever used is answered from the journal.
BeginInput(s, k) ==
  /\ Ready /\ Resolved(s)
  /\ k \notin LegacyKeys
  /\ mem.actions[k] = "none"
  /\ Commit([mem EXCEPT !.actions[k] = "started"], "input", s, k)
  /\ UNCHANGED history

\* Pointer and keys reach the window, if it is still there.
SendInput ==
  /\ pc = "input" /\ connected
  /\ mem.windows[scope].context \in tree
  /\ hits' = [hits EXCEPT ![key] = @ + 1]
  /\ Go("confirm", scope, key)
  /\ UNCHANGED <<mem, disk, terminated, process, native, sent, granted, abandoned>>

ConfirmInput ==
  /\ pc = "confirm" /\ connected
  /\ Resolved(scope)
  /\ \E r \in {"delivered", "uncertain"} :
       Commit([mem EXCEPT !.actions[key] = r], "idle", None, None)
  /\ UNCHANGED history

\* A terminal event for a scope without a window of its own.
Tombstone(s) ==
  /\ pc = "idle"
  /\ mem.windows[s].state \in {"none", "create_failed"}
  /\ Commit([mem EXCEPT !.windows[s].state = "closed", !.windows[s].terminal = TRUE], "idle", None, None)
  /\ UNCHANGED history

FenceRetired(s) ==
  /\ pc = "idle"
  /\ mem.windows[s].state \in {"retired", "recovery_ready"}
  /\ Commit([mem EXCEPT !.windows[s].state = "retired", !.windows[s].terminal = TRUE], "idle", None, None)
  /\ UNCHANGED history

BeginClose(s) ==
  /\ Ready /\ Resolved(s)
  /\ Commit([mem EXCEPT !.windows[s].state = "closing", !.windows[s].terminal = TRUE], "close", s, None)
  /\ UNCHANGED history

\* The page may refuse to be closed.
SendClose ==
  /\ pc = "close" /\ connected
  /\ tree' \in {tree, tree \ {mem.windows[scope].context}}
  /\ Go("closed", scope, None)
  /\ UNCHANGED <<mem, disk, terminated, process, gen, session, wire, creator,
                 sent, granted, abandoned, hits>>

\* After the close, or when an interrupted one is taken up again.
ConfirmClose(s) ==
  /\ (pc = "closed" /\ scope = s) \/ Ready
  /\ mem.windows[s].state = "closing" /\ mem.windows[s].epoch = epoch /\ connected
  /\ mem.windows[s].context \notin tree
  /\ Commit([mem EXCEPT !.windows[s].state = "closed"], "idle", None, None)
  /\ UNCHANGED history
------------------------------------------------------------------------------
(* External: Firefox and its owner.                                        *)

Open(who) ==
  \E w \in Windows :
    /\ \A v \in Windows : creator[v] = None <=> v >= w
    /\ creator' = [creator EXCEPT ![w] = who]
    /\ tree' = tree \cup {w}
    /\ reply' = IF who = pending THEN w ELSE reply

Create(c) ==
  /\ c \in wire
  /\ wire' = wire \ {c}
  /\ Open(c)
  /\ UNCHANGED <<mem, disk, terminated, control, epoch, orphaned, connected, pending,
                 starts, gen, session, history>>

Reject(c) ==
  /\ c \in wire
  /\ wire' = wire \ {c}
  /\ reply' = IF c = pending THEN Rejected ELSE reply
  /\ UNCHANGED <<mem, disk, terminated, control, epoch, orphaned, connected, pending,
                 starts, gen, session, tree, creator, history>>

UserOpens ==
  /\ Open(User)
  /\ UNCHANGED <<mem, disk, terminated, control, epoch, orphaned, connected, pending,
                 starts, gen, session, wire, history>>

UserCloses(w) ==
  /\ w \in tree
  /\ tree' = tree \ {w}
  /\ UNCHANGED <<mem, disk, terminated, control, process, gen, session, wire, creator, history>>

\* Firefox ends with its windows and its session.
RestartFirefox ==
  /\ gen < MaxNative
  /\ gen' = gen + 1
  /\ session' = FALSE /\ tree' = {} /\ wire' = {}
  /\ IF connected THEN Disconnect ELSE UNCHANGED process
  /\ UNCHANGED <<mem, disk, terminated, control, creator, history>>

Operator == \E s \in Scopes : Reconcile(s) \/ AuthorizeBinding(s) \/ AuthorizeCreation(s)

Acquire ==
  \/ TakeOwner \/ SendCreate \/ NotSent \/ Receive \/ Timeout \/ GiveUp
  \/ \E s \in Scopes : Reserve(s) \/ Finish(s)

Act ==
  \/ SendInput \/ ConfirmInput \/ SendClose
  \/ \E s \in Scopes : Tombstone(s) \/ FenceRetired(s) \/ BeginClose(s) \/ ConfirmClose(s)
  \/ \E s \in Scopes, k \in Keys : BeginInput(s, k)

Firefox ==
  \/ \E c \in wire : Create(c) \/ Reject(c)
  \/ UserOpens
  \/ \E w \in tree : UserCloses(w)
  \/ RestartFirefox

Next ==
  \/ Restart \/ Serve \/ Operator
  \/ Reconnect \/ ReserveSession \/ CreateSession \/ RecordSession \/ Fail
  \/ Acquire \/ Act \/ Firefox

Spec == Init /\ [][Next]_vars
------------------------------------------------------------------------------
(* Properties.                                                             *)

\* "Refuses replacement, rather than [...] silently multiplying them": without
\* a grant of the operator that names the scope, no second window is asked for,
\* over late replies, failed saves, reconnects, restarts and lost generations.
CreatedAtMostOnce == \A s \in Scopes : sent[s] <= 1 + granted[s]

\* "Started/uncertain actions are never replayed": a key is delivered once,
\* whatever is reconciled, recovered or restarted, and never again if the
\* earlier bridge used it.
InputAtMostOnce == \A k \in Keys : hits[k] <= 1

\* What cannot be taken back is done at most once: windows are created and keys
\* are delivered once, in any order of creation recovery, binding recovery and
\* reconciliation, with failures between (firefox_windows.py:225-330, 541-560).
NothingTwice == CreatedAtMostOnce /\ InputAtMostOnce

\* The window a scope's input and close go to is the one its own creation
\* opened, the last one asked for: never the owner's, another scope's or one that
\* a grant abandoned ("pre-existing unrelated windows are never acquired or
\* closed"; an abandoned creation is not adopted when its reply comes late).
BoundToItsOwnCreation ==
  \A s \in Scopes : pc # "down" /\ mem.windows[s].context # None =>
    LET c == creator[mem.windows[s].context] IN
    c \in Creations /\ c.scope = s /\ c.n = sent[s] /\ c.n > abandoned[s]

\* A scope that is acknowledged as closed has no window left, and none that may
\* still open, but those a grant abandoned.
ClosedMeansGone ==
  \A s \in Scopes : disk.windows[s].state = "closed" =>
    \A c \in wire \cup {creator[w] : w \in tree} :
      c \in Creations /\ c.scope = s => c.n <= abandoned[s]

\* No scope acts on a window that is not its own, and none leaves one behind.
WindowsAreAccounted == BoundToItsOwnCreation /\ ClosedMeansGone

\* "Terminal scopes [...] refuse": once a terminal event is saved, no grant
\* makes the scope bindable again.
TerminalScopesStayFenced ==
  \A s \in terminated : disk.windows[s].state \in {"closing", "closed", "retired"}

\* "A new explicit local grant may now reconcile a later lost generation": a
\* controller that starts after its recorded session is lost, with no input in
\* doubt and a free driver, can be reconciled.
LostGenerationReconcilable ==
  [][ starts' # starts
      /\ (mem.controller.state = "ready" /\ ~ Resumable(mem) /\ ~ session /\ Settled(mem))'
      => orphaned' ]_vars
==============================================================================
