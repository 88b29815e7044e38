-------------------------- MODULE HealthObservation --------------------------
(***************************************************************************)
(* One collection of a host's health after its boot into the update,       *)
(* src/plans/host/update_health.pp: the boot task before and after         *)
(* (tasks/update_boot_health.py) brackets the task of the system and user  *)
(* managers (update_manager_health.py) and of the network                  *)
(* (update_network_health.py), and tasks/retain_update_health.py judges    *)
(* the four reports again.                                                 *)
(*                                                                         *)
(* A task is a program of reads, each one command on a host that goes on   *)
(* living: units fail, storage and routes change, users come and go, it    *)
(* reboots.  A command may also fail.  What is read is either as expected  *)
(* or not.  Nobody repairs a gate, or clears a failed unit but by ending   *)
(* its manager, while the collection lasts.                                *)
(***************************************************************************)
EXTENDS Naturals, Sequences, FiniteSets

CONSTANTS
  UserOrder,  \* the users whose manager may run, by uid
  MaxEvents   \* bound: what happens on the host

Users == {UserOrder[i] : i \in DOMAIN UserOrder}
Gates == {"kernel", "mounts", "storage", "system", "network", "answer"}
Things == Gates \cup {"managers"} \cup Users

ASSUME HealthAssumption ==
  /\ MaxEvents \in Nat /\ UserOrder \in Seq(Users)
  /\ Users \cap (Gates \cup {"managers", "units", "processes", "boot"}) = {}

VARIABLES
  onBoot,     \* the boot the host is on; 0 is the one before the update
  bad,        \* gates that are not as expected, users whose manager has a failed unit
  manager,    \* manager[u]: the process of u's manager, 0 when there is none
  events,     \* what happened on the host so far
  endpoints,  \* whether the policy names endpoints to probe
  todo,       \* the tasks left, the running one first
  reads,      \* the reads the running task has left; <<>>: it has not begun
  task,       \* what the running task has read
  reports,    \* reports[t]: what task t reported
  outcome,    \* of the plan: "open", "pass", "fail", "error"
  retained,   \* the retained verdict: "none", "pass", "fail"
  sound       \* boots on which, after each manager was read once, the host was
              \* found healthy at some instant (history)

host == <<onBoot, bad, manager, events>>
collection == <<todo, reads, task, reports>>
healthVars == <<host, endpoints, collection, outcome, retained, sound>>

BootNumbers == 0 .. MaxEvents + 1
Pids == 0 .. MaxEvents + 2
Verdicts == {"unread", "clean", "failed", "unavailable"}
Tasks == {"before", "managers", "network", "after"}

Observations ==
  [boot : BootNumbers, running : [Users -> Pids], seen : [Things -> Verdicts]]

HealthTypeOK ==
  /\ onBoot \in BootNumbers /\ bad \subseteq Gates \cup Users /\ events \in 0 .. MaxEvents
  /\ manager \in [Users -> Pids] /\ endpoints \in BOOLEAN
  /\ \A u \in Users \cap bad : manager[u] # 0
  /\ todo \in Seq(Tasks) /\ task \in Observations
  /\ reports \in [Tasks -> Observations]
  /\ outcome \in {"open", "pass", "fail", "error"}
  /\ retained \in {"none", "pass", "fail"}
  /\ sound \subseteq BootNumbers

Unread ==
  [boot |-> 0, running |-> [u \in Users |-> 0], seen |-> [x \in Things |-> "unread"]]

HealthInit ==
  /\ onBoot \in {0, 1} /\ bad = {} /\ events = 0
  /\ manager \in [Users -> {0, 1}]
  /\ endpoints \in BOOLEAN
  /\ todo = IF endpoints THEN <<"before", "managers", "network", "after">>
            ELSE <<"before", "managers", "after">>
  /\ reads = <<>> /\ task = Unread /\ reports = [t \in Tasks |-> Unread]
  /\ outcome = "open" /\ retained = "none" /\ sound = {}
-----------------------------------------------------------------------------
\* What a task reads: everything once, and then again but for the probe.
BootReads == << <<1, "mounts">>, <<1, "storage">>, <<2, "mounts">>, <<2, "storage">> >>

ManagerReads ==
  << <<1, "system">>, <<1, "units">>, <<1, "processes">>,
     <<2, "units">>, <<2, "processes">>, <<2, "system">> >>

\* The endpoints are resolved and routed to, probed, resolved and routed to.
NetworkReads == << <<1, "network">>, <<1, "answer">>, <<2, "network">> >>

ReadsOf(t) ==
  CASE t \in {"before", "after"} -> BootReads
    [] t = "managers" -> ManagerReads
    [] t = "network" -> NetworkReads

TheEnd == << <<3, "boot">> >>

Reading(r, x) == outcome = "open" /\ reads # <<>> /\ Head(reads) = <<r, x>>
Step == reads' = Tail(reads)
Other == UNCHANGED <<host, endpoints, todo, reports, outcome, retained>>

\* A task first notes the boot; the boot task judges the kernel by it.
Open ==
  /\ outcome = "open" /\ reads = <<>> /\ todo # <<>>
  /\ reads' = ReadsOf(Head(todo)) \o TheEnd
  /\ task' = [Unread EXCEPT !.boot = onBoot,
                !.seen["kernel"] = IF "kernel" \in bad THEN "failed" ELSE "clean"]
  /\ Other

\* A wrong mount, pool, address or route and a bus that does not answer make the
\* observation unavailable; failed units and a wrong answer fail it.
Answers(x) == x \in Users => manager[x] # 0

Found(x) ==
  IF ~ Answers(x) \/ x \in bad \cap {"mounts", "storage", "network"} THEN "unavailable"
  ELSE IF x \in bad THEN "failed" ELSE "clean"

FirstRead(x) ==
  /\ Reading(1, x) /\ Step
  /\ task' = [task EXCEPT !.seen[x] = Found(x)]
  /\ Other

\* The repeated read keeps what was seen only when it is seen again.
KeptUnasked(x) == task.seen[x]
Kept(x) == IF Found(x) = task.seen[x] THEN task.seen[x] ELSE "unavailable"

SecondRead(x) ==
  /\ Reading(2, x) /\ Step
  /\ task' = [task EXCEPT !.seen[x] = Kept(x)]
  /\ Other

\* The command of a read fails, or takes too long.
CommandFails(x) ==
  /\ Reading(1, x) \/ Reading(2, x)
  /\ Step
  /\ events < MaxEvents /\ events' = events + 1
  /\ task' = [task EXCEPT !.seen[x] = "unavailable"]
  /\ UNCHANGED <<onBoot, bad, manager, endpoints, todo, reports, outcome, retained>>

\* The user managers are the units that run, and must be the processes that
\* exist.  Each is then asked for its failed units, and asked again.
Listed == {u \in Users : manager[u] # 0}
Named == {u \in Users : task.running[u] # 0}
Asked(r) ==
  LET places == {i \in DOMAIN UserOrder : UserOrder[i] \in Named}
      order == CHOOSE s \in [1 .. Cardinality(places) -> places] :
                 \A i, j \in DOMAIN s : i < j => s[i] < s[j]
  IN [i \in DOMAIN order |-> <<r, UserOrder[order[i]]>>]

\* Without a complete and unchanged inventory only the system is read again.
GiveUp ==
  /\ task' = [task EXCEPT !.seen["managers"] = "unavailable"]
  /\ reads' = << <<2, "system">> >> \o TheEnd
  /\ UNCHANGED <<onBoot, bad, manager, endpoints, todo, reports, outcome, retained>>

InventoryDiffers ==
  /\ \/ Listed # Named /\ (Reading(1, "processes") \/ Reading(2, "units"))
     \/ manager # task.running /\ Reading(2, "processes")
  /\ GiveUp /\ UNCHANGED events

InventoryFails ==
  /\ \E r \in {1, 2} : Reading(r, "units") \/ Reading(r, "processes")
  /\ events < MaxEvents /\ events' = events + 1
  /\ GiveUp

FirstUnits ==
  /\ Reading(1, "units") /\ Step
  /\ task' = [task EXCEPT !.running = [u \in Users |-> IF u \in Listed THEN 1 ELSE 0]]
  /\ Other

FirstProcesses ==
  /\ Reading(1, "processes") /\ Listed = Named
  /\ task' = [task EXCEPT !.running = manager]
  /\ reads' = Asked(1) \o Asked(2) \o Tail(reads)
  /\ Other

SecondUnits ==
  /\ Reading(2, "units") /\ Listed = Named /\ Step
  /\ UNCHANGED task /\ Other

SecondProcesses ==
  /\ Reading(2, "processes") /\ manager = task.running /\ Step
  /\ task' = [task EXCEPT !.seen["managers"] = "clean"]
  /\ Other

\* A task that ends on another boot, or does not end, fails the plan.
ReportTask ==
  /\ Reading(3, "boot") /\ onBoot = task.boot
  /\ reports' = [reports EXCEPT ![Head(todo)] = task]
  /\ todo' = Tail(todo) /\ reads' = <<>> /\ task' = Unread
  /\ UNCHANGED <<host, endpoints, outcome, retained>>

Error ==
  /\ Reading(3, "boot")
  /\ outcome' = "error"
  /\ UNCHANGED <<host, endpoints, collection, retained>>
-----------------------------------------------------------------------------
\* The results of the tasks, and the plan's.
Clean(o, xs) == \A x \in xs : o.seen[x] = "clean"

BootPasses(o) == o.boot # 0 /\ Clean(o, {"kernel", "mounts", "storage"})
ManagersPass(o) ==
  Clean(o, {"system", "managers"} \cup {u \in Users : o.running[u] # 0})
NetworkPasses(o) == Clean(o, {"network", "answer"})

BracketedLoosely == reports["managers"].boot = reports["before"].boot

Bracketed ==
  /\ reports["before"] = reports["after"]
  /\ reports["managers"].boot = reports["before"].boot
  /\ endpoints => reports["network"].boot = reports["before"].boot

Passes ==
  /\ Bracketed /\ BootPasses(reports["before"]) /\ ManagersPass(reports["managers"])
  /\ endpoints => NetworkPasses(reports["network"])

Decide ==
  /\ outcome = "open" /\ todo = <<>>
  /\ outcome' = IF Passes THEN "pass" ELSE "fail"
  /\ UNCHANGED <<host, endpoints, collection, retained>>

\* The supervisor judges the reports again, and retains the verdict.
Retain ==
  /\ outcome \in {"pass", "fail"} /\ retained = "none"
  /\ retained' = IF Passes THEN "pass" ELSE "fail"
  /\ UNCHANGED <<host, endpoints, collection, outcome>>
-----------------------------------------------------------------------------
\* The host meanwhile.
Happens ==
  /\ todo # <<>> /\ outcome = "open"
  /\ events < MaxEvents /\ events' = events + 1
  /\ UNCHANGED <<endpoints, collection, outcome, retained>>

Break ==
  /\ Happens
  /\ \E x \in ({"mounts", "storage", "system", "network", "answer"} \cup Listed) \ bad :
       bad' = bad \cup {x}
  /\ UNCHANGED <<onBoot, manager>>

StartManager ==
  /\ Happens
  /\ \E u \in Users \ Listed :
       /\ manager' = [manager EXCEPT ![u] = events + 2]
       /\ bad' \in {bad, bad \cup {u}}
  /\ UNCHANGED onBoot

StopManager ==
  /\ Happens
  /\ \E u \in Listed : manager' = [manager EXCEPT ![u] = 0] /\ bad' = bad \ {u}
  /\ UNCHANGED onBoot

\* The next boot may be of another generation.
HostReboots ==
  /\ Happens
  /\ onBoot' = onBoot + 1 /\ manager' = [u \in Users |-> 0]
  /\ bad' \in {{}, {"kernel", "mounts"}}
-----------------------------------------------------------------------------
\* Every manager in the inventory has been asked once.
AskedOnce ==
  \/ Head(todo) \in {"network", "after"}
  \/ Head(todo) = "managers" /\ reads # <<>> /\ Head(reads)[1] = 2

Healthy ==
  /\ onBoot # 0
  /\ LET of == IF Head(todo) = "managers" THEN task ELSE reports["managers"]
         needed == {u \in Users : of.running[u] # 0} \cup Gates
     IN bad \cap (IF endpoints THEN needed ELSE needed \ {"network", "answer"}) = {}

HealthSteps ==
  \/ Open \/ ReportTask \/ Error \/ Decide \/ Retain
  \/ \E x \in Gates \cup Users : FirstRead(x) \/ SecondRead(x) \/ CommandFails(x)
  \/ FirstUnits \/ FirstProcesses \/ SecondUnits \/ SecondProcesses
  \/ InventoryDiffers \/ InventoryFails
  \/ Break \/ StartManager \/ StopManager \/ HostReboots

HealthNext ==
  /\ HealthSteps
  /\ sound' = IF todo' # <<>> /\ AskedOnce' /\ Healthy' THEN sound \cup {onBoot'} ELSE sound

HealthSpec == HealthInit /\ [][HealthNext]_healthVars
-----------------------------------------------------------------------------
\* A retained pass is of one boot after the update, and of one instant of it:
\* after every manager had been read once there was a moment at which mounts,
\* storage, network, system and all those managers were right at the same time.
\* No failure that came while others were read is certified away.
PassWasHealthyAtOnce == retained = "pass" => reports["before"].boot \in sound
=============================================================================
