------------------------- MODULE TestDelivery_proofs -------------------------
(***************************************************************************)
(* Proofs about TestDelivery for every set of operations and images, any   *)
(* number of the platform's own rollouts and any number of late writes.    *)
(***************************************************************************)
EXTENDS TestDelivery, TLAPS

Working == {"claim", "inspect", "patch", "watch", "probe", "recheck", "fail", "succeed", "clear"}

ServersOK ==
  /\ journal \in [rv : Nat, record : Records \cup {NoRecord}]
  /\ backend \in [Operations -> Terminal \cup {"queued", "running"}]
  /\ live \in [rv : Nat, content : Contents, observed : BOOLEAN, healthy : BOOLEAN]
  /\ journaled \subseteq Records
  /\ delivered \subseteq Operations
  /\ patches \in [Operations -> Nat]

RunOK ==
  /\ pc \in Calls \cup {"idle", "killed", "queue", "inspect", "watch", "probe", "recheck"}
  /\ operation \in IF pc \in {"idle", "killed", "queue"} THEN {NoRecord} ELSE Records
  /\ row \in Nat /\ seen \in Nat

LEMMA TypeParts ==
  TypeOK <=> ServersOK /\ RunOK /\ late \subseteq Messages /\ due \in BOOLEAN
               /\ foreign \in 0 .. MaxForeign
BY DEF TypeOK, ServersOK, RunOK
------------------------------------------------------------------------------
(* The inductive invariant.  An operation is journaled once: it leaves the *)
(* journal closed, and a closed one is never picked.  So the records have  *)
(* an order, from the annotation a delivery found to the one it leaves,    *)
(* and an operation that was rolled out lies before the present annotation *)
(* in it: that is why what is untouched for a record was never patched by  *)
(* it.  A write that outlived its sender is as harmless as one of the run, *)
(* for whatever it relied on is bound to the resourceVersion it carries.   *)

Known(o) == \E r \in journaled : r.id = o

Closed(r) == backend[r.id] \in Terminal

JournalInv ==
  /\ journal.record \in journaled \cup {NoRecord}
  /\ \A r \in journaled : Closed(r) \/ journal.record = r
  /\ \A r \in journaled : r.prior = None \/ Known(r.prior)

LiveInv ==
  /\ live.content.annotation = None \/ Known(live.content.annotation)
  /\ /\ live.observed /\ live.healthy /\ live.content.annotation # None
     /\ live.content.image = Image[live.content.annotation]
     => live.content.annotation \in delivered
  /\ \A o \in Operations : patches[o] > 0 => Known(o)

Ranks(f) ==
  /\ \A r \in journaled : r.prior # None => f[r.prior] < f[r.id]
  /\ \A o \in Operations :
       patches[o] > 0 => /\ live.content.annotation # None
                         /\ f[o] <= f[live.content.annotation]

Ranked == \E f \in [Operations -> Nat] : Ranks(f)

ServersInv ==
  ServersOK /\ JournalInv /\ LiveInv /\ Ranked /\ SucceededMeansDelivered

\* A record that may be journaled, and a deployment that may be patched.
Fresh(r) ==
  /\ journal.record = NoRecord
  /\ ~ Known(r.id)
  /\ r.prior = None \/ Known(r.prior)

Patchable(r) == Untouched(r) /\ patches[r.id] = 0

\* A write that is outstanding.
Sound(m) ==
  /\ m.kind = "put" =>
       /\ m.rv <= journal.rv
       /\ m.rv = journal.rv => IF m.record = NoRecord THEN \A r \in journaled : Closed(r)
                                                      ELSE Fresh(m.record)
  /\ m.kind = "patch" =>
       /\ m.rv <= live.rv /\ m.record \in journaled
       /\ m.rv = live.rv => Patchable(m.record)
  /\ m.kind = "callback" => (m.state = "succeeded" => m.id \in delivered)

RunInv ==
  /\ row <= journal.rv /\ seen <= live.rv
  /\ pc = "queue" /\ row = journal.rv => journal.record = NoRecord
  /\ pc = "save" /\ row = journal.rv => Fresh(operation)
  /\ pc \in Working => /\ operation \in journaled
                       /\ row = journal.rv => journal.record = operation
  /\ pc = "patch" /\ seen = live.rv => Patchable(operation)
  /\ pc = "succeed" => operation.id \in delivered
  /\ pc = "clear" => Closed(operation)

DeliveryInv ==
  /\ TypeOK
  /\ ServersInv
  /\ RunInv
  /\ \A m \in late : Sound(m)

\* What every step grants to those who wait: a resourceVersion that is still
\* current stands for what it stood for, and the histories only grow.
Grows ==
  /\ journal'.rv >= journal.rv /\ live'.rv >= live.rv
  /\ journal'.rv = journal.rv => journal' = journal /\ journaled' = journaled
  /\ live'.rv = live.rv => live' = live /\ patches' = patches
  /\ journaled \subseteq journaled' /\ delivered \subseteq delivered'
  /\ \A o \in Operations : backend[o] \in Terminal => backend'[o] = backend[o]
------------------------------------------------------------------------------
LEMMA RecordFacts ==
  /\ NoRecord \notin Records
  /\ \A r \in Records : /\ r.id \in Operations /\ r.id # None /\ r.original \in Images
                        /\ r.footprint \in Footprints /\ r.prior \in Operations \cup {None}
BY DeliveryAssumption DEF Records, NoRecord

LEMMA InitInv == Init => DeliveryInv
<1> SUFFICES ASSUME Init PROVE DeliveryInv OBVIOUS
<1>1. ServersOK
  <2>1. live \in [rv : Nat, content : Contents, observed : BOOLEAN, healthy : BOOLEAN]
    <3>1. [image : Images, annotation : {None}, footprint : Footprints] \subseteq Contents
      BY DEF Contents
    <3>2. {0} \subseteq Nat /\ {TRUE} \subseteq BOOLEAN OBVIOUS
    <3> QED BY <3>1, <3>2, Zenon DEF Init
  <2>2. journal \in [rv : Nat, record : Records \cup {NoRecord}] BY DEF Init
  <2> QED BY <2>1, <2>2 DEF Init, ServersOK
<1>2. RunOK BY DEF Init, RunOK
<1>3. TypeOK
  <2>1. foreign \in 0 .. MaxForeign BY DeliveryAssumption DEF Init
  <2> QED BY <1>1, <1>2, <2>1, TypeParts DEF Init
<1>4. JournalInv BY DEF Init, JournalInv
<1>5. LiveInv BY DEF Init, LiveInv
<1>6. Ranked
  <2> DEFINE f == [o \in Operations |-> 0]
  <2>1. f \in [Operations -> Nat] OBVIOUS
  <2>2. Ranks(f) BY DEF Init, Ranks
  <2> QED BY <2>1, <2>2 DEF Ranked
<1>7. SucceededMeansDelivered BY DEF Init, SucceededMeansDelivered
<1>8. RunInv BY DEF Init, RunInv, Working
<1> QED BY <1>1, <1>3, <1>4, <1>5, <1>6, <1>7, <1>8 DEF Init, DeliveryInv, ServersInv

\* The run's outstanding write is one the servers may get at any time.
LEMMA RequestIs ==
  /\ pc = "save" => Request = Put(row, operation)
  /\ pc = "clear" => Request = Put(row, NoRecord)
  /\ pc = "patch" => Request = Patch(seen, operation)
  /\ pc = "claim" => Request = Callback(operation.id, "running")
  /\ pc = "fail" => Request = Callback(operation.id, "failed")
  /\ pc = "succeed" => Request = Callback(operation.id, "succeeded")
BY DEF Request

LEMMA RequestSound ==
  ASSUME RunOK, ServersInv, RunInv, pc \in Calls
  PROVE  Request \in Messages /\ Sound(Request)
<1> USE RequestIs, RecordFacts DEF RunOK
<1>1. CASE pc = "save" BY <1>1 DEF Put, Messages, Sound, RunInv
<1>2. CASE pc = "clear"
  <2>1. row = journal.rv => \A r \in journaled : Closed(r)
    BY <1>2 DEF RunInv, Working, ServersInv, JournalInv
  <2> QED BY <1>2, <2>1 DEF Put, Messages, Sound, RunInv
<1>3. CASE pc = "patch" BY <1>3 DEF Patch, Messages, Sound, RunInv, Working
<1>4. CASE pc = "claim" BY <1>4 DEF Callback, Messages, Sound
<1>5. CASE pc = "fail" BY <1>5 DEF Callback, Messages, Sound, Terminal
<1>6. CASE pc = "succeed" BY <1>6 DEF Callback, Messages, Sound, Terminal, RunInv
<1> QED BY <1>1, <1>2, <1>3, <1>4, <1>5, <1>6 DEF Calls

\* Outstanding writes stay sound whatever else happens, and so does the run.
LEMMA SoundStays ==
  ASSUME ServersOK, ServersOK', Grows, NEW m \in Messages, Sound(m)
  PROVE  Sound(m)'
<1>1. CASE m.kind = "put"
  <2>1. m.rv \in Nat BY <1>1 DEF Messages
  <2>2. m.rv <= journal'.rv BY <1>1, <2>1 DEF Sound, Grows, ServersOK
  <2>3. ASSUME m.rv = journal'.rv
        PROVE  m.rv = journal.rv /\ journal' = journal /\ journaled' = journaled
    BY <1>1, <2>1, <2>3 DEF Sound, Grows, ServersOK
  <2>4. \A r \in journaled : Closed(r) => Closed(r)'
    BY RecordFacts DEF Grows, Closed, ServersOK
  <2> QED BY <1>1, <2>2, <2>3, <2>4 DEF Sound, Fresh, Known
<1>2. CASE m.kind = "patch"
  <2>1. m.rv \in Nat BY <1>2 DEF Messages
  <2>2. m.rv <= live'.rv /\ m.record \in journaled' BY <1>2, <2>1 DEF Sound, Grows, ServersOK
  <2>3. ASSUME m.rv = live'.rv PROVE m.rv = live.rv /\ live' = live /\ patches' = patches
    BY <1>2, <2>1, <2>3 DEF Sound, Grows, ServersOK
  <2> QED BY <1>2, <2>2, <2>3 DEF Sound, Patchable, Untouched
<1>3. CASE m.kind = "callback" BY <1>3 DEF Sound, Grows
<1> QED BY <1>1, <1>2, <1>3 DEF Messages, Sound

LEMMA RunStays ==
  ASSUME ServersOK, ServersOK', RunOK, RunInv, Grows, UNCHANGED run
  PROVE  RunInv'
<1>1. row <= journal'.rv /\ (row = journal'.rv =>
        row = journal.rv /\ journal' = journal /\ journaled' = journaled)
  BY DEF RunInv, RunOK, Grows, ServersOK
<1>2. seen <= live'.rv /\ (seen = live'.rv =>
        seen = live.rv /\ live' = live /\ patches' = patches)
  BY DEF RunInv, RunOK, Grows, ServersOK
<1>3. pc \in Working => operation \in journaled /\ operation \in journaled'
  BY DEF RunInv, Grows
<1>4. pc = "clear" => Closed(operation)'
  BY <1>3, RecordFacts DEF RunInv, Working, Grows, Closed, run, ServersOK
<1>5. pc = "save" /\ row = journal'.rv => Fresh(operation)'
  BY <1>1 DEF RunInv, run, Fresh, Known
<1>6. pc = "patch" /\ seen = live'.rv => Patchable(operation)'
  BY <1>2 DEF RunInv, run, Patchable, Untouched
<1> QED BY <1>1, <1>2, <1>3, <1>4, <1>5, <1>6 DEF RunInv, run, Grows
------------------------------------------------------------------------------
(* What a write does to the servers.                                       *)

LEMMA PutServers ==
  ASSUME ServersInv, NEW m \in Messages, Sound(m), m.kind = "put", ApplyPut(m)
  PROVE  ServersInv' /\ Grows
<1> USE RecordFacts DEF ServersInv
<1>0. m.rv \in Nat /\ m.record \in Records \cup {NoRecord} BY DEF Messages
<1>1. CASE m.rv # journal.rv
  <2>1. UNCHANGED <<servers, history>> BY <1>1 DEF ApplyPut, servers, history
  <2> QED BY <2>1 DEF servers, history, ServersOK, JournalInv, LiveInv, Ranked, Ranks, Known,
                     Closed, SucceededMeansDelivered, Grows
<1>2. CASE m.rv = journal.rv
  <2>0. /\ journal' = [rv |-> m.rv + 1, record |-> m.record]
        /\ journaled' = journaled \cup ({m.record} \ {NoRecord})
        /\ UNCHANGED <<backend, live, delivered, patches>>
    BY <1>2 DEF ApplyPut
  <2>1. ServersOK' BY <1>0, <2>0 DEF ServersOK
  <2>2. Grows BY <1>0, <1>2, <2>0 DEF Grows, ServersOK
  <2>3. \A o : Known(o) => Known(o)' BY <2>0 DEF Known
  <2>4. JournalInv'
    <3>1. \A r \in journaled : Closed(r)
      BY <1>2 DEF Sound, Fresh, JournalInv, ServersOK
    <3>2. m.record # NoRecord => m.record.prior = None \/ Known(m.record.prior)
      BY <1>2 DEF Sound, Fresh
    <3> QED BY <2>0, <2>3, <3>1, <3>2 DEF JournalInv, Closed
  <2>5. LiveInv' BY <2>0, <2>3 DEF LiveInv
  <2>6. Ranked'
    <3>1. PICK f \in [Operations -> Nat] : Ranks(f) BY DEF Ranked
    <3>2. CASE m.record = NoRecord
      BY <2>0, <3>1, <3>2 DEF Ranked, Ranks
    <3>3. CASE m.record # NoRecord
      <4> DEFINE r == m.record
                 g == [f EXCEPT ![r.id] = IF r.prior = None THEN 0 ELSE f[r.prior] + 1]
      <4>1. r \in Records /\ ~ Known(r.id) /\ (r.prior = None \/ Known(r.prior))
        BY <1>0, <1>2, <3>3 DEF Sound, Fresh
      <4>2. g \in [Operations -> Nat] BY <4>1
      <4>3. g[r.id] = IF r.prior = None THEN 0 ELSE f[r.prior] + 1 BY <4>1
      <4>4. \A o \in Operations : o # r.id => g[o] = f[o] BY <4>1
      <4>5. r.prior # None => g[r.prior] < g[r.id]
        BY <3>1, <4>1, <4>3, <4>4
      <4>6. ASSUME NEW q \in journaled, q.prior # None PROVE g[q.prior] < g[q.id]
        <5>1. q.id # r.id /\ q.prior # r.id BY <4>1, <4>6 DEF Known, JournalInv
        <5>2. q.id \in Operations /\ q.prior \in Operations BY <4>6 DEF ServersOK
        <5> QED BY <3>1, <4>4, <4>6, <5>1, <5>2 DEF Ranks
      <4>7. ASSUME NEW o \in Operations, patches[o] > 0
            PROVE  /\ live.content.annotation # None
                   /\ g[o] <= g[live.content.annotation]
        <5>1. live.content.annotation # None /\ f[o] <= f[live.content.annotation]
          BY <3>1, <4>7 DEF Ranks
        <5>2. live.content.annotation \in Operations BY <5>1 DEF ServersOK, Contents
        <5>3. o # r.id /\ live.content.annotation # r.id BY <4>1, <4>7, <5>1 DEF LiveInv
        <5> QED BY <4>4, <5>1, <5>2, <5>3
      <4> HIDE DEF g
      <4>8. Ranks(g)' BY <2>0, <4>5, <4>6, <4>7 DEF Ranks
      <4> QED BY <4>2, <4>8 DEF Ranked
    <3> QED BY <3>2, <3>3
  <2>7. SucceededMeansDelivered' BY <2>0 DEF SucceededMeansDelivered
  <2> QED BY <2>1, <2>2, <2>4, <2>5, <2>6, <2>7
<1> QED BY <1>1, <1>2

LEMMA CallbackServers ==
  ASSUME ServersInv, NEW m \in Messages, Sound(m), m.kind = "callback", ApplyCallback(m)
  PROVE  ServersInv' /\ Grows
<1> USE RecordFacts DEF ServersInv
<1>0. m.id \in Operations /\ m.state \in Terminal \cup {"running"} BY DEF Messages
<1>1. UNCHANGED <<journal, live, journaled, delivered, patches>> BY DEF ApplyCallback, history
<1>2. ServersOK' BY <1>0, <1>1 DEF ApplyCallback, ServersOK
<1>3. \A o \in Operations : backend[o] \in Terminal => backend'[o] = backend[o]
  BY <1>0 DEF ApplyCallback, ServersOK
<1>4. Grows BY <1>1, <1>3 DEF Grows, ServersOK
<1>5. JournalInv' BY <1>1, <1>3 DEF JournalInv, Known, Closed, ServersOK
<1>6. LiveInv' BY <1>1 DEF LiveInv, Known
<1>7. Ranked' BY <1>1 DEF Ranked, Ranks
<1>8. SucceededMeansDelivered'
  BY <1>0, <1>1 DEF ApplyCallback, Sound, SucceededMeansDelivered, ServersOK
<1> QED BY <1>2, <1>4, <1>5, <1>6, <1>7, <1>8

LEMMA PatchServers ==
  ASSUME ServersInv, NEW m \in Messages, Sound(m), m.kind = "patch", ApplyPatch(m)
  PROVE  ServersInv' /\ Grows
<1> USE RecordFacts DEF ServersInv
<1>0. m.rv \in Nat /\ m.record \in Records /\ m.record \in journaled BY DEF Messages, Sound
<1>1. CASE m.rv # live.rv
  <2>1. UNCHANGED <<servers, history>> BY <1>1 DEF ApplyPatch, servers, history
  <2> QED BY <2>1 DEF servers, history, ServersOK, JournalInv, LiveInv, Ranked, Ranks, Known,
                     Closed, SucceededMeansDelivered, Grows
<1>2. CASE m.rv = live.rv
  <2> DEFINE o == m.record.id
  <2>0. /\ live' = [rv |-> live.rv + 1, content |-> Patched(live.content, m.record),
                    observed |-> FALSE, healthy |-> live.healthy]
        /\ patches' = [patches EXCEPT ![o] = @ + 1]
        /\ UNCHANGED <<journal, backend, journaled, delivered>>
    BY <1>2 DEF ApplyPatch
  <2>1. o \in Operations /\ Known(o) BY <1>0 DEF Known
  <2>2. /\ live.content \in Contents
        /\ Patched(live.content, m.record) \in Contents
        /\ Patched(live.content, m.record).annotation = o
    BY <2>1, DeliveryAssumption DEF ServersOK, Contents, Patched
  <2>3. ServersOK' BY <2>0, <2>1, <2>2 DEF ServersOK
  <2>4. Grows BY <2>0, <2>3 DEF Grows, ServersOK
  <2>5. JournalInv' BY <2>0 DEF JournalInv, Known, Closed
  <2>6. LiveInv'
    <3>1. \A p : Known(p)' = Known(p) BY <2>0 DEF Known
    <3>2. live'.content.annotation = o /\ live'.observed = FALSE BY <2>0, <2>2
    <3>3. \A p \in Operations : patches'[p] > 0 => p = o \/ patches[p] > 0 BY <2>0 DEF ServersOK
    <3> QED BY <2>1, <3>1, <3>2, <3>3 DEF LiveInv
  <2>7. Ranked'
    <3>1. PICK f \in [Operations -> Nat] : Ranks(f) BY DEF Ranked
    <3>2. live.content.annotation = m.record.prior BY <1>2 DEF Sound, Patchable, Untouched
    <3>3. live'.content.annotation = o /\ o # None BY <2>0, <2>2, <1>0
    <3>4. ASSUME NEW p \in Operations, patches'[p] > 0 PROVE f[p] <= f[o]
      <4>1. CASE p = o BY <3>1, <4>1
      <4>2. CASE p # o
        <5>1. patches[p] > 0 BY <2>0, <3>4, <4>2 DEF ServersOK
        <5>2. m.record.prior \in Operations /\ f[p] <= f[m.record.prior]
          BY <1>0, <3>1, <3>2, <5>1 DEF Ranks
        <5>3. f[m.record.prior] < f[o] BY <1>0, <3>1, <3>2, <5>1 DEF Ranks
        <5> QED BY <2>1, <3>1, <5>2, <5>3
      <4> QED BY <4>1, <4>2
    <3>5. Ranks(f)' BY <2>0, <3>1, <3>3, <3>4 DEF Ranks
    <3> QED BY <3>5 DEF Ranked
  <2>8. SucceededMeansDelivered' BY <2>0 DEF SucceededMeansDelivered
  <2> QED BY <2>3, <2>4, <2>5, <2>6, <2>7, <2>8
<1> QED BY <1>1, <1>2

LEMMA ApplyServers ==
  ASSUME ServersInv, NEW m \in Messages, Sound(m), Apply(m)
  PROVE  ServersInv' /\ Grows
BY PutServers, CallbackServers, PatchServers DEF Apply

LEMMA StillServers ==
  ASSUME ServersInv, UNCHANGED <<servers, history>>
  PROVE  ServersInv' /\ Grows
BY DEF servers, history, ServersInv, ServersOK, JournalInv, LiveInv, Ranked, Ranks, Known,
       Closed, SucceededMeansDelivered, Grows
------------------------------------------------------------------------------
(* One step.                                                               *)

\* The steps of the run that write: the write is outstanding, then applied.
LEMMA WriteServers ==
  ASSUME DeliveryInv, pc \in Calls, Apply(Request)
  PROVE  ServersInv' /\ Grows
<1>1. RunOK BY TypeParts DEF DeliveryInv
<1>2. Request \in Messages /\ Sound(Request) BY <1>1, RequestSound DEF DeliveryInv
<1> QED BY <1>2, ApplyServers DEF DeliveryInv

\* The late writes that are left stay sound; new ones were sound at the run.
LEMMA LateStays ==
  ASSUME DeliveryInv, ServersInv', Grows, late' \subseteq late
  PROVE  late' \subseteq Messages /\ \A m \in late' : Sound(m)'
<1>1. late \subseteq Messages BY TypeParts DEF DeliveryInv
<1>2. ASSUME NEW m \in late PROVE Sound(m)'
  BY <1>1, SoundStays DEF DeliveryInv, ServersInv
<1> QED BY <1>1, <1>2

\* The parts of a step put together.
LEMMA Together ==
  ASSUME DeliveryInv, ServersInv', Grows, RunOK', RunInv', late' \subseteq late,
         due' \in BOOLEAN, foreign' \in 0 .. MaxForeign
  PROVE  DeliveryInv'
<1>1. late' \subseteq Messages /\ \A m \in late' : Sound(m)' BY LateStays
<1>2. TypeOK' BY <1>1, TypeParts DEF ServersInv, TypeOK, ServersOK, RunOK
<1> QED BY <1>1, <1>2 DEF DeliveryInv

\* What a callback does for the operation in hand.
LEMMA CallbackEffect ==
  ASSUME DeliveryInv, NEW s \in Terminal \cup {"running"}, operation \in Records,
         Request = Callback(operation.id, s), Apply(Request)
  PROVE  /\ UNCHANGED <<journal, live, journaled, delivered, patches>>
         /\ backend' = IF backend[operation.id] \in Terminal THEN backend
                       ELSE [backend EXCEPT ![operation.id] = s]
<1>1. Request.kind = "callback" /\ Request.id = operation.id /\ Request.state = s BY DEF Callback
<1> QED BY <1>1 DEF Apply, ApplyCallback, history

LEMMA EndRunInv ==
  ASSUME ServersInv', NEW l \in {"idle", "killed"}, EndRun(l)
  PROVE  RunOK' /\ RunInv'
BY DEF EndRun, RunOK, RunInv, Working, ServersInv, ServersOK

\* A run that goes on with the record in hand, to anything but a patch.
LEMMA GoOn ==
  ASSUME DeliveryInv, ServersInv', Grows, pc \in Working, pc' \in Working, pc' # "patch",
         UNCHANGED <<operation, row>>, seen' \in Nat, seen' <= live'.rv,
         pc' = "succeed" => operation.id \in delivered',
         pc' = "clear" => Closed(operation)'
  PROVE  RunOK' /\ RunInv'
<1>1. RunOK /\ ServersOK /\ ServersOK' BY TypeParts DEF DeliveryInv, ServersInv
<1>2. RunOK' BY <1>1 DEF RunOK, Working, Calls
<1>3. row <= journal'.rv /\ (row = journal'.rv => row = journal.rv /\ journal' = journal)
  BY <1>1 DEF DeliveryInv, RunInv, RunOK, Grows, ServersOK
<1>4. operation \in journaled' BY DEF DeliveryInv, RunInv, Grows
<1>5. row = journal'.rv => journal'.record = operation BY <1>3 DEF DeliveryInv, RunInv
<1> QED BY <1>2, <1>3, <1>4, <1>5 DEF RunInv, Working

\* A record that is untouched, and whose image is not there, was never patched:
\* its operation would lie before its own predecessor.
LEMMA UntouchedIsPatchable ==
  ASSUME ServersInv, NEW r \in journaled, Untouched(r)
  PROVE  Patchable(r)
<1>1. PICK f \in [Operations -> Nat] : Ranks(f) BY DEF ServersInv, Ranked
<1>2. r.id \in Operations /\ r.prior \in Operations \cup {None}
  BY RecordFacts DEF ServersInv, ServersOK
<1>3. live.content.annotation = r.prior BY DEF Untouched
<1>4. ~ (patches[r.id] > 0)
  <2> SUFFICES ASSUME patches[r.id] > 0 PROVE FALSE OBVIOUS
  <2>1. r.prior # None /\ f[r.id] <= f[r.prior] BY <1>1, <1>2, <1>3 DEF Ranks
  <2>2. f[r.prior] < f[r.id] BY <1>1, <2>1 DEF Ranks
  <2>3. f[r.id] \in Nat /\ f[r.prior] \in Nat BY <1>1, <1>2, <2>1
  <2> QED BY <2>1, <2>2, <2>3
<1>5. patches[r.id] \in Nat BY <1>2 DEF ServersInv, ServersOK
<1> QED BY <1>4, <1>5 DEF Patchable

LEMMA RunStep ==
  ASSUME DeliveryInv, Run
  PROVE  DeliveryInv'
<1> USE RecordFacts
<1>0. /\ ServersOK /\ RunOK /\ due \in BOOLEAN /\ foreign \in 0 .. MaxForeign
      /\ ServersInv /\ RunInv
  BY TypeParts DEF DeliveryInv
<1>s. ASSUME UNCHANGED <<servers, history>> PROVE ServersInv' /\ Grows
  BY <1>0, <1>s, StillServers
<1>1. CASE Start
  <2>1. ServersInv' /\ Grows BY <1>1, <1>s DEF Start
  <2>2. RunOK' /\ RunInv'
    <3>1. /\ row' = journal.rv /\ operation' = journal.record /\ UNCHANGED <<seen, servers, history>>
          /\ pc' = IF journal.record = NoRecord THEN "queue" ELSE "claim"
      BY <1>1 DEF Start
    <3>2. RunOK' BY <1>0, <3>1 DEF RunOK, ServersOK, Calls
    <3>3. journal.record # NoRecord => journal.record \in journaled
      BY <1>0 DEF ServersInv, JournalInv
    <3> QED BY <1>0, <3>1, <3>2, <3>3 DEF RunInv, Working, ServersOK, servers, history
  <2> QED BY <1>0, <1>1, <2>1, <2>2, Together DEF Start
<1>2. CASE Idle
  <2>1. ServersInv' /\ Grows BY <1>2, <1>s DEF Idle
  <2> QED BY <1>0, <1>2, <2>1, EndRunInv, Together DEF Idle, End
<1>3. CASE Save
  <2>1. ServersInv' /\ Grows BY <1>3, WriteServers DEF Save, Calls
  <2>2. CASE row = journal.rv
    <3>1. Request = Put(row, operation) BY <1>3, RequestIs DEF Save
    <3>2. /\ journal' = [rv |-> row + 1, record |-> operation]
          /\ journaled' = journaled \cup ({operation} \ {NoRecord}) /\ live' = live
      BY <1>3, <2>2, <3>1 DEF Save, Apply, ApplyPut, Put
    <3>3. operation \in Records BY <1>0, <1>3 DEF RunOK, Save
    <3>4. pc' = "claim" /\ row' = row + 1 /\ UNCHANGED <<operation, seen>> BY <1>3, <2>2 DEF Save
    <3>5. RunOK' BY <1>0, <3>3, <3>4 DEF RunOK, Calls
    <3>6. RunInv' BY <1>0, <3>2, <3>3, <3>4 DEF RunInv, RunOK, Working
    <3> QED BY <1>0, <1>3, <2>1, <3>5, <3>6, Together DEF Save
  <2>3. CASE row # journal.rv
    BY <1>0, <1>3, <2>1, <2>3, EndRunInv, Together DEF Save, End
  <2> QED BY <2>2, <2>3
<1>4. CASE Claim
  <2>1. ServersInv' /\ Grows BY <1>4, WriteServers DEF Claim, Calls
  <2>2. pc' = (IF backend'[operation.id] \in Terminal THEN "clear" ELSE "inspect")
        /\ UNCHANGED <<operation, row, seen>>
    BY <1>4 DEF Claim, Go
  <2>3. seen' \in Nat /\ seen' <= live'.rv
    BY <1>0, <2>1, <2>2 DEF RunOK, RunInv, Grows, ServersInv, ServersOK
  <2>4. RunOK' /\ RunInv' BY <1>4, <2>1, <2>2, <2>3, GoOn DEF Claim, Working, Closed
  <2> QED BY <1>0, <1>4, <2>1, <2>4, Together DEF Claim
<1>5. CASE Inspect
  <2>1. ServersInv' /\ Grows BY <1>5, <1>s DEF Inspect
  <2>2. pc \in Working /\ seen' = live.rv /\ UNCHANGED <<operation, row, servers, history>>
    BY <1>5 DEF Inspect, Working
  <2>3. operation \in journaled BY <1>0, <2>2 DEF RunInv
  <2>4. RunOK' /\ RunInv'
    <3>1. CASE pc' = "patch"
      <4>1. Untouched(operation) BY <1>5, <3>1 DEF Inspect
      <4>2. Patchable(operation) BY <1>0, <2>3, <4>1, UntouchedIsPatchable
      <4>3. Patchable(operation)' BY <2>2, <4>2 DEF Patchable, Untouched, servers, history
      <4>4. RunOK' BY <1>0, <1>5, <2>2, <3>1 DEF RunOK, Inspect, Calls, ServersOK
      <4> QED BY <1>0, <2>2, <3>1, <4>3, <4>4 DEF RunInv, Working, servers, history, ServersOK
    <3>2. CASE pc' # "patch"
      <4>1. pc' \in {"fail", "watch"} BY <1>5, <3>2 DEF Inspect
      <4>2. seen' \in Nat /\ seen' <= live'.rv BY <1>0, <2>2 DEF servers, ServersOK
      <4> QED BY <2>1, <2>2, <3>2, <4>1, <4>2, GoOn DEF Working
    <3> QED BY <3>1, <3>2
  <2> QED BY <1>0, <1>5, <2>1, <2>4, Together DEF Inspect
<1>6. CASE PatchDeployment
  <2>1. ServersInv' /\ Grows BY <1>6, WriteServers DEF PatchDeployment, Calls
  <2>2. CASE seen = live.rv
    <3>1. pc' = "watch" /\ UNCHANGED <<operation, row, seen>> BY <1>6, <2>2 DEF PatchDeployment, Go
    <3>2. seen' \in Nat /\ seen' <= live'.rv
      BY <1>0, <2>1, <3>1 DEF RunOK, RunInv, Grows, ServersInv, ServersOK
    <3>3. RunOK' /\ RunInv' BY <1>6, <2>1, <3>1, <3>2, GoOn DEF PatchDeployment, Working
    <3> QED BY <1>0, <1>6, <2>1, <3>3, Together DEF PatchDeployment
  <2>3. CASE seen # live.rv
    BY <1>0, <1>6, <2>1, <2>3, EndRunInv, Together DEF PatchDeployment, End
  <2> QED BY <2>2, <2>3
<1>7. CASE Watch \/ Probe \/ Recheck
  <2>1. ServersInv' /\ Grows BY <1>7, <1>s DEF Watch, Probe, Recheck
  <2>2. /\ UNCHANGED <<operation, row, seen, servers, history>> /\ pc \in Working
        /\ pc' \in {"fail", "probe", "watch", "recheck", "succeed"}
    BY <1>7 DEF Watch, Probe, Recheck, Go, Working
  <2>3. pc' = "succeed" => operation.id \in delivered
    <3>1. SUFFICES ASSUME pc' = "succeed" PROVE operation.id \in delivered OBVIOUS
    <3>2. Complete(operation) BY <1>7, <3>1 DEF Watch, Probe, Recheck, Go
    <3>3. operation \in Records BY <1>0, <2>2 DEF RunInv, ServersOK
    <3>4. /\ live.content.annotation = operation.id /\ live.content.image = Image[operation.id]
          /\ live.observed /\ live.healthy
      BY <3>2 DEF Complete, Applied
    <3> QED BY <1>0, <3>3, <3>4 DEF ServersInv, LiveInv
  <2>4. seen' \in Nat /\ seen' <= live'.rv BY <1>0, <2>2 DEF RunOK, RunInv, servers
  <2>5. delivered' = delivered BY <2>2 DEF history
  <2>6. RunOK' /\ RunInv' BY <2>1, <2>2, <2>3, <2>4, <2>5, GoOn DEF Working
  <2>7. late' \subseteq late /\ due' \in BOOLEAN /\ foreign' \in 0 .. MaxForeign
    BY <1>0, <1>7 DEF Watch, Probe, Recheck
  <2> QED BY <2>1, <2>6, <2>7, Together
<1>8. CASE Fail \/ Succeed
  <2>1. pc \in Calls /\ pc \in Working /\ Apply(Request) /\ UNCHANGED <<late, due, foreign>>
    BY <1>8 DEF Fail, Succeed, Calls, Working
  <2>2. ServersInv' /\ Grows BY <2>1, WriteServers
  <2>3. CASE pc' = "clear"
    <3>1. /\ backend'[operation.id] \in Terminal /\ UNCHANGED <<operation, row, seen>>
      BY <1>8, <2>3 DEF Fail, Succeed, Go, End, EndRun, Terminal
    <3>2. seen' \in Nat /\ seen' <= live'.rv
      BY <1>0, <2>2, <3>1 DEF RunOK, RunInv, Grows, ServersInv, ServersOK
    <3>3. RunOK' /\ RunInv' BY <2>1, <2>2, <2>3, <3>1, <3>2, GoOn DEF Working, Closed
    <3> QED BY <1>0, <2>1, <2>2, <3>3, Together
  <2>4. CASE pc' # "clear"
    <3>1. EndRun("idle") BY <1>8, <2>4 DEF Fail, Succeed, Go, End
    <3> QED BY <1>0, <2>1, <2>2, <3>1, EndRunInv, Together
  <2> QED BY <2>3, <2>4
<1>9. CASE Clear
  <2>1. ServersInv' /\ Grows BY <1>9, WriteServers DEF Clear, Calls
  <2> QED BY <1>0, <1>9, <2>1, EndRunInv, Together DEF Clear, End
<1>10. ASSUME NEW o \in Operations, Pick(o) PROVE DeliveryInv'
  <2> DEFINE r == [id |-> o, original |-> live.content.image,
                   footprint |-> live.content.footprint, prior |-> live.content.annotation]
  <2>1. ServersInv' /\ Grows BY <1>10, <1>s DEF Pick
  <2>2. /\ operation' = r /\ pc' = "save" /\ due' = FALSE
        /\ UNCHANGED <<row, seen, servers, late, foreign, history>>
    BY <1>10 DEF Pick
  <2>3. r \in Records BY <1>0 DEF ServersOK, Contents, Records
  <2>4. row = journal.rv => Fresh(r)
    <3> SUFFICES ASSUME row = journal.rv PROVE Fresh(r) OBVIOUS
    <3>1. journal.record = NoRecord BY <1>0, <1>10 DEF Pick, RunInv
    <3>2. ~ Known(o)
      BY <1>0, <1>10, <3>1 DEF Pick, Known, ServersInv, ServersOK, JournalInv, Closed
    <3>3. r.prior = None \/ Known(r.prior) BY <1>0 DEF ServersInv, LiveInv
    <3> QED BY <3>1, <3>2, <3>3 DEF Fresh
  <2> HIDE DEF r
  <2>5. RunOK' BY <1>0, <2>2, <2>3 DEF RunOK, Calls
  <2>6. RunInv' BY <1>0, <2>2, <2>4 DEF RunInv, Working, Fresh, Known, servers, history
  <2> QED BY <1>0, <2>1, <2>2, <2>5, <2>6, Together
<1> QED BY <1>1, <1>2, <1>3, <1>4, <1>5, <1>6, <1>7, <1>8, <1>9, <1>10 DEF Run

\* A change of a Deployment's status.
LEMMA StatusChange ==
  ASSUME NEW l \in [rv : Nat, content : Contents, observed : BOOLEAN, healthy : BOOLEAN],
         NEW o \in BOOLEAN, NEW h \in BOOLEAN
  PROVE  /\ [l EXCEPT !.rv = @ + 1, !.observed = o, !.healthy = h]
              \in [rv : Nat, content : Contents, observed : BOOLEAN, healthy : BOOLEAN]
         /\ [l EXCEPT !.rv = @ + 1, !.healthy = h]
              \in [rv : Nat, content : Contents, observed : BOOLEAN, healthy : BOOLEAN]
<1>1. l.rv + 1 \in Nat OBVIOUS
<1> QED BY <1>1, Zenon

LEMMA DeployStep ==
  ASSUME DeliveryInv, Deploy \/ ForeignRollout
  PROVE  DeliveryInv'
<1>0. /\ ServersOK /\ RunOK /\ due \in BOOLEAN /\ foreign \in 0 .. MaxForeign
      /\ ServersInv /\ RunInv
  BY TypeParts DEF DeliveryInv
<1>1. /\ UNCHANGED <<run, journal, backend, late, due, journaled>>
      /\ live' \in [rv : Nat, content : Contents, observed : BOOLEAN, healthy : BOOLEAN]
      /\ live'.rv = live.rv + 1
      /\ delivered \subseteq delivered' /\ delivered' \subseteq Operations
  <2>1. CASE ObserveGeneration
    <3>1. live' = [live EXCEPT !.rv = @ + 1, !.observed = TRUE, !.healthy = FALSE]
      BY <2>1 DEF ObserveGeneration
    <3>2. live' \in [rv : Nat, content : Contents, observed : BOOLEAN, healthy : BOOLEAN]
      BY <1>0, <3>1, StatusChange, Zenon DEF ServersOK
    <3> QED BY <1>0, <2>1, <3>1, <3>2 DEF ObserveGeneration, ServersOK, history
  <2>2. CASE RollOut
    <3>1. live' = [live EXCEPT !.rv = @ + 1, !.healthy = TRUE] BY <2>2 DEF RollOut
    <3>2. live' \in [rv : Nat, content : Contents, observed : BOOLEAN, healthy : BOOLEAN]
      BY <1>0, <3>1, StatusChange, Zenon DEF ServersOK
    <3>3. live.content.annotation \in Operations \cup {None} BY <1>0 DEF ServersOK, Contents
    <3> QED BY <1>0, <2>2, <3>1, <3>2, <3>3 DEF RollOut, ServersOK
  <2>3. CASE ForeignRollout
    BY <1>0, <2>3 DEF ForeignRollout, ServersOK
  <2> QED BY <2>1, <2>2, <2>3 DEF Deploy
<1>2. /\ patches' \in [Operations -> Nat] /\ foreign' \in 0 .. MaxForeign
      /\ \A o \in Operations : patches'[o] > 0 =>
           patches[o] > 0 /\ live'.content.annotation = live.content.annotation
  <2>1. CASE ObserveGeneration
    BY <1>0, <2>1 DEF ObserveGeneration, ServersOK, history
  <2>2. CASE RollOut
    BY <1>0, <2>2 DEF RollOut, ServersOK
  <2>3. CASE ForeignRollout
    BY <1>0, <2>3, DeliveryAssumption DEF ForeignRollout
  <2> QED BY <2>1, <2>2, <2>3 DEF Deploy
<1>3. ServersOK' BY <1>0, <1>1, <1>2 DEF ServersOK
<1>4. Grows BY <1>0, <1>1 DEF Grows, ServersOK
<1>5. JournalInv' BY <1>0, <1>1 DEF ServersInv, JournalInv, Known, Closed
<1>6. LiveInv'
  <2>1. \A o : Known(o)' = Known(o) BY <1>1 DEF Known
  <2>2. \A o \in Operations : patches'[o] > 0 => Known(o)
    BY <1>0, <1>2 DEF ServersInv, LiveInv
  <2>3. live'.content.annotation \in {None, live.content.annotation}
    <3>1. CASE ObserveGeneration BY <1>0, <3>1 DEF ObserveGeneration, ServersOK
    <3>2. CASE RollOut BY <1>0, <3>2 DEF RollOut, ServersOK
    <3>3. CASE ForeignRollout BY <3>3 DEF ForeignRollout
    <3> QED BY <3>1, <3>2, <3>3 DEF Deploy
  <2>4. /\ live'.observed /\ live'.healthy /\ live'.content.annotation # None
        /\ live'.content.image = Image[live'.content.annotation]
        => live'.content.annotation \in delivered'
    <3>1. CASE ObserveGeneration BY <1>0, <3>1 DEF ObserveGeneration, ServersOK
    <3>2. CASE RollOut BY <1>0, <3>2 DEF RollOut, ServersOK
    <3>3. CASE ForeignRollout BY <3>3 DEF ForeignRollout
    <3> QED BY <3>1, <3>2, <3>3 DEF Deploy
  <2> QED BY <1>0, <2>1, <2>2, <2>3, <2>4 DEF ServersInv, LiveInv
<1>7. Ranked'
  <2>1. PICK f \in [Operations -> Nat] : Ranks(f) BY <1>0 DEF ServersInv, Ranked
  <2>2. Ranks(f)' BY <1>1, <1>2, <2>1 DEF Ranks
  <2> QED BY <2>2 DEF Ranked
<1>8. SucceededMeansDelivered' BY <1>0, <1>1 DEF ServersInv, SucceededMeansDelivered
<1>9. ServersInv' BY <1>3, <1>5, <1>6, <1>7, <1>8 DEF ServersInv
<1>10. RunInv' BY <1>0, <1>1, <1>3, <1>4, RunStays
<1>11. RunOK' BY <1>0, <1>1 DEF run, RunOK
<1> QED BY <1>0, <1>1, <1>2, <1>4, <1>9, <1>10, <1>11, Together

LEMMA StopStep ==
  ASSUME DeliveryInv, Stop
  PROVE  DeliveryInv'
<1>0. /\ RunOK /\ due' \in BOOLEAN /\ foreign' \in 0 .. MaxForeign /\ EndRun("killed")
      /\ ServersInv
  BY TypeParts DEF DeliveryInv, Stop
<1>1. CASE UNCHANGED <<servers, history, late>>
  <2>1. ServersInv' /\ Grows BY <1>0, <1>1, StillServers
  <2> QED BY <1>0, <1>1, <2>1, EndRunInv, Together
<1>2. CASE pc \in Calls /\ Apply(Request) /\ UNCHANGED late
  <2>1. ServersInv' /\ Grows BY <1>2, WriteServers
  <2> QED BY <1>0, <1>2, <2>1, EndRunInv, Together
<1>3. CASE pc \in Calls /\ late' = late \cup {Request} /\ UNCHANGED <<servers, history>>
  <2>1. ServersInv' /\ Grows BY <1>0, <1>3, StillServers
  <2>2. RunOK' /\ RunInv' BY <1>0, <2>1, EndRunInv
  <2>3. Request \in Messages /\ Sound(Request)
    BY <1>0, <1>3, RequestSound DEF DeliveryInv
  <2>4. late \subseteq Messages BY TypeParts DEF DeliveryInv
  <2>5. ASSUME NEW m \in late' PROVE m \in Messages /\ Sound(m)'
    <3>1. m \in Messages /\ Sound(m) BY <1>3, <2>3, <2>4 DEF DeliveryInv
    <3> QED BY <1>0, <2>1, <3>1, SoundStays DEF ServersInv
  <2>6. TypeOK' BY <1>0, <2>1, <2>2, <2>5 DEF ServersInv, TypeOK, ServersOK, RunOK
  <2> QED BY <2>1, <2>2, <2>5, <2>6 DEF DeliveryInv
<1> QED BY <1>1, <1>2, <1>3 DEF Stop

LEMMA ArriveStep ==
  ASSUME DeliveryInv, NEW m \in late, Arrive(m)
  PROVE  DeliveryInv'
<1>0. /\ ServersOK /\ RunOK /\ due' \in BOOLEAN /\ foreign' \in 0 .. MaxForeign
      /\ late' \subseteq late /\ m \in Messages /\ UNCHANGED run
  BY TypeParts DEF DeliveryInv, Arrive
<1>1. ServersInv' /\ Grows BY <1>0, ApplyServers DEF DeliveryInv, Arrive
<1>2. RunInv' BY <1>0, <1>1, RunStays DEF DeliveryInv, ServersInv
<1>3. RunOK' BY <1>0 DEF run, RunOK
<1> QED BY <1>0, <1>1, <1>2, <1>3, Together

LEMMA StepInv == DeliveryInv /\ [Next]_vars => DeliveryInv'
<1> SUFFICES ASSUME DeliveryInv, [Next]_vars PROVE DeliveryInv' OBVIOUS
<1>0. ServersOK /\ RunOK /\ due \in BOOLEAN /\ foreign \in 0 .. MaxForeign /\ ServersInv /\ RunInv
  BY TypeParts DEF DeliveryInv
<1>1. CASE Clock \/ UNCHANGED vars
  <2>1. UNCHANGED <<run, servers, history, late, foreign>> /\ due' \in BOOLEAN
    BY <1>0, <1>1 DEF Clock, vars
  <2>2. ServersInv' /\ Grows BY <1>0, <2>1, StillServers
  <2>3. RunInv' BY <1>0, <2>1, <2>2, RunStays DEF ServersInv
  <2>4. RunOK' BY <1>0, <2>1 DEF run, RunOK
  <2> QED BY <1>0, <2>1, <2>2, <2>3, <2>4, Together
<1> QED BY <1>1, RunStep, DeployStep, StopStep, ArriveStep DEF Next
------------------------------------------------------------------------------
(* The theorems.                                                           *)

\* DeliveryInv is an invariant: runs, late writes, rollouts
\* (test_delivery_controller.py:99-288).
THEOREM DeliveryInvariant == Spec => []DeliveryInv
BY InitInv, StepInv, PTL DEF Spec

\* The journal, the queue, the Deployment and every outstanding write keep their
\* types (test_delivery_controller.py:224-288).
THEOREM TypeCorrect == Spec => []TypeOK
<1>1. DeliveryInv => TypeOK BY DEF DeliveryInv
<1> QED BY <1>1, DeliveryInvariant, PTL

\* No delivery is reported succeeded before its own rollout was complete,
\* whatever was killed, came late or was rolled out by others.
THEOREM SuccessIsDelivered == Spec => []SucceededMeansDelivered
<1>1. DeliveryInv => SucceededMeansDelivered BY DEF DeliveryInv, ServersInv
<1> QED BY <1>1, DeliveryInvariant, PTL

\* Only a sound write patches, so it finds what its operation was journaled for
\* and is the first to patch for it.
LEMMA ApplyPatches ==
  ASSUME ServersInv, NEW m \in Messages, Sound(m), Apply(m),
         NEW o \in Operations, patches'[o] > patches[o]
  PROVE  patches[o] = 0 /\ \E r \in journaled : r.id = o /\ Untouched(r)
<1>1. patches \in [Operations -> Nat] BY DEF ServersInv, ServersOK
<1>2. m.kind = "patch" /\ m.rv = live.rv /\ patches' = [patches EXCEPT ![m.record.id] = @ + 1]
  BY <1>1 DEF Apply, ApplyPut, ApplyCallback, ApplyPatch, history
<1>3. m.record.id = o BY <1>1, <1>2
<1> QED BY <1>2, <1>3 DEF Sound, Patchable

\* A patch, however late, lands on the Deployment its operation was journaled
\* for, once, unless the platform rolled out something else in between.
THEOREM PatchSafety == Spec => PatchesOnceWhatWasJournaled
<1> DEFINE Once == \A o \in Operations : patches'[o] > patches[o] =>
                     patches[o] = 0 /\ \E r \in journaled : r.id = o /\ Untouched(r)
<1>1. ASSUME DeliveryInv, [Next]_vars PROVE [Once]_vars
  <2> SUFFICES ASSUME NEW o \in Operations, patches'[o] > patches[o]
               PROVE  patches[o] = 0 /\ \E r \in journaled : r.id = o /\ Untouched(r)
    OBVIOUS
  <2>0. RunOK /\ ServersInv /\ RunInv /\ late \subseteq Messages
    BY <1>1, TypeParts DEF DeliveryInv
  <2>1. patches \in [Operations -> Nat] /\ patches' # patches BY <2>0 DEF ServersInv, ServersOK
  <2>2. CASE \E m \in late : Arrive(m)
    BY <1>1, <2>0, <2>2, ApplyPatches DEF Arrive, DeliveryInv
  <2>3. CASE pc \in Calls /\ Apply(Request)
    BY <2>0, <2>3, RequestSound, ApplyPatches
  <2>4. CASE ForeignRollout
    BY <2>1, <2>4 DEF ForeignRollout
  <2>5. CASE Run \/ Stop
    <3>1. pc \in Calls /\ Apply(Request)
      BY <2>1, <2>5 DEF Run, Stop, Start, Idle, Save, Claim, Inspect, PatchDeployment, Watch,
                        Probe, Recheck, Fail, Succeed, Clear, Pick, Calls, history
    <3> QED BY <2>3, <3>1
  <2>6. CASE Deploy \/ Clock \/ UNCHANGED vars
    BY <2>1, <2>6 DEF Deploy, ObserveGeneration, RollOut, Clock, vars, history
  <2> QED BY <1>1, <2>2, <2>4, <2>5, <2>6 DEF Next
<1>2. [][DeliveryInv /\ [Next]_vars => [Once]_vars]_vars BY <1>1, PTL
<1> QED BY <1>1, DeliveryInvariant, PTL DEF Spec, PatchesOnceWhatWasJournaled
==============================================================================
