------------------------------ MODULE Workbench ------------------------------
(***************************************************************************)
(* The Pattern Kit workbench bridge,                                       *)
(* src/files/app/patternkit/workbench_bridge.py: the binding of one        *)
(* visibly shared tab, the operations Star performs in it, and the Studio  *)
(* session they change, beside a person who edits, takes the lease, moves  *)
(* between tabs and restarts Firefox.                                      *)
(*                                                                         *)
(* One Studio session, whose server is external: a change it is sent under *)
(* Star's identity is applied only at the stated revision and while Star   *)
(* holds an unexpired lease; a person may change the session at any time.  *)
(* Which controls and texts are safe, and what is published or redacted,   *)
(* is left out; a check that may fail for any other reason (a timeout, an  *)
(* ambiguous title) is an operation that is abandoned.                     *)
(*                                                                         *)
(* The state file may hold a binding when the model starts: no share       *)
(* succeeds in this code (see Share).                                      *)
(***************************************************************************)
EXTENDS Naturals

CONSTANTS
  Tabs,        \* top-level browsing contexts
  Agents,      \* requests of Star that the threaded server handles at once
  MaxRevision, \* bound on changes of the session
  MaxInputs,   \* bound on input requests
  Free         \* nobody: no lease, no lock, no author

VARIABLES
  url,         \* url[t]: what tab t shows
  active,      \* the tab in front
  bound,       \* the tab of the state file, if its Firefox still runs
  revision,    \* revision of the Studio session
  author,      \* author[r]: the operation that made revision r, Free: a person
  lease,       \* who holds the control lease
  lock,        \* the holder of _AGENT_OPERATION_LOCK
  step,        \* step[a]: where the input request of a is
  expected,    \* expected[a]: the revision a was asked to change
  underway,    \* guarded requests that went on and have not been served
  answer,      \* answer[a]: the response to the guarded request of a
  confirmed,   \* operations reported as done, with their revision (history)
  inputs       \* input requests so far; the number of an operation

benchVars == <<url, active, bound, revision, author, lease, lock, step,
               expected, underway, answer, confirmed, inputs>>

\* The landing page, the shared URL (nonce and session), Studio without the
\* nonce, and an origin that is not Studio's, such as the login.
Urls == {"landing", "shared", "studio", "elsewhere"}
Operations == 1 .. MaxInputs
Revisions == 0 .. MaxRevision
Guarded == [op : Operations, revision : Revisions, again : BOOLEAN]
op(a) == step[a].op

BenchTypeOK ==
  /\ url \in [Tabs -> Urls]
  /\ active \in Tabs
  /\ bound \in Tabs \cup {Free}
  /\ revision \in Revisions
  /\ author \in [1 .. MaxRevision -> Operations \cup {Free}]
  /\ lease \in {"star", "joy", Free}
  /\ lock \in Agents \cup {Free}
  /\ step \in [Agents -> [at : {"idle", "called", "leased", "armed", "sent", "answered"},
                           op : 0 .. MaxInputs]]
  /\ expected \in [Agents -> Revisions]
  /\ underway \subseteq Guarded
  /\ answer \in [Agents -> {"none", "accepted", "refused"}]
  /\ confirmed \subseteq Operations \X Revisions
  /\ inputs \in 0 .. MaxInputs

BenchInit ==
  /\ \E t \in Tabs :
       /\ active = t
       /\ url = [u \in Tabs |-> IF u = t THEN "shared" ELSE "landing"]
       /\ bound = t
  /\ revision = 0
  /\ author = [r \in 1 .. MaxRevision |-> Free]
  /\ lease = Free
  /\ lock = Free
  /\ step = [a \in Agents |-> [at |-> "idle", op |-> 0]]
  /\ expected = [a \in Agents |-> 0]
  /\ underway = {}
  /\ answer = [a \in Agents |-> "none"]
  /\ confirmed = {}
  /\ inputs = 0

-----------------------------------------------------------------------------
(* The binding *)

OfStudio == {"shared", "studio"}

\* Titles are read of Studio's tabs only, so the window in front is recognised
\* as a context only if it shows one, and every tab must be isolated.
Recognised(t) == url[t] \in OfStudio
Isolated == \A t \in Tabs : url[t] # "elsewhere"

\* The tab in front is the one that was in this Firefox, and still
\* shows the shared URL.
Verified(t) ==
  /\ t = active
  /\ Recognised(t)
  /\ Isolated
  /\ t = bound
  /\ url[t] = "shared"

\* The visible link of the landing page.  The page is not Studio's, so its title
\* is not read, the tab in front is not recognised and the share is refused.
Share ==
  /\ url[active] = "landing"
  /\ IF Recognised(active)
       THEN /\ bound' = active
            /\ url' = [url EXCEPT ![active] = "shared"]
       ELSE UNCHANGED <<bound, url>>
  /\ UNCHANGED <<active, revision, author, lease, lock, step, expected, underway, answer,
                 confirmed, inputs>>

\* A person goes to another tab, or navigates the one in front: away, to Studio
\* or to a copy of the shared URL.
Browse ==
  /\ \/ \E t \in Tabs \ {active} : active' = t /\ UNCHANGED url
     \/ \E u \in Urls \ {url[active]} : url' = [url EXCEPT ![active] = u] /\ UNCHANGED active
  /\ UNCHANGED <<bound, revision, author, lease, lock, step, expected, underway, answer,
                 confirmed, inputs>>

\* Firefox restarts: its identity changes, and so do those of its tabs.
RestartFirefox ==
  /\ url' = [t \in Tabs |-> "landing"]
  /\ bound' = Free
  /\ step' = [a \in Agents |->
                IF step[a].at \in {"armed", "sent"} THEN [at |-> "idle", op |-> 0] ELSE step[a]]
  /\ lock' = IF lock # Free /\ step[lock].at \in {"armed", "sent"} THEN Free ELSE lock
  /\ answer' = [a \in Agents |-> IF step[a].at \in {"armed", "sent"} THEN "none" ELSE answer[a]]
  /\ UNCHANGED <<active, revision, author, lease, expected, underway, confirmed, inputs>>

-----------------------------------------------------------------------------
(* The Studio session *)

\* A person changes the session by other means than the bound tab.
Edit ==
  /\ revision < MaxRevision
  /\ revision' = revision + 1
  /\ UNCHANGED <<url, active, bound, author, lease, lock, step, expected, underway,
                 answer, confirmed, inputs>>

\* A lease is taken, given up or expires.
MoveLease ==
  /\ \E holder \in {"joy", Free} \ {lease} : lease' = holder
  /\ UNCHANGED <<url, active, bound, revision, author, lock, step, expected, underway,
                 answer, confirmed, inputs>>

\* /agent/control, serialised with the operations by the lock; to acquire a free
\* lease, to release it or to hand it over.
Control ==
  /\ lock = Free
  /\ Verified(active)
  /\ \/ lease = Free /\ lease' = "star"
     \/ lease = "star" /\ lease' \in {"joy", Free}
  /\ UNCHANGED <<url, active, bound, revision, author, lock, step, expected, underway,
                 answer, confirmed, inputs>>

-----------------------------------------------------------------------------
(* /agent/input *)

Advance(a, place) == step' = [step EXCEPT ![a].at = place]

\* The exact binding is required before the lock is taken; the caller names a
\* revision that it may have read.
Receive(a, r) ==
  /\ step[a].at = "idle"
  /\ inputs < MaxInputs
  /\ Verified(active)
  /\ inputs' = inputs + 1
  /\ step' = [step EXCEPT ![a] = [at |-> "called", op |-> inputs + 1]]
  /\ expected' = [expected EXCEPT ![a] = r]
  /\ answer' = [answer EXCEPT ![a] = "none"]
  /\ UNCHANGED <<url, active, bound, revision, author, lease, lock,
                 underway, confirmed>>

\* The session is read: Star holds the lease of exactly that revision.
Lease(a) ==
  /\ step[a].at = "called"
  /\ lock = Free
  /\ lock' = a
  /\ revision = expected[a]
  /\ lease = "star"
  /\ Advance(a, "leased")
  /\ UNCHANGED <<url, active, bound, revision, author, lease, expected, underway, answer,
                 confirmed, inputs>>

\* The tab is verified again, its Studio frame found and the intercept installed;
\* the click, text or key then goes to that frame, whatever is in front by now.
Arm(a) ==
  /\ step[a].at = "leased"
  /\ Verified(active)
  /\ Advance(a, "armed")
  /\ UNCHANGED <<url, active, bound, revision, author, lease, lock, expected, underway,
                 answer, confirmed, inputs>>

\* The frame posts a change and the bridge lets it go on as Star's, with the
\* operation and the revision in its URL.
Request(a, again) == [op |-> op(a), revision |-> expected[a], again |-> again]

Post(a) ==
  /\ step[a].at = "armed"
  /\ underway' = underway \cup {Request(a, FALSE)}
  /\ Advance(a, "sent")
  /\ UNCHANGED <<url, active, bound, revision, author, lease, lock, expected,
                 answer, confirmed, inputs>>

\* A second change of the frame is let go on before it is noticed, and the
\* operation has failed.
PostAgain(a) ==
  /\ step[a].at = "sent"
  /\ underway' = underway \cup {Request(a, TRUE)}
  /\ step' = [step EXCEPT ![a] = [at |-> "idle", op |-> 0]]
  /\ lock' = Free
  /\ UNCHANGED <<url, active, bound, revision, author, lease, expected, answer,
                 confirmed, inputs>>

\* The server decides, perhaps long after the operation was given up.
Serve(r) ==
  /\ r \in underway
  /\ underway' = underway \ {r}
  /\ LET applied == lease = "star" /\ revision = r.revision
     IN  /\ applied => revision < MaxRevision
         /\ revision' = IF applied THEN revision + 1 ELSE revision
         /\ author' = IF applied THEN [author EXCEPT ![revision + 1] = r.op] ELSE author
         /\ answer' = [a \in Agents |->
              IF step[a].at = "sent" /\ op(a) = r.op
                THEN IF applied THEN "accepted" ELSE "refused"
                ELSE answer[a]]
  /\ UNCHANGED <<url, active, bound, lease, lock, step, expected, confirmed, inputs>>

\* The response of exactly that request arrives and the intercept is removed.
Respond(a) ==
  /\ step[a].at = "sent"
  /\ answer[a] # "none"
  /\ Advance(a, "answered")
  /\ UNCHANGED <<url, active, bound, revision, author, lease, lock, expected,
                 underway, answer, confirmed, inputs>>

\* Plausible bug: the response's status is not looked at.
ReceiptVerifiedBlindly(a) == revision = expected[a] + 1 /\ lease = "star"

\* _verify_browser_receipt, on the session read after the response.
ReceiptVerified(a) ==
  /\ answer[a] = "accepted"
  /\ revision = expected[a] + 1
  /\ lease = "star"

Confirm(a) ==
  /\ step[a].at = "answered"
  /\ ReceiptVerified(a)
  /\ confirmed' = confirmed \cup {<<op(a), revision>>}
  /\ step' = [step EXCEPT ![a] = [at |-> "idle", op |-> 0]]
  /\ lock' = Free
  /\ UNCHANGED <<url, active, bound, revision, author, lease, expected, underway, answer,
                 inputs>>

\* A check does not pass, nothing is posted or answered in time, or the caller's
\* connection dies: an error is reported and the lock released.
Abandon(a) ==
  /\ step[a].at # "idle"
  /\ step' = [step EXCEPT ![a] = [at |-> "idle", op |-> 0]]
  /\ lock' = IF lock = a THEN Free ELSE lock
  /\ UNCHANGED <<url, active, bound, revision, author, lease, expected, underway, answer,
                 confirmed, inputs>>

BenchNext ==
  \/ Share \/ Browse \/ RestartFirefox \/ Edit \/ MoveLease \/ Control
  \/ \E a \in Agents :
       \/ \E r \in 0 .. revision : Receive(a, r)
       \/ Lease(a) \/ Arm(a) \/ Post(a) \/ PostAgain(a) \/ Respond(a)
       \/ Confirm(a) \/ Abandon(a)
  \/ \E r \in underway : Serve(r)

-----------------------------------------------------------------------------
(* Properties *)

\* An input makes at most one change of the session, and one that is reported as
\* done made exactly one: the revision it is reported with is its own, right
\* after the one it was asked to change, however people edit, leases move,
\* frames post twice and requests overlap.
ConfirmedIsApplied ==
  /\ \A q, r \in DOMAIN author : author[q] = author[r] /\ author[q] # Free => q = r
  /\ \A c \in confirmed : author[c[2]] = c[1]
=============================================================================
