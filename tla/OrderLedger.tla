----------------------------- MODULE OrderLedger -----------------------------
(***************************************************************************)
(* One order of the retail order ledger of                                 *)
(* src/files/app/hermes/secure_browser_legacy_support.py: the agent's      *)
(* order tools and the refresh that a timer (or the agent) runs over it.   *)
(*                                                                         *)
(* Every function opens its own SQLite connection and reads in autocommit, *)
(* so a read and the write that follows it are two steps and another       *)
(* process may write between them.  Only Gmail is ever observed (Amazon    *)
(* and carrier pages are skipped).  Nicknames, facts, bindings and notes   *)
(* are left out; reading and listing change nothing.                       *)
(***************************************************************************)
EXTENDS Naturals

CONSTANTS
  Callers,     \* processes that use the ledger: the timer's unit, the agent
  Statuses,    \* order statuses in use
  Etas,        \* delivery windows
  MaxCalls,    \* bound on tool calls and refreshes
  Absent       \* no order, argument, window or event

VARIABLES
  order,       \* the row of shopping_orders, or Absent
  at,          \* at[p]: where p is inside a call
  args,        \* args[p]: the arguments p passes to the upsert
  found,       \* found[p]: the row p read last
  event,       \* event[p]: the notification p is about to send or record
  announced,   \* events a person has been told of (history)
  calls        \* calls made so far

ledgerVars == <<order, at, args, found, event, announced, calls>>

Closed == {"delivered", "cancelled", "closed", "archived"}
OnTheWay == {"shipped", "out_for_delivery"}
Events == {"initial_confirmation", "eta_changed", "status_changed",
           "out_for_delivery", "delivered"}

Rank == [pending_confirmation |-> 10, confirmed |-> 20, ordered |-> 25,
         processing |-> 30, shipped |-> 40, out_for_delivery |-> 50,
         delivered |-> 60, cancelled |-> 70, closed |-> 80, archived |-> 90]

\* marks are the keys last_notified_*; the two times are only ever tested for
\* being set, and aged says that updated_at is more than six hours old.
Rows == [status : Statuses, eta : Etas \cup {Absent}, marks : SUBSET Events,
         archived : BOOLEAN, delivered : BOOLEAN, closed : BOOLEAN, aged : BOOLEAN]
Args == [status : Statuses \cup {Absent}, eta : Etas \cup {Absent},
         archive : BOOLEAN \cup {Absent}]
NoArgs == [status |-> Absent, eta |-> Absent, archive |-> Absent]

LedgerTypeOK ==
  /\ order \in Rows \cup {Absent}
  /\ at \in [Callers -> {"idle", "planned", "observing", "preview", "upsert",
                          "write", "send", "mark", "marking"}]
  /\ args \in [Callers -> Args]
  /\ found \in [Callers -> Rows \cup {Absent}]
  /\ event \in [Callers -> Events \cup {Absent}]
  /\ announced \subseteq Events
  /\ calls \in 0 .. MaxCalls

LedgerInit ==
  /\ order = Absent
  /\ at = [p \in Callers |-> "idle"]
  /\ args = [p \in Callers |-> NoArgs]
  /\ found = [p \in Callers |-> Absent]
  /\ event = [p \in Callers |-> Absent]
  /\ announced = {}
  /\ calls = 0

-----------------------------------------------------------------------------
(* What the functions compute *)

Or(value, default) == IF value = Absent THEN default ELSE value

\* What is known of an order that is not there yet.
Fresh == [status |-> "confirmed", eta |-> Absent, marks |-> {}, archived |-> FALSE,
          delivered |-> FALSE, closed |-> FALSE, aged |-> FALSE]

\* Plausible bug: the closing time follows the row that was read.
ClosesLate(old, status) == old.closed \/ old.status \in Closed

\* The closing time is set by the first closed status and kept from then on.
Closes(old, status) == old.closed \/ status \in Closed

\* The row an upsert stores, from its arguments and the row it read.
Upserted(old, a) ==
  LET status == Or(a.status, old.status)
  IN  [status |-> status,
       eta |-> Or(a.eta, old.eta),
       marks |-> old.marks,
       archived |-> IF status \in Closed
                      THEN Or(a.archive, status \in {"closed", "archived"})
                      ELSE old.archived,
       delivered |-> old.delivered \/ status = "delivered",
       closed |-> Closes(old, status),
       aged |-> FALSE]

\* The event a stored row and new arguments call for: a new window, unless the
\* status changed as well and did not go back.
EventOf(old, a) ==
  LET newEta == a.eta # Absent /\ a.eta # old.eta
      newStatus == a.status # old.status /\ (~newEta \/ Rank[a.status] >= Rank[old.status])
  IN  CASE newStatus -> IF a.status \in {"delivered", "out_for_delivery"}
                          THEN a.status ELSE "status_changed"
        [] ~newStatus /\ newEta -> "eta_changed"
        [] OTHER -> Absent

\* An event is sent unless one of its kind was ever recorded.
Decision(old, a) == LET e == EventOf(old, a) IN IF e \in old.marks THEN Absent ELSE e

\* The statuses that mail about an order of this status may report.
Reported(status) ==
  ({"delivered", "out_for_delivery", "shipped", status} \cup
   (IF status \in OnTheWay THEN {} ELSE {"processing"})) \cap Statuses

\* The orders a refresh looks at.
Due(row) ==
  /\ ~row.archived
  /\ row.status \notin Closed
  /\ row.aged \/ row.status \in OnTheWay

-----------------------------------------------------------------------------
(* The steps of the functions *)

Go(p, place) == at' = [at EXCEPT ![p] = place]
Pass(p, a) == args' = [args EXCEPT ![p] = a]

Leave(p) ==
  /\ Go(p, "idle")
  /\ Pass(p, NoArgs)
  /\ found' = [found EXCEPT ![p] = Absent]
  /\ event' = [event EXCEPT ![p] = Absent]

Enter(p) == at[p] = "idle" /\ calls < MaxCalls /\ calls' = calls + 1

\* retail_order_upsert: any of status, window and archive may be left out.
CallUpsert(p, a) ==
  /\ Enter(p)
  /\ Go(p, "upsert")
  /\ Pass(p, a)
  /\ UNCHANGED <<order, found, event, announced>>

\* retail_order_close reads the order and upserts what it read with a new status.
CallClose(p, status, archive) ==
  /\ Enter(p)
  /\ order # Absent
  /\ Go(p, "upsert")
  /\ Pass(p, [status |-> status, eta |-> order.eta, archive |-> archive])
  /\ UNCHANGED <<order, found, event, announced>>

\* retail_order_mark_notified, by an agent that has told the person itself.
CallMark(p, e) ==
  /\ Enter(p)
  /\ Go(p, "mark")
  /\ event' = [event EXCEPT ![p] = e]
  /\ announced' = announced \cup {e}
  /\ UNCHANGED <<order, args, found>>

\* _refresh_plan lists the order as due; it is read again when its turn comes.
Plan(p) ==
  /\ Enter(p)
  /\ order # Absent
  /\ Due(order)
  /\ Go(p, "planned")
  /\ UNCHANGED <<order, args, found, event, announced>>

ReadPlanned(p) ==
  /\ at[p] = "planned"
  /\ Go(p, "observing")
  /\ found' = [found EXCEPT ![p] = order]
  /\ UNCHANGED <<order, args, event, announced, calls>>

\* Mail reports a status and a window, or neither is different from the row read.
Observe(p, status, eta) ==
  /\ at[p] = "observing"
  /\ status \in Reported(found[p].status)
  /\ Go(p, "preview")
  /\ Pass(p, [status |-> status, eta |-> Or(eta, found[p].eta), archive |-> Absent])
  /\ found' = [found EXCEPT ![p] = Absent]
  /\ UNCHANGED <<order, event, announced, calls>>

\* No mail matches, Gmail is unavailable, or the refresh is a dry run.
ObserveNothing(p) ==
  /\ at[p] = "observing"
  /\ Leave(p)
  /\ UNCHANGED <<order, announced, calls>>

Preview(p) ==
  /\ at[p] = "preview"
  /\ Go(p, "upsert")
  /\ event' = [event EXCEPT ![p] = Decision(order, args[p])]
  /\ UNCHANGED <<order, args, found, announced, calls>>

UpsertRead(p) ==
  /\ at[p] = "upsert"
  /\ Go(p, "write")
  /\ found' = [found EXCEPT ![p] = Or(order, Fresh)]
  /\ UNCHANGED <<order, args, event, announced, calls>>

UpsertWrite(p) ==
  /\ at[p] = "write"
  /\ order' = Upserted(found[p], args[p])
  /\ IF event[p] = Absent
       THEN Leave(p)
       ELSE /\ Go(p, "send")
            /\ Pass(p, NoArgs)
            /\ found' = [found EXCEPT ![p] = Absent]
            /\ UNCHANGED event
  /\ UNCHANGED <<announced, calls>>

\* Telegram accepted the message; only then is the event recorded.
SendAccepted(p) ==
  /\ at[p] = "send"
  /\ announced' = announced \cup {event[p]}
  /\ Go(p, "mark")
  /\ UNCHANGED <<order, args, found, event, calls>>

\* Plausible bug: the event is recorded although the message was not sent.
SendFailedMarked(p) ==
  /\ at[p] = "send"
  /\ Go(p, "mark")
  /\ UNCHANGED <<order, args, found, event, announced, calls>>

\* No token, no answer or a refusal: the call goes on without recording it.
SendFailed(p) ==
  /\ at[p] = "send"
  /\ Leave(p)
  /\ UNCHANGED <<order, announced, calls>>

MarkRead(p) ==
  /\ at[p] = "mark"
  /\ IF order = Absent
       THEN Leave(p)
       ELSE /\ Go(p, "marking")
            /\ found' = [found EXCEPT ![p] = order]
            /\ UNCHANGED <<args, event>>
  /\ UNCHANGED <<order, announced, calls>>

MarkWrite(p) ==
  /\ at[p] = "marking"
  /\ order' = [order EXCEPT !.marks = found[p].marks \cup {event[p]}, !.aged = FALSE]
  /\ Leave(p)
  /\ UNCHANGED <<announced, calls>>

\* The process is killed: what it wrote stays.
Die(p) ==
  /\ at[p] # "idle"
  /\ Leave(p)
  /\ UNCHANGED <<order, announced, calls>>

\* Six hours pass without a write.
Age ==
  /\ order # Absent
  /\ ~order.aged
  /\ order' = [order EXCEPT !.aged = TRUE]
  /\ UNCHANGED <<at, args, found, event, announced, calls>>

LedgerNext ==
  \/ \E p \in Callers :
       \/ \E a \in Args : CallUpsert(p, a)
       \/ \E s \in Statuses, b \in BOOLEAN : CallClose(p, s, b)
       \/ \E e \in Events : CallMark(p, e)
       \/ Plan(p) \/ ReadPlanned(p) \/ Preview(p)
       \/ \E s \in Statuses, e \in Etas \cup {Absent} : Observe(p, s, e)
       \/ ObserveNothing(p)
       \/ UpsertRead(p) \/ UpsertWrite(p)
       \/ SendAccepted(p) \/ SendFailed(p)
       \/ MarkRead(p) \/ MarkWrite(p)
       \/ Die(p)
  \/ Age

LedgerSpec == LedgerInit /\ [][LedgerNext]_ledgerVars

-----------------------------------------------------------------------------
(* Properties *)

\* However upserts, closings, refreshes and marks interleave and overwrite one
\* another, an order that is archived (and therefore never listed or refreshed
\* again) or has reached a closed status has the time it was closed, and a
\* delivered one the time it was delivered.
ClosingIsRecorded ==
  order # Absent =>
    /\ order.archived \/ order.status \in Closed \/ order.delivered => order.closed
    /\ order.status = "delivered" => order.delivered

\* An event the ledger will suppress from now on is one a person was told of,
\* although the message may fail, the process may die before or after it and
\* stale rows may be written back.
SuppressedWasAnnounced == order # Absent => order.marks \subseteq announced
=============================================================================
