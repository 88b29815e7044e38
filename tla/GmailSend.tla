------------------------------ MODULE GmailSend ------------------------------
(***************************************************************************)
(* Sending mail with src/files/app/hermes/google_workspace_tool.py: calls  *)
(* that overlap, repeat an idempotency key or are killed, their ledger     *)
(* (the SQLite table sends), and Gmail.                                    *)
(*                                                                         *)
(* A content stands for everything the request hash covers, the bytes of   *)
(* the attachments as they were read included: the hash and the message    *)
(* are built from the same bytes, so a file that changes later changes     *)
(* neither.  A call that is refused before the ledger is reached           *)
(* (arguments, scope, attachments, thread subject) has no effect and is a  *)
(* call that is not made.                                                  *)
(***************************************************************************)
EXTENDS Naturals, FiniteSets

CONSTANTS
  Senders,    \* processes that run the tool
  Keys,       \* idempotency keys
  Contents,   \* message contents
  MaxSends,   \* bound on calls
  Nothing     \* no row, no message, no answer

VARIABLES
  sends,      \* sends[k]: the ledger's row of key k
  request,    \* request[s]: the key and content of the call of s
  phase,      \* phase[s]: where the call of s is
  answer,     \* answer[s]: what Gmail said to s
  inFlight,   \* requests that have reached neither Gmail nor their end
  mailbox,    \* the messages Gmail accepted
  suppressed, \* what callers were told of a message sent before (history)
  made        \* calls made so far

mailVars == <<sends, request, phase, answer, inFlight, mailbox, suppressed, made>>

Requests == [key : Keys, content : Contents]
Ids == Nat \ {0}
Messages == [key : Keys, content : Contents, id : Ids]
SendRows == [content : Contents, status : {"sending", "unknown", "sent"}, id : Ids \cup {Nothing}]

\* 401, another final 4xx, the ids of the accepted message, and everything that
\* does not tell: 403, 408, 429, 5xx, a timeout, an answer without both ids.
Refusals == {"unauthorized", "rejected"}
Answers == [says : Refusals \cup {"unclear", "accepted"}, id : Ids \cup {Nothing}]
Says(what) == [says |-> what, id |-> Nothing]
Names(id) == [says |-> "accepted", id |-> id]

MailTypeOK ==
  /\ sends \in [Keys -> SendRows \cup {Nothing}]
  /\ request \in [Senders -> Requests \cup {Nothing}]
  /\ phase \in [Senders -> {"idle", "ready", "reserved", "waiting", "answered"}]
  /\ answer \in [Senders -> Answers \cup {Nothing}]
  /\ inFlight \subseteq [key : Keys, content : Contents, sender : Senders]
  /\ mailbox \subseteq Messages
  /\ suppressed \subseteq Messages
  /\ made \in 0 .. MaxSends

MailInit ==
  /\ sends = [k \in Keys |-> Nothing]
  /\ request = [s \in Senders |-> Nothing]
  /\ phase = [s \in Senders |-> "idle"]
  /\ answer = [s \in Senders |-> Nothing]
  /\ inFlight = {}
  /\ mailbox = {}
  /\ suppressed = {}
  /\ made = 0

-----------------------------------------------------------------------------

Return(s) ==
  /\ phase' = [phase EXCEPT ![s] = "idle"]
  /\ request' = [request EXCEPT ![s] = Nothing]
  /\ answer' = [answer EXCEPT ![s] = Nothing]

\* The arguments are valid, the attachments read, the request hash computed and
\* the message built.
Compose(s, r) ==
  /\ phase[s] = "idle"
  /\ made < MaxSends
  /\ made' = made + 1
  /\ phase' = [phase EXCEPT ![s] = "ready"]
  /\ request' = [request EXCEPT ![s] = r]
  /\ UNCHANGED <<sends, answer, inFlight, mailbox, suppressed>>

\* _reserve_gmail_send, one immediate transaction.
Row(s) == sends[request[s].key]

\* A key that is not in the ledger is bound to this content.
ReserveNew(s) ==
  /\ phase[s] = "ready"
  /\ Row(s) = Nothing
  /\ sends' = [sends EXCEPT ![request[s].key] =
                 [content |-> request[s].content, status |-> "sending", id |-> Nothing]]
  /\ phase' = [phase EXCEPT ![s] = "reserved"]
  /\ UNCHANGED <<request, answer, inFlight, mailbox, suppressed, made>>

SentBefore(s) == Row(s).content = request[s].content /\ Row(s).status = "sent"

\* The same content was sent under this key: its message is named again.
SuppressDuplicate(s) ==
  /\ phase[s] = "ready"
  /\ Row(s) # Nothing
  /\ SentBefore(s)
  /\ suppressed' = suppressed \cup
       {[key |-> request[s].key, content |-> request[s].content, id |-> Row(s).id]}
  /\ Return(s)
  /\ UNCHANGED <<sends, inFlight, mailbox, made>>

\* The key is bound to other content, or its outcome is not known.
RefuseKey(s) ==
  /\ phase[s] = "ready"
  /\ Row(s) # Nothing
  /\ ~SentBefore(s)
  /\ Return(s)
  /\ UNCHANGED <<sends, inFlight, mailbox, suppressed, made>>

\* The request leaves, without any retry by the client library.
Post(s) ==
  /\ phase[s] = "reserved"
  /\ inFlight' = inFlight \cup
       {[key |-> request[s].key, content |-> request[s].content, sender |-> s]}
  /\ phase' = [phase EXCEPT ![s] = "waiting"]
  /\ UNCHANGED <<sends, request, answer, mailbox, suppressed, made>>

Awaits(r) ==
  /\ phase[r.sender] = "waiting"
  /\ request[r.sender] = [key |-> r.key, content |-> r.content]

\* The answer reaches a sender that still waits for it.
Answered(r, a) ==
  IF Awaits(r)
    THEN /\ answer' = [answer EXCEPT ![r.sender] = a]
         /\ phase' = [phase EXCEPT ![r.sender] = "answered"]
    ELSE UNCHANGED <<answer, phase>>

\* Gmail accepts the message, at any time after the request left.
Accept(r) ==
  LET id == Cardinality(mailbox) + 1
  IN  /\ mailbox' = mailbox \cup {[key |-> r.key, content |-> r.content, id |-> id]}
      /\ inFlight' = inFlight \ {r}
      /\ \E a \in {Names(id), Says("unclear")} : Answered(r, a)
      /\ UNCHANGED <<sends, request, suppressed, made>>

\* Gmail refuses the message, or it is lost on the way.
Refuse(r) ==
  /\ inFlight' = inFlight \ {r}
  /\ \E what \in Refusals \cup {"unclear"} : Answered(r, Says(what))
  /\ UNCHANGED <<sends, request, mailbox, suppressed, made>>

\* The sender gives up while its request is still on the way.
GiveUp(s) ==
  /\ phase[s] = "waiting"
  /\ answer' = [answer EXCEPT ![s] = Says("unclear")]
  /\ phase' = [phase EXCEPT ![s] = "answered"]
  /\ UNCHANGED <<sends, request, inFlight, mailbox, suppressed, made>>

\* Plausible bug: an unclear outcome is forgotten as a refusal is.
OutcomeForgotten(row, a) ==
  IF a.says = "accepted" THEN [row EXCEPT !.status = "sent", !.id = a.id] ELSE Nothing

\* What the ledger keeps of a call: nothing of a refused one, the message of an
\* accepted one, a doubt of any other.
Outcome(row, a) ==
  CASE a.says \in Refusals -> Nothing
    [] a.says = "unclear" -> [row EXCEPT !.status = "unknown"]
    [] a.says = "accepted" -> [row EXCEPT !.status = "sent", !.id = a.id]

\* _record_gmail_send and _forget_gmail_send
Record(s) ==
  /\ phase[s] = "answered"
  /\ sends' = [sends EXCEPT ![request[s].key] = Outcome(Row(s), answer[s])]
  /\ Return(s)
  /\ UNCHANGED <<inFlight, mailbox, suppressed, made>>

\* The process is killed; a request it sent goes on.
Kill(s) ==
  /\ phase[s] # "idle"
  /\ Return(s)
  /\ UNCHANGED <<sends, inFlight, mailbox, suppressed, made>>

MailNext ==
  \/ \E s \in Senders :
       \/ \E r \in Requests : Compose(s, r)
       \/ ReserveNew(s) \/ SuppressDuplicate(s) \/ RefuseKey(s)
       \/ Post(s) \/ GiveUp(s) \/ Record(s) \/ Kill(s)
  \/ \E r \in inFlight : Accept(r) \/ Refuse(r)

-----------------------------------------------------------------------------
(* Properties *)

\* Whatever is retried, killed or answered late, Gmail accepts at most one
\* message per idempotency key; and a caller that is told its message was sent
\* before is told of the one Gmail accepted, with the content it asked for.
OneMessagePerKey ==
  /\ \A m, n \in mailbox : m.key = n.key => m = n
  /\ suppressed \subseteq mailbox
=============================================================================
