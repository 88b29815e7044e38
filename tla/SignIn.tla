-------------------------------- MODULE SignIn --------------------------------
(***************************************************************************)
(* Signing in to the private Pattern Kit applications by way of GitLab:    *)
(* src/files/app/patternkit/oauth_proxy.py, one thread for every request,  *)
(* pending logins and sessions in memory.  Requests of one browser run in  *)
(* parallel and their answers arrive in any order; logins and sessions     *)
(* expire, the exchange with GitLab fails, the proxy restarts, and a       *)
(* person opens a link of one browser in another.                          *)
(*                                                                         *)
(* A browser is the person who uses it.  A login is its random state; the  *)
(* code GitLab gives is of the person and of the login's verifier.         *)
(* External: browsers, GitLab and the application behind.                  *)
(***************************************************************************)
EXTENDS Naturals, FiniteSets

CONSTANTS
  Browsers,     \* browsers, and the persons at them
  Paths,        \* pages asked for
  MaxLogins,    \* bound: states ever made
  MaxPending,   \* MAX_PENDING_STATES
  MaxFaults,    \* bound: expiries, restarts and links opened elsewhere
  Nobody        \* no cookie, no name

ASSUME SignInAssumption ==
  /\ Nobody \notin Browsers \cup Paths
  /\ MaxLogins \in Nat /\ MaxPending \in Nat /\ MaxFaults \in Nat

VARIABLES
  pending,      \* pending[s]: the login, while the proxy knows it
  sessions,     \* sessions[s]: the name of the session that login s led to
  late,         \* logins and sessions that have expired
  stateCookie,  \* stateCookie[b]: the login b's last answer named
  cookie,       \* cookie[b]: the session b presents
  redirects,    \* redirects to GitLab that are on their way
  links,        \* links back from GitLab: [state, name] the code is for
  exchanges,    \* callbacks that wait for GitLab
  logins,       \* logins made so far
  asked,        \* asked[s]: who asked for what in login s (history)
  streams,      \* [browser, name]: what is being forwarded
  landed,       \* [browser, path, state] after a sign-in (history)
  faults        \* expiries, restarts, links

signInVars == <<pending, sessions, late, stateCookie, cookie, redirects, links,
                exchanges, logins, asked, streams, landed, faults>>
proxy == <<pending, sessions, late>>
browser == <<stateCookie, cookie>>
gitlab == <<redirects, links>>
told == <<logins, asked>>

Logins == 1 .. MaxLogins
Gone == [path |-> Nobody]

SignInTypeOK ==
  /\ pending \in [Logins -> [path : Paths \cup {Nobody}]]
  /\ sessions \in [Logins -> Browsers \cup {Nobody}]
  /\ late \subseteq {"login", "session"} \X Logins
  /\ stateCookie \in [Browsers -> 0 .. MaxLogins] /\ cookie \in [Browsers -> 0 .. MaxLogins]
  /\ redirects \subseteq Browsers \X Logins
  /\ links \subseteq [state : Logins, name : Browsers]
  /\ exchanges \subseteq [browser : Browsers, state : Logins, name : Browsers, path : Paths]
  /\ logins \in 0 .. MaxLogins
  /\ asked \in [Logins -> [browser : Browsers, path : Paths] \cup {Gone}]
  /\ streams \subseteq [browser : Browsers, name : Browsers]
  /\ landed \subseteq [browser : Browsers, path : Paths, state : Logins]
  /\ faults \in 0 .. MaxFaults

SignInInit ==
  /\ pending = [s \in Logins |-> Gone] /\ sessions = [s \in Logins |-> Nobody]
  /\ late = {} /\ stateCookie = [b \in Browsers |-> 0] /\ cookie = [b \in Browsers |-> 0]
  /\ redirects = {} /\ links = {} /\ exchanges = {}
  /\ logins = 0 /\ asked = [s \in Logins |-> Gone]
  /\ streams = {} /\ landed = {} /\ faults = 0

\* _prune, at every identification and login.
Unexpired(s) == pending[s] # Gone /\ <<"login", s>> \notin late
Waiting == [s \in Logins |-> IF Unexpired(s) THEN pending[s] ELSE Gone]
Live(s) == sessions[s] # Nobody /\ <<"session", s>> \notin late
Pruned == [s \in Logins |-> IF Live(s) THEN sessions[s] ELSE Nobody]
Identity(b) == IF cookie[b] # 0 THEN Pruned[cookie[b]] ELSE Nobody

-----------------------------------------------------------------------------
(* A request: forwarded under its session's name, or sent to GitLab.        *)

Login(b, path) ==
  /\ logins < MaxLogins /\ logins' = logins + 1
  /\ Identity(b) = Nobody /\ Cardinality({s \in Logins : Unexpired(s)}) < MaxPending
  /\ pending' = [Waiting EXCEPT ![logins + 1] = [path |-> path]]
  /\ sessions' = Pruned
  /\ asked' = [asked EXCEPT ![logins + 1] = [browser |-> b, path |-> path]]
  /\ redirects' = redirects \cup {<<b, logins + 1>>}
  /\ UNCHANGED <<late, browser, links, exchanges, streams, landed, faults>>

\* 503: nothing but the pruning.
TooMany(b) ==
  /\ Identity(b) = Nobody /\ Cardinality({s \in Logins : Unexpired(s)}) >= MaxPending
  /\ pending' = Waiting /\ sessions' = Pruned
  /\ UNCHANGED <<late, browser, gitlab, exchanges, told, streams, landed, faults>>

\* A tunnel stays open whatever becomes of the session.
Forward(b) ==
  /\ Identity(b) # Nobody
  /\ streams' = streams \cup {[browser |-> b, name |-> Identity(b)]}
  /\ pending' = Waiting /\ sessions' = Pruned
  /\ UNCHANGED <<late, browser, gitlab, exchanges, told, landed, faults>>

StreamEnds ==
  /\ \E t \in streams : streams' = streams \ {t}
  /\ UNCHANGED <<proxy, browser, gitlab, exchanges, told, landed, faults>>

-----------------------------------------------------------------------------
(* The browser follows the redirect, and its person signs in.               *)

Follow ==
  /\ \E r \in redirects :
       /\ redirects' = redirects \ {r}
       /\ stateCookie' = [stateCookie EXCEPT ![r[1]] = r[2]]
       /\ links' = links \cup {[state |-> r[2], name |-> r[1]]}
  /\ UNCHANGED <<proxy, cookie, exchanges, told, streams, landed, faults>>

SameBrowserUnasked(b, s) == TRUE
SameBrowser(b, s) == stateCookie[b] = s

\* The login is taken out first, and is lost if the callback is refused.
Callback(b) ==
  /\ \E l \in links :
       /\ l.name # b => faults < MaxFaults
       /\ faults' = IF l.name # b THEN faults + 1 ELSE faults
       /\ links' = links \ {l}
       /\ pending' = [pending EXCEPT ![l.state] = Gone]
       /\ exchanges' = IF Unexpired(l.state) /\ SameBrowser(b, l.state)
                       THEN exchanges \cup {[browser |-> b, state |-> l.state,
                              name |-> l.name, path |-> pending[l.state].path]}
                       ELSE exchanges
  /\ UNCHANGED <<sessions, late, browser, redirects, told, streams, landed>>

\* GitLab has answered; the browser takes both cookies and the redirect.
SignedIn ==
  /\ \E x \in exchanges :
       /\ exchanges' = exchanges \ {x}
       /\ sessions' = [sessions EXCEPT ![x.state] = x.name]
       /\ cookie' = [cookie EXCEPT ![x.browser] = x.state]
       /\ stateCookie' = [stateCookie EXCEPT ![x.browser] = 0]
       /\ landed' = landed \cup {[browser |-> x.browser, path |-> x.path, state |-> x.state]}
  /\ UNCHANGED <<pending, late, gitlab, told, streams, faults>>

ExchangeFails ==
  /\ \E x \in exchanges : exchanges' = exchanges \ {x}
  /\ UNCHANGED <<proxy, browser, gitlab, told, streams, landed, faults>>

Logout(b) ==
  /\ cookie[b] # 0
  /\ sessions' = [sessions EXCEPT ![cookie[b]] = Nobody]
  /\ cookie' = [cookie EXCEPT ![b] = 0]
  /\ UNCHANGED <<pending, late, stateCookie, gitlab, exchanges, told, streams, landed, faults>>

Expire ==
  /\ faults < MaxFaults /\ faults' = faults + 1
  /\ \E s \in Logins :
       \/ Unexpired(s) /\ late' = late \cup {<<"login", s>>}
       \/ Live(s) /\ late' = late \cup {<<"session", s>>}
  /\ UNCHANGED <<pending, sessions, browser, gitlab, exchanges, told, streams, landed>>

Restart ==
  /\ faults < MaxFaults /\ faults' = faults + 1
  /\ pending' = [s \in Logins |-> Gone] /\ sessions' = [s \in Logins |-> Nobody]
  /\ exchanges' = {} /\ streams' = {}
  /\ UNCHANGED <<late, browser, gitlab, told, landed>>

SignInNext ==
  \/ \E b \in Browsers :
       \/ \E path \in Paths : Login(b, path)
       \/ TooMany(b) \/ Forward(b) \/ Callback(b) \/ Logout(b)
  \/ StreamEnds \/ Follow \/ SignedIn \/ ExchangeFails \/ Expire \/ Restart

SignInSpec == SignInInit /\ [][SignInNext]_signInVars

-----------------------------------------------------------------------------
(* Persons act under their own names: what is forwarded from a browser,     *)
(* also through a tunnel that outlives its session, and every session it    *)
(* presents, bear the name of the person at it; after signing in a browser  *)
(* lands where it asked to go in that very login; and no more logins are    *)
(* pending than allowed (oauth_proxy.py:112-198, 224-337).                  *)
SignedInAsThemselves ==
  /\ \A t \in streams : t.name = t.browser
  /\ \A b \in Browsers : cookie[b] # 0 => sessions[cookie[b]] \in {b, Nobody}
  /\ \A l \in landed : asked[l.state] = [browser |-> l.browser, path |-> l.path]
  /\ Cardinality({s \in Logins : pending[s] # Gone}) <= MaxPending
=============================================================================
