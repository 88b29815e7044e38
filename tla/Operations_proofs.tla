-------------------------- MODULE Operations_proofs --------------------------
(***************************************************************************)
(* Proofs about what the operations of a host retain: signing in by way of *)
(* the proxy, the migration of the vectors, the evidence of the catalog,   *)
(* the digest of releases and the health of a host; and about the suite    *)
(* they form with the lifecycle; for all values of their constants.        *)
(***************************************************************************)
EXTENDS MCOperations, HostLifecycle_proofs, FiniteSetTheorems, SequenceTheorems, NaturalsInduction,
        WellFoundedInduction, TLAPS

(***************************************************************************)
(* Signing in.  All that a browser, GitLab or the proxy holds of a login   *)
(* is bound to who asked for it: the cookie with the state, which only the *)
(* asking browser has, binds the person of the code to that browser.       *)
(***************************************************************************)
AskedBy(s, b) == s \in 1 .. logins /\ asked[s].browser = b

Bound ==
  /\ \A s \in 1 .. logins : asked[s] \in [browser : Browsers, path : Paths]
  /\ \A r \in redirects : AskedBy(r[2], r[1])
  /\ \A b \in Browsers : stateCookie[b] # 0 => AskedBy(stateCookie[b], b)
  /\ \A b \in Browsers : cookie[b] # 0 => AskedBy(cookie[b], b)
  /\ \A l \in links : AskedBy(l.state, l.name)
  /\ \A x \in exchanges : AskedBy(x.state, x.browser) /\ x.name = x.browser
                          /\ asked[x.state].path = x.path
  /\ \A s \in Logins : pending[s] # Gone => s <= logins /\ pending[s].path = asked[s].path
  /\ \A s \in Logins : sessions[s] # Nobody => AskedBy(s, sessions[s])
  /\ \A l \in landed : l.state <= logins /\ asked[l.state] = [browser |-> l.browser, path |-> l.path]
  /\ \A t \in streams : t.name = t.browser

FewPending == Cardinality({s \in Logins : pending[s] # Gone}) <= MaxPending

\* The inductive invariant.
SignInInv == SignInTypeOK /\ Bound /\ FewPending

LEMMA SignInFacts ==
  /\ Nobody \notin Browsers /\ Nobody \notin Paths
  /\ 0 \notin Logins /\ Logins \subseteq Nat /\ Logins \subseteq 0 .. MaxLogins
BY SignInAssumption DEF Logins

\* Counting: what is pending is finite, and fewer are not more.
LEMMA PendingFinite ==
  ASSUME NEW S \in SUBSET Logins
  PROVE  IsFiniteSet(S) /\ Cardinality(S) \in Nat
<1>1. IsFiniteSet(Logins) BY SignInAssumption, FS_Interval DEF Logins
<1> QED BY <1>1, FS_Subset, FS_CardinalityType

LEMMA FewerPending ==
  ASSUME FewPending, \A s \in Logins : pending'[s] # Gone => pending[s] # Gone
  PROVE  FewPending'
<1> DEFINE S == {s \in Logins : pending[s] # Gone}
           T == {s \in Logins : pending'[s] # Gone}
<1>1. T \subseteq S OBVIOUS
<1>2. IsFiniteSet(S) /\ Cardinality(S) \in Nat BY PendingFinite
<1>3. Cardinality(T) <= Cardinality(S) BY <1>1, <1>2, FS_Subset
<1>4. Cardinality(T) \in Nat BY PendingFinite
<1> QED BY <1>2, <1>3, <1>4, SignInAssumption DEF FewPending

LEMMA OneMorePending ==
  ASSUME Cardinality({s \in Logins : Unexpired(s)}) < MaxPending, NEW n \in Logins,
         \A s \in Logins : pending'[s] # Gone => Unexpired(s) \/ s = n
  PROVE  FewPending'
<1> DEFINE S == {s \in Logins : Unexpired(s)}
           T == {s \in Logins : pending'[s] # Gone}
<1>1. IsFiniteSet(S) /\ Cardinality(S) \in Nat BY PendingFinite
<1>2. T \subseteq S \cup {n} OBVIOUS
<1>3. IsFiniteSet(S \cup {n}) /\ Cardinality(S \cup {n}) <= Cardinality(S) + 1
  BY <1>1, FS_AddElement
<1>4. Cardinality(T) <= Cardinality(S \cup {n}) BY <1>2, <1>3, FS_Subset
<1>5. Cardinality(T) \in Nat /\ Cardinality(S \cup {n}) \in Nat BY PendingFinite
<1> HIDE DEF S, T
<1>6. Cardinality(T) <= MaxPending
  <2>1. Cardinality(S) < MaxPending BY DEF S
  <2> QED BY <2>1, <1>1, <1>3, <1>4, <1>5, SignInAssumption
<1> QED BY <1>6 DEF FewPending, T

LEMMA SignInInitInv == SignInInit => SignInInv
<1> SUFFICES ASSUME SignInInit PROVE SignInInv OBVIOUS
<1>1. SignInTypeOK BY SignInAssumption DEF SignInInit, SignInTypeOK, Logins, Gone
<1>2. Bound BY DEF SignInInit, Bound
<1>3. FewPending
  <2>1. {s \in Logins : pending[s] # Gone} = {} BY DEF SignInInit
  <2> QED BY <2>1, FS_EmptySet, SignInAssumption DEF FewPending
<1> QED BY <1>1, <1>2, <1>3 DEF SignInInv

\* _prune only ever forgets.
LEMMA PruneFacts ==
  ASSUME SignInTypeOK
  PROVE  /\ Waiting \in [Logins -> [path : Paths \cup {Nobody}]]
         /\ \A s \in Logins : Waiting[s] # Gone => Waiting[s] = pending[s] /\ Unexpired(s)
         /\ Pruned \in [Logins -> Browsers \cup {Nobody}]
         /\ \A s \in Logins : Pruned[s] # Nobody => Pruned[s] = sessions[s]
BY DEF SignInTypeOK, Waiting, Pruned, Live, Unexpired, Gone

LEMMA IdentityFacts ==
  ASSUME SignInTypeOK, Bound, NEW b \in Browsers, Identity(b) # Nobody
  PROVE  Identity(b) = b
<1>1. cookie[b] \in Logins /\ AskedBy(cookie[b], b)
  BY SignInAssumption DEF Identity, SignInTypeOK, Bound, AskedBy, Logins
<1>2. sessions[cookie[b]] = Identity(b) /\ AskedBy(cookie[b], sessions[cookie[b]])
  BY <1>1, PruneFacts DEF Identity, Bound
<1> QED BY <1>1, <1>2 DEF AskedBy

LEMMA LoginInv ==
  ASSUME SignInInv, NEW b \in Browsers, NEW path \in Paths, Login(b, path)
  PROVE  SignInInv'
<1> USE SignInFacts DEF SignInInv
<1>0. PICK n \in Logins : n = logins + 1
  BY SignInAssumption DEF Login, SignInTypeOK, Logins
<1>1. n \in Logins /\ n \notin 1 .. logins /\ logins' = n /\ logins \in Nat
  BY <1>0, SignInAssumption DEF Login, SignInTypeOK, Logins
<1>2. /\ pending' = [Waiting EXCEPT ![n] = [path |-> path]]
      /\ sessions' = Pruned
      /\ asked' = [asked EXCEPT ![n] = [browser |-> b, path |-> path]]
      /\ redirects' = redirects \cup {<<b, n>>}
      /\ UNCHANGED <<late, stateCookie, cookie, links, exchanges, streams, landed, faults>>
  BY <1>0 DEF Login, browser
<1>3. SignInTypeOK'
  <2>1. pending' \in [Logins -> [path : Paths \cup {Nobody}]] BY <1>1, <1>2, PruneFacts
  <2>2. sessions' \in [Logins -> Browsers \cup {Nobody}] BY <1>2, PruneFacts
  <2>3. asked' \in [Logins -> [browser : Browsers, path : Paths] \cup {Gone}]
    BY <1>1, <1>2 DEF SignInTypeOK
  <2>4. logins' \in 0 .. MaxLogins BY <1>1
  <2>5. redirects' \subseteq Browsers \X Logins BY <1>1, <1>2 DEF SignInTypeOK
  <2> QED BY <1>2, <2>1, <2>2, <2>3, <2>4, <2>5 DEF SignInTypeOK
<1>4. /\ asked'[n] = [browser |-> b, path |-> path]
      /\ \A s \in 1 .. logins : s # n /\ s \in Logins /\ s \in 1 .. logins' /\ asked'[s] = asked[s]
      /\ n \in 1 .. logins'
      /\ \A s \in 1 .. logins' : s = n \/ s \in 1 .. logins
  BY <1>0, <1>1, <1>2, SignInAssumption DEF SignInTypeOK, Logins
<1>5. \A s, c : AskedBy(s, c) => AskedBy(s, c)' BY <1>4 DEF AskedBy
<1>6. AskedBy(n, b)' BY <1>4 DEF AskedBy
<1>7. Bound'
  <2>1. \A s \in 1 .. logins' : asked'[s] \in [browser : Browsers, path : Paths]
    BY <1>4 DEF Bound
  <2>2. \A r \in redirects' : AskedBy(r[2], r[1])' BY <1>2, <1>5, <1>6 DEF Bound
  <2>3. ASSUME NEW s \in Logins, pending'[s] # Gone
        PROVE  s <= logins' /\ pending'[s].path = asked'[s].path
    <3>1. CASE s = n
      <4>1. pending'[n] = [path |-> path] BY <1>1, <1>2, PruneFacts
      <4> QED BY <1>1, <1>4, <3>1, <4>1
    <3>2. CASE s # n
      <4>1. pending'[s] = pending[s] /\ pending[s] # Gone
        BY <1>2, <2>3, <3>2, PruneFacts DEF Waiting
      <4>2. s \in 1 .. logins BY <4>1 DEF Bound, Logins
      <4> QED BY <1>4, <4>1, <4>2 DEF Bound
    <3> QED BY <3>1, <3>2
  <2>4. ASSUME NEW s \in Logins, sessions'[s] # Nobody
        PROVE  s \in 1 .. logins' /\ asked'[s].browser = sessions'[s]
    <3>1. sessions'[s] = sessions[s] /\ AskedBy(s, sessions[s]) BY <1>2, <2>4, PruneFacts DEF Bound
    <3> QED BY <1>4, <3>1 DEF AskedBy
  <2>5. \A l \in landed' : l.state <= logins' /\ asked'[l.state] = [browser |-> l.browser, path |-> l.path]
    <3>1. ASSUME NEW l \in landed PROVE l.state \in 1 .. logins
      <4>1. l.state \in Logins BY DEF SignInTypeOK
      <4>2. l.state <= logins BY DEF Bound
      <4> QED BY <1>1, <4>1, <4>2 DEF Logins
    <3>2. \A l \in landed : asked'[l.state] = asked[l.state] /\ l.state <= logins'
      BY <1>4, <3>1
    <3> QED BY <1>2, <3>2 DEF Bound
  <2>6. \A x \in exchanges' : asked'[x.state].path = x.path
    BY <1>2, <1>4 DEF Bound, AskedBy
  <2>7. \A c \in Browsers : stateCookie'[c] # 0 => AskedBy(stateCookie[c], c)'
    BY <1>2, <1>5 DEF Bound
  <2>8. \A c \in Browsers : cookie'[c] # 0 => AskedBy(cookie[c], c)'
    BY <1>2, <1>5 DEF Bound
  <2>9. \A x \in exchanges' : AskedBy(x.state, x.browser)' /\ x.name = x.browser
    BY <1>2, <1>5 DEF Bound
  <2>10. \A l \in links' : AskedBy(l.state, l.name)' BY <1>2, <1>5 DEF Bound
  <2>11. \A t \in streams' : t.name = t.browser BY <1>2 DEF Bound
  <2> QED BY <2>1, <2>2, <2>3, <2>4, <2>5, <2>6, <2>7, <2>8, <2>9, <2>10, <2>11 DEF Bound, AskedBy
<1>8. FewPending'
  <2>1. Cardinality({s \in Logins : Unexpired(s)}) < MaxPending BY DEF Login
  <2>2. \A s \in Logins : pending'[s] # Gone => Unexpired(s) \/ s = n
    BY <1>1, <1>2, PruneFacts
  <2> QED BY <1>1, <2>1, <2>2, OneMorePending
<1> QED BY <1>3, <1>7, <1>8

\* Every other step asks for nothing new.
LEMMA OtherInv ==
  ASSUME SignInInv, NEW b \in Browsers,
         TooMany(b) \/ Forward(b) \/ Callback(b) \/ Logout(b)
  PROVE  SignInInv'
<1> USE SignInFacts DEF SignInInv
<1>0. UNCHANGED <<logins, asked>> BY DEF TooMany, Forward, Callback, Logout, told
<1>1. \A s, c : AskedBy(s, c)' <=> AskedBy(s, c) BY <1>0 DEF AskedBy
<1>2. CASE TooMany(b)
  <2>1. SignInTypeOK' BY <1>2, PruneFacts DEF TooMany, SignInTypeOK, browser, gitlab, told
  <2>2. Bound' BY <1>1, <1>2, PruneFacts DEF TooMany, Bound, browser, gitlab, told
  <2>3. \A s \in Logins : pending'[s] # Gone => pending[s] # Gone
    BY <1>2, PruneFacts DEF TooMany
  <2> QED BY <2>1, <2>2, <2>3, FewerPending
<1>3. CASE Forward(b)
  <2>1. SignInTypeOK'
    BY <1>3, PruneFacts, IdentityFacts DEF Forward, SignInTypeOK, browser, gitlab, told
  <2>2. Bound' BY <1>1, <1>3, PruneFacts, IdentityFacts DEF Forward, Bound, browser, gitlab, told
  <2>3. \A s \in Logins : pending'[s] # Gone => pending[s] # Gone
    BY <1>3, PruneFacts DEF Forward
  <2> QED BY <2>1, <2>2, <2>3, FewerPending
<1>4. CASE Callback(b)
  <2>1. PICK l \in links :
          /\ l.name # b => faults < MaxFaults
          /\ faults' = IF l.name # b THEN faults + 1 ELSE faults
          /\ links' = links \ {l}
          /\ pending' = [pending EXCEPT ![l.state] = Gone]
          /\ exchanges' = IF Unexpired(l.state) /\ SameBrowser(b, l.state)
                          THEN exchanges \cup {[browser |-> b, state |-> l.state,
                                 name |-> l.name, path |-> pending[l.state].path]}
                          ELSE exchanges
    BY <1>4 DEF Callback
  <2>2. UNCHANGED <<sessions, late, stateCookie, cookie, redirects, streams, landed>>
    BY <1>4 DEF Callback, browser
  <2>3. l.state \in Logins /\ l.name \in Browsers /\ AskedBy(l.state, l.name)
    BY DEF SignInTypeOK, Bound
  <2>4. \A s \in Logins : pending'[s] # Gone => pending'[s] = pending[s]
    BY <2>1, <2>3 DEF SignInTypeOK
  <2>5. ASSUME Unexpired(l.state), SameBrowser(b, l.state)
        PROVE  /\ l.name = b /\ pending[l.state].path \in Paths
               /\ asked[l.state].path = pending[l.state].path
    <3>1. AskedBy(l.state, b) BY <2>3, <2>5 DEF SameBrowser, Bound
    <3>2. pending[l.state] # Gone BY <2>5 DEF Unexpired
    <3>3. pending[l.state].path # Nobody BY <2>3, <3>2 DEF SignInTypeOK, Gone
    <3> QED BY <2>3, <3>1, <3>2, <3>3 DEF SignInTypeOK, Bound, AskedBy
  <2>6. \A x \in exchanges' : x \in exchanges \/
          (/\ x \in [browser : Browsers, state : Logins, name : Browsers, path : Paths]
           /\ x.browser = b /\ x.name = b /\ AskedBy(x.state, b) /\ asked[x.state].path = x.path)
    BY <2>1, <2>3, <2>5
  <2>7. SignInTypeOK'
    <3>1. pending' \in [Logins -> [path : Paths \cup {Nobody}]]
      BY <2>1, <2>3 DEF SignInTypeOK, Gone
    <3>2. faults' \in 0 .. MaxFaults BY <2>1, SignInAssumption DEF SignInTypeOK
    <3>3. exchanges' \subseteq [browser : Browsers, state : Logins, name : Browsers, path : Paths]
      BY <2>6 DEF SignInTypeOK
    <3>4. links' \subseteq [state : Logins, name : Browsers] BY <2>1 DEF SignInTypeOK
    <3> QED BY <1>0, <2>2, <3>1, <3>2, <3>3, <3>4 DEF SignInTypeOK
  <2>8. Bound'
    <3>1. \A x \in exchanges' : AskedBy(x.state, x.browser) /\ x.name = x.browser
                                 /\ asked[x.state].path = x.path
      BY <2>6 DEF Bound
    <3>2. \A k \in links' : AskedBy(k.state, k.name) BY <2>1 DEF Bound
    <3>3. \A s \in Logins : pending'[s] # Gone => s <= logins /\ pending'[s].path = asked[s].path
      BY <2>4 DEF Bound
    <3> QED BY <1>0, <1>1, <2>2, <3>1, <3>2, <3>3 DEF Bound
  <2>9. FewPending' BY <2>4, FewerPending
  <2> QED BY <2>7, <2>8, <2>9
<1>5. CASE Logout(b)
  <2>1. SignInTypeOK'
    <3>1. sessions' \in [Logins -> Browsers \cup {Nobody}] BY <1>5 DEF Logout, SignInTypeOK
    <3>2. cookie' \in [Browsers -> 0 .. MaxLogins]
      BY <1>5, SignInAssumption DEF Logout, SignInTypeOK
    <3> QED BY <1>0, <1>5, <3>1, <3>2 DEF Logout, SignInTypeOK, gitlab
  <2>2. Bound' BY <1>1, <1>5 DEF Logout, SignInTypeOK, Bound, gitlab, told
  <2>3. FewPending' BY <1>5, FewerPending DEF Logout
  <2> QED BY <2>1, <2>2, <2>3
<1> QED BY <1>2, <1>3, <1>4, <1>5

LEMMA AnswerInv ==
  ASSUME SignInInv,
         StreamEnds \/ Follow \/ SignedIn \/ ExchangeFails \/ Expire \/ Restart
  PROVE  SignInInv'
<1> USE SignInFacts DEF SignInInv
<1>0. UNCHANGED <<logins, asked>> BY DEF StreamEnds, Follow, SignedIn, ExchangeFails, Expire, Restart, told
<1>1. \A s, c : AskedBy(s, c)' <=> AskedBy(s, c) BY <1>0 DEF AskedBy
<1>2. CASE StreamEnds \/ ExchangeFails
  <2>1. /\ streams' \subseteq streams /\ exchanges' \subseteq exchanges
        /\ UNCHANGED <<pending, sessions, late, stateCookie, cookie, redirects, links, landed, faults>>
    BY <1>2 DEF StreamEnds, ExchangeFails, proxy, browser, gitlab
  <2>2. SignInTypeOK' BY <1>0, <2>1 DEF SignInTypeOK
  <2>3. Bound' BY <1>0, <1>1, <2>1 DEF Bound
  <2>4. FewPending' BY <2>1, FewerPending
  <2> QED BY <2>2, <2>3, <2>4
<1>3. CASE Follow
  <2>1. PICK r \in redirects :
          /\ redirects' = redirects \ {r}
          /\ stateCookie' = [stateCookie EXCEPT ![r[1]] = r[2]]
          /\ links' = links \cup {[state |-> r[2], name |-> r[1]]}
    BY <1>3 DEF Follow
  <2>2. UNCHANGED <<pending, sessions, late, cookie, exchanges, streams, landed, faults>>
    BY <1>3 DEF Follow, proxy
  <2>3. r[1] \in Browsers /\ r[2] \in Logins /\ AskedBy(r[2], r[1]) BY DEF SignInTypeOK, Bound
  <2>4. SignInTypeOK'
    <3>1. redirects' \subseteq Browsers \X Logins BY <2>1 DEF SignInTypeOK
    <3>2. stateCookie' \in [Browsers -> 0 .. MaxLogins] BY <2>1, <2>3 DEF SignInTypeOK
    <3>3. links' \subseteq [state : Logins, name : Browsers] BY <2>1, <2>3 DEF SignInTypeOK
    <3> QED BY <1>0, <2>2, <3>1, <3>2, <3>3 DEF SignInTypeOK
  <2>5. Bound' BY <1>0, <1>1, <2>1, <2>2, <2>3 DEF Bound, SignInTypeOK
  <2>6. FewPending' BY <2>2, FewerPending
  <2> QED BY <2>4, <2>5, <2>6
<1>4. CASE SignedIn
  <2>1. PICK x \in exchanges :
          /\ exchanges' = exchanges \ {x}
          /\ sessions' = [sessions EXCEPT ![x.state] = x.name]
          /\ cookie' = [cookie EXCEPT ![x.browser] = x.state]
          /\ stateCookie' = [stateCookie EXCEPT ![x.browser] = 0]
          /\ landed' = landed \cup {[browser |-> x.browser, path |-> x.path, state |-> x.state]}
    BY <1>4 DEF SignedIn
  <2>2. UNCHANGED <<pending, late, redirects, links, streams, faults>>
    BY <1>4 DEF SignedIn, gitlab
  <2>3. /\ x.state \in Logins /\ x.browser \in Browsers /\ x.name = x.browser /\ x.path \in Paths
        /\ AskedBy(x.state, x.browser) /\ asked[x.state].path = x.path
    BY DEF SignInTypeOK, Bound
  <2>4. asked[x.state] = [browser |-> x.browser, path |-> x.path] /\ x.state <= logins
    <3>1. asked[x.state] \in [browser : Browsers, path : Paths] BY <2>3 DEF Bound, AskedBy
    <3> QED BY <2>3, <3>1 DEF AskedBy, Logins
  <2>5. SignInTypeOK'
    <3>1. exchanges' \subseteq [browser : Browsers, state : Logins, name : Browsers, path : Paths]
      BY <2>1 DEF SignInTypeOK
    <3>2. sessions' \in [Logins -> Browsers \cup {Nobody}] BY <2>1, <2>3 DEF SignInTypeOK
    <3>3. cookie' \in [Browsers -> 0 .. MaxLogins] BY <2>1, <2>3 DEF SignInTypeOK
    <3>4. stateCookie' \in [Browsers -> 0 .. MaxLogins]
      BY <2>1, <2>3, SignInAssumption DEF SignInTypeOK
    <3>5. landed' \subseteq [browser : Browsers, path : Paths, state : Logins]
      BY <2>1, <2>3 DEF SignInTypeOK
    <3> QED BY <1>0, <2>2, <3>1, <3>2, <3>3, <3>4, <3>5 DEF SignInTypeOK
  <2>6. Bound'
    <3>1. \A s \in Logins : sessions'[s] # Nobody => AskedBy(s, sessions'[s])
      BY <2>1, <2>3 DEF Bound, SignInTypeOK
    <3>2. \A b \in Browsers : cookie'[b] # 0 => AskedBy(cookie'[b], b)
      BY <2>1, <2>3 DEF Bound, SignInTypeOK
    <3>3. \A b \in Browsers : stateCookie'[b] # 0 => AskedBy(stateCookie'[b], b)
      BY <2>1, <2>3 DEF Bound, SignInTypeOK
    <3>4. ASSUME NEW l \in landed'
          PROVE  l.state <= logins /\ asked[l.state] = [browser |-> l.browser, path |-> l.path]
      <4>1. CASE l \in landed BY <4>1 DEF Bound
      <4>2. CASE l = [browser |-> x.browser, path |-> x.path, state |-> x.state] BY <2>4, <4>2
      <4> QED BY <2>1, <4>1, <4>2
    <3> QED BY <1>0, <1>1, <2>1, <2>2, <3>1, <3>2, <3>3, <3>4 DEF Bound
  <2>7. FewPending' BY <2>2, FewerPending
  <2> QED BY <2>5, <2>6, <2>7
<1>5. CASE Expire
  <2>1. faults' \in 0 .. MaxFaults BY <1>5, SignInAssumption DEF Expire, SignInTypeOK
  <2>2. late' \subseteq {"login", "session"} \X Logins BY <1>5 DEF Expire, SignInTypeOK
  <2>3. UNCHANGED <<pending, sessions, stateCookie, cookie, redirects, links, exchanges, streams, landed>>
    BY <1>5 DEF Expire, browser, gitlab
  <2>4. SignInTypeOK' BY <1>0, <2>1, <2>2, <2>3 DEF SignInTypeOK
  <2>5. Bound' BY <1>0, <1>1, <2>3 DEF Bound
  <2>6. FewPending' BY <2>3, FewerPending
  <2> QED BY <2>4, <2>5, <2>6
<1>6. CASE Restart
  <2>1. /\ pending' = [s \in Logins |-> Gone] /\ sessions' = [s \in Logins |-> Nobody]
        /\ exchanges' = {} /\ streams' = {}
        /\ UNCHANGED <<late, stateCookie, cookie, redirects, links, landed>>
    BY <1>6 DEF Restart, browser, gitlab
  <2>2. faults' \in 0 .. MaxFaults BY <1>6, SignInAssumption DEF Restart, SignInTypeOK
  <2>3. SignInTypeOK' BY <1>0, <2>1, <2>2 DEF SignInTypeOK, Gone
  <2>4. Bound' BY <1>0, <1>1, <2>1 DEF Bound
  <2>5. FewPending' BY <2>1, FewerPending
  <2> QED BY <2>3, <2>4, <2>5
<1> QED BY <1>2, <1>3, <1>4, <1>5, <1>6

\* SignInInv is an invariant (oauth_proxy.py:112-198, 224-337).
THEOREM SignInInvariant == SignInSpec => []SignInInv
<1>1. SignInInv /\ [SignInNext]_signInVars => SignInInv'
  <2> SUFFICES ASSUME SignInInv, [SignInNext]_signInVars PROVE SignInInv' OBVIOUS
  <2>1. CASE UNCHANGED signInVars
    <3>1. SignInTypeOK' BY <2>1 DEF signInVars, SignInInv, SignInTypeOK
    <3>2. Bound' BY <2>1 DEF signInVars, SignInInv, Bound, AskedBy
    <3>3. FewPending' BY <2>1 DEF signInVars, SignInInv, FewPending
    <3> QED BY <3>1, <3>2, <3>3 DEF SignInInv
  <2> QED BY <2>1, LoginInv, OtherInv, AnswerInv DEF SignInNext
<1> QED BY <1>1, SignInInitInv, PTL DEF SignInSpec

\* Whoever signs in where, and whatever expires, fails or is opened elsewhere:
\* persons act under their own names, and land where they asked to go.
THEOREM SignInSafety == SignInSpec => []SignedInAsThemselves
<1>1. SignInInv => SignedInAsThemselves
  <2> SUFFICES ASSUME SignInInv PROVE SignedInAsThemselves OBVIOUS
  <2>1. ASSUME NEW b \in Browsers, cookie[b] # 0 PROVE sessions[cookie[b]] \in {b, Nobody}
    <3>1. AskedBy(cookie[b], b) /\ cookie[b] \in Logins
      BY <2>1, SignInAssumption DEF SignInInv, SignInTypeOK, Bound, AskedBy, Logins
    <3> QED BY <3>1 DEF SignInInv, Bound, AskedBy
  <2> QED BY <2>1 DEF SignInInv, Bound, FewPending, SignedInAsThemselves
<1> QED BY <1>1, SignInInvariant, PTL

-----------------------------------------------------------------------------
(***************************************************************************)
(* The migration.  A message is fetched only while no vector of it is      *)
(* stored, and what is fetched is stored or lost before anything else is   *)
(* fetched; so each message has at most one row.                           *)
(***************************************************************************)
StageMeans ==
  /\ stage \notin {"documents", "messages"} => batch = {}
  /\ stage = "documents" => batch \subseteq Documented
  /\ stage = "messages" => \A m \in batch : m \in Said /\ rows[m] = 0
  /\ stage \in {"verify", "success"} => indexed
  /\ stage = "success" => Verified
  /\ \A m \in Said : rows[m] \in {0, 1}

\* The inductive invariant.
MigrationInv == MigrationTypeOK /\ StageMeans

LEMMA FirstFacts ==
  ASSUME NEW s, NEW lacking PROVE First(s, lacking) \subseteq lacking
BY DEF First

LEMMA MigrationInitInv == MigrationInit => MigrationInv
<1> SUFFICES ASSUME MigrationInit PROVE MigrationInv OBVIOUS
<1>1. rows \in [Said -> {0, 1}] BY DEF MigrationInit
<1>2. MigrationTypeOK BY <1>1, MigrationAssumption DEF MigrationInit, MigrationTypeOK
<1>3. StageMeans BY <1>1 DEF MigrationInit, StageMeans
<1> QED BY <1>2, <1>3 DEF MigrationInv

LEMMA MigrationStep == MigrationInv /\ [MigrationNext]_migrationVars => MigrationInv'
<1> SUFFICES ASSUME MigrationInv, [MigrationNext]_migrationVars PROVE MigrationInv' OBVIOUS
<1> USE DEF MigrationInv
<1>1. CASE Launch
  <2>1. launches' \in 0 .. MaxLaunches BY <1>1, MigrationAssumption DEF Launch, MigrationTypeOK
  <2>2. MigrationTypeOK' BY <1>1, <2>1 DEF Launch, MigrationTypeOK, database
  <2>3. StageMeans' BY <1>1 DEF Launch, StageMeans, database
  <2> QED BY <2>2, <2>3
<1>2. CASE Reset
  <2>1. rows' \in [Said -> Nat] /\ \A m \in Said : rows'[m] \in {0, 1}
    BY <1>2 DEF Reset, MigrationTypeOK, StageMeans, database
  <2>2. MigrationTypeOK' BY <1>2, <2>1 DEF Reset, MigrationTypeOK, database
  <2>3. StageMeans' BY <1>2, <2>1 DEF Reset, StageMeans, database
  <2> QED BY <2>2, <2>3
<1>3. CASE FetchDocuments
  <2>1. batch' \subseteq Documented BY <1>3, FirstFacts DEF FetchDocuments
  <2>2. MigrationTypeOK' BY <1>3, <2>1 DEF FetchDocuments, MigrationTypeOK, database
  <2>3. StageMeans' BY <1>3, <2>1 DEF FetchDocuments, StageMeans, database
  <2> QED BY <2>2, <2>3
<1>4. CASE CommitDocuments
  <2>1. MigrationTypeOK' BY <1>4 DEF CommitDocuments, MigrationTypeOK, StageMeans
  <2>2. StageMeans' BY <1>4 DEF CommitDocuments, StageMeans
  <2> QED BY <2>1, <2>2
<1>5. CASE FetchMessages
  <2>1. \A m \in batch' : m \in Said /\ rows[m] = 0
    BY <1>5, FirstFacts DEF FetchMessages, LackingMessage
  <2>2. MigrationTypeOK' BY <1>5, <2>1 DEF FetchMessages, MigrationTypeOK, database
  <2>3. StageMeans' BY <1>5, <2>1 DEF FetchMessages, StageMeans, database
  <2> QED BY <2>2, <2>3
<1>6. CASE CommitMessages
  <2>1. rows' \in [Said -> Nat] /\ \A m \in Said : rows'[m] \in {0, 1}
    <3>1. ASSUME NEW m \in Said PROVE rows'[m] \in {0, 1}
      BY <1>6 DEF CommitMessages, StageMeans
    <3>2. rows' = [m \in Said |-> rows'[m]] BY <1>6 DEF CommitMessages
    <3> QED BY <3>1, <3>2
  <2>2. MigrationTypeOK' BY <1>6, <2>1 DEF CommitMessages, MigrationTypeOK
  <2>3. StageMeans' BY <1>6, <2>1 DEF CommitMessages, StageMeans
  <2> QED BY <2>2, <2>3
<1>7. CASE CreateIndexes
  BY <1>7 DEF CreateIndexes, MigrationTypeOK, StageMeans
<1>8. CASE Verify
  <2>1. Verified' BY <1>8 DEF Verify, database, Verified, Populated, LackingDocument, LackingMessage
  <2> QED BY <1>8, <2>1 DEF Verify, database, MigrationTypeOK, StageMeans
<1>9. CASE Die
  BY <1>9 DEF Die, database, MigrationTypeOK, StageMeans
<1>10. CASE UNCHANGED migrationVars
  BY <1>10 DEF migrationVars, database, MigrationTypeOK, StageMeans, Verified, Populated,
               LackingDocument, LackingMessage
<1> QED BY <1>1, <1>2, <1>3, <1>4, <1>5, <1>6, <1>7, <1>8, <1>9, <1>10 DEF MigrationNext

\* MigrationInv is an invariant (honcho-local-embedding-migration.py:150-420).
THEOREM MigrationInvariant == MigrationSpec => []MigrationInv
BY MigrationInitInv, MigrationStep, PTL DEF MigrationSpec

\* However often the script dies and whatever it skips: a success leaves every
\* text with one vector of the new dimension, indexed; and no message ever has two.
THEOREM MigrationSafety == MigrationSpec => []MigrationIsWhole
<1>1. MigrationInv => MigrationIsWhole
  <2> SUFFICES ASSUME MigrationInv PROVE MigrationIsWhole OBVIOUS
  <2>1. \A m \in Said : rows[m] <= 1 BY DEF MigrationInv, StageMeans
  <2>2. ASSUME stage = "success"
        PROVE  /\ dimension = "new" /\ indexed
               /\ \A d \in Documented : content[d] = "text" => d \in vectored
               /\ \A m \in Said : content[m] = "text" => rows[m] = 1
    BY <2>2 DEF MigrationInv, StageMeans, Verified, Populated, LackingDocument, LackingMessage
  <2> QED BY <2>1, <2>2 DEF MigrationIsWhole
<1> QED BY <1>1, MigrationInvariant, PTL

-----------------------------------------------------------------------------
(***************************************************************************)
(* The evidence of the catalog.  The repeat is bound only when its run     *)
(* left the host in the version of the release, and nothing of ours runs   *)
(* after it.                                                               *)
(***************************************************************************)
Bindings ==
  /\ invocation \in Invocations => ~ outcomes["repeat"].bound
  /\ locked = "ours" => invocation \in Invocations
  /\ verdict # "none" => invocation = "done"
  /\ outcomes["repeat"].bound => whole
  /\ PassWasConverged

\* The inductive invariant.
CatalogInv == CatalogTypeOK /\ Bindings

LEMMA CatalogStep == CatalogInv /\ [CatalogNext]_catalogVars => CatalogInv'
<1> SUFFICES ASSUME CatalogInv, [CatalogNext]_catalogVars PROVE CatalogInv' OBVIOUS
<1> USE CatalogAssumption DEF CatalogInv, Versions, Invocations, Expected, Partial
<1>1. CASE Invoke
  BY <1>1 DEF Invoke, Lock, CatalogTypeOK, Bindings, PassWasConverged
<1>2. CASE Complete
  <2>1. PICK exit \in {1, 4, IF applied = compiled THEN 0 ELSE 2} :
          \E bound \in {FALSE, BindReport(exit, compiled)} :
            /\ outcomes' = [outcomes EXCEPT ![invocation] =
                              [exit |-> exit, version |-> compiled, bound |-> bound]]
            /\ invocation' = After(invocation, bound)
            /\ applied' = CASE exit = 1 -> applied [] exit = 4 -> Partial
                            [] OTHER -> compiled
    BY <1>2 DEF Complete
  <2>0. PICK bound \in {FALSE, BindReport(exit, compiled)} :
          /\ outcomes' = [outcomes EXCEPT ![invocation] =
                            [exit |-> exit, version |-> compiled, bound |-> bound]]
          /\ invocation' = After(invocation, bound)
          /\ applied' = CASE exit = 1 -> applied [] exit = 4 -> Partial
                          [] OTHER -> compiled
    BY <2>1
  <2>2. /\ locked = "ours" /\ locked' = "nobody" /\ compiled' = 0
        /\ whole' = (applied' = Expected) /\ UNCHANGED <<served, others, verdict>>
    BY <1>2 DEF Complete
  <2>3. invocation \in Invocations /\ verdict = "none" BY <2>2 DEF Bindings, CatalogTypeOK
  <2>4. exit \in {0, 1, 2, 4} /\ bound \in BOOLEAN /\ (bound => exit \in {0, 2} /\ compiled = Expected)
    BY <2>0 DEF BindReport
  <2>5. [exit |-> exit, version |-> compiled, bound |-> bound] \in CatalogOutcomes
    BY <2>4 DEF CatalogOutcomes, CatalogTypeOK
  <2>6. outcomes' \in [Invocations -> CatalogOutcomes]
    BY <2>0, <2>3, <2>5, Zenon DEF CatalogTypeOK
  <2>7. applied' \in Versions /\ (bound => applied' = Expected)
    BY <2>0, <2>4 DEF CatalogTypeOK
  <2>8. invocation' \in Invocations \cup {"done"}
    BY <2>0, <2>3 DEF After
  <2>9. CatalogTypeOK'
    <3>1. compiled' \in Versions BY <2>2
    <3>2. whole' \in BOOLEAN BY <2>2
    <3> QED BY <2>2, <2>6, <2>7, <2>8, <3>1, <3>2 DEF CatalogTypeOK
  <2>10. CASE invocation = "main"
    <3>1. outcomes'["repeat"] = outcomes["repeat"] BY <2>0, <2>10 DEF CatalogTypeOK
    <3>2. ~ outcomes'["repeat"].bound BY <2>10, <3>1 DEF Bindings
    <3> QED BY <2>2, <2>3, <2>9, <3>2 DEF Bindings, PassWasConverged
  <2>11. CASE invocation = "repeat"
    <3>1. outcomes'["repeat"].bound = bound BY <2>0, <2>11 DEF CatalogTypeOK
    <3>2. invocation' = "done" BY <2>0, <2>11 DEF After
    <3>3. bound => whole' BY <2>2, <2>7
    <3> QED BY <2>2, <2>3, <2>9, <3>1, <3>2, <3>3 DEF Bindings, PassWasConverged
  <2> QED BY <2>3, <2>10, <2>11
<1>3. CASE RetainCatalog
  BY <1>3 DEF RetainCatalog, Converged, CatalogTypeOK, Bindings, PassWasConverged
<1>4. CASE Deploy \/ RollBack \/ OtherRuns \/ OtherEnds \/ Drift
  <2>1. /\ UNCHANGED <<invocation, outcomes, verdict, whole>>
        /\ locked' \in {locked, "nobody", "other"}
    BY <1>4 DEF Deploy, RollBack, OtherRuns, OtherEnds, Drift, Lock
  <2>2. Bindings' BY <2>1 DEF Bindings, PassWasConverged
  <2>3. served' \in Versions \ {0} /\ applied' \in Versions /\ compiled' \in Versions
        /\ others' \in 0 .. MaxOthers
    BY <1>4 DEF Deploy, RollBack, OtherRuns, OtherEnds, Drift, Lock, CatalogTypeOK
  <2>4. CatalogTypeOK' BY <2>1, <2>3 DEF CatalogTypeOK
  <2> QED BY <2>2, <2>4
<1>5. CASE UNCHANGED catalogVars
  BY <1>5 DEF catalogVars, CatalogTypeOK, Bindings, PassWasConverged
<1> QED BY <1>1, <1>2, <1>3, <1>4, <1>5 DEF CatalogNext

\* CatalogInv is an invariant (update_catalog_apply.rb:24-95).
THEOREM CatalogInvariant == CatalogSpec => []CatalogInv
<1>1. CatalogInit => CatalogInv
  <2> SUFFICES ASSUME CatalogInit PROVE CatalogInv OBVIOUS
  <2>1. NotAttempted \in CatalogOutcomes /\ ~ NotAttempted.bound
    BY CatalogAssumption DEF NotAttempted, CatalogOutcomes, Versions
  <2>2. outcomes \in [Invocations -> CatalogOutcomes] /\ ~ outcomes["repeat"].bound
    BY <2>1 DEF CatalogInit, Invocations
  <2>3. served \in Versions \ {0} /\ applied \in Versions /\ compiled \in Versions
        /\ others \in 0 .. MaxOthers
    BY CatalogAssumption DEF CatalogInit, Versions, Expected, Partial
  <2>4. CatalogTypeOK BY <2>2, <2>3 DEF CatalogInit, CatalogTypeOK, Invocations
  <2>5. Bindings BY <2>2 DEF CatalogInit, Bindings, PassWasConverged
  <2> QED BY <2>4, <2>5 DEF CatalogInv
<1> QED BY <1>1, CatalogStep, PTL DEF CatalogSpec

\* Whatever the server serves, others apply and the host drifts to between the
\* two runs: a retained pass means that the host was in the release's version.
THEOREM CatalogSafety == CatalogSpec => []PassWasConverged
BY CatalogInvariant, PTL DEF CatalogInv, Bindings

-----------------------------------------------------------------------------
(***************************************************************************)
(* The digest.  A digest gets onto the disk only from a run that has it in *)
(* its buffer, and leaves a buffer only for what was delivered or lost.    *)
(***************************************************************************)
Told == delivered \cup lost \cup {buffer[r] : r \in Runners}

Records ==
  /\ \A r \in Runners : runAt[r] \in {"idle", "watch", "load", "decide"} => buffer[r] = Silent
  /\ \A r \in Runners : noted[r] \in Told \cup {Silent}
  /\ \A i \in Inodes : disk[i] \in Told \cup {Silent, Cut}
  /\ silenced \subseteq Told \ {Silent}

Places == {"idle", "watch", "load", "decide", "open", "write", "replace", "exit"}
Drifts == Components \X (1 .. 2) \X (2 .. 3)

\* The types, one function for each variable.
DigestShape ==
  /\ pin \in [Components -> 0 .. 2]
  /\ offered \in [Components -> SUBSET (Releases \cup {Oldest})]
  /\ runAt \in [Runners -> Places]
  /\ watched \in [Runners -> 0 .. 5]
  /\ \A r \in Runners : runAt[r] = "watch" => watched[r] < 5
  /\ \A r \in Runners : runAt[r] = "idle" => watched[r] = 0
  /\ items \in [Runners -> SUBSET Drifts] /\ errors \in [Runners -> SUBSET Stacks]
  /\ noted \in [Runners -> Digests] /\ buffer \in [Runners -> Digests]
  /\ options \in [Runners -> [force : BOOLEAN, dry : BOOLEAN]]
  /\ disk \in [Inodes -> Digests \cup {Cut}]
  /\ stateFile \in {0} \cup Inodes /\ tmpFile \in {0} \cup Inodes
  /\ opened \in [Runners -> {0} \cup Inodes]
  /\ \A r \in Runners : runAt[r] = "write" => opened[r] \in Inodes
  /\ delivered \subseteq Digests /\ lost \subseteq Digests /\ silenced \subseteq Digests
  /\ digests \in 0 .. MaxRuns /\ moves \in 0 .. MaxUpstream

\* The inductive invariant.
DigestInv == DigestShape /\ Records

LEMMA ComponentFacts ==
  /\ Stacks = 1 .. 5 /\ Len(WATCHERS) = 5
  /\ \A s \in Stacks : WATCHERS[s] \subseteq Components
  /\ Components = {"agent", "gitlab", "vaultwarden", "redis", "calico", "ceph"}
<1>1. Stacks = 1 .. 5 /\ Len(WATCHERS) = 5 BY DEF Stacks, WATCHERS
<1>2. \A s \in Stacks : WATCHERS[s] \subseteq Components BY DEF Stacks, Components
<1>3. Components = {"agent", "gitlab", "vaultwarden", "redis", "calico", "ceph"}
  <2>1. Components = WATCHERS[1] \cup WATCHERS[2] \cup WATCHERS[3] \cup WATCHERS[4] \cup WATCHERS[5]
    BY <1>1 DEF Components, Stacks
  <2> QED BY <2>1 DEF WATCHERS
<1> QED BY <1>1, <1>2, <1>3

LEMMA DigestFacts ==
  /\ Silent \in Digests
  /\ \A i \in SUBSET Drifts, e \in SUBSET Stacks : [items |-> i, errors |-> e] \in Digests
BY DEF Silent, Digests, Drifts

\* What is behind is in the types: a latest release is there to be chosen.
LEMMA BehindFacts ==
  ASSUME DigestShape, NEW s \in Stacks, Watchable(s)
  PROVE  Behind(s) \subseteq Drifts
<1> SUFFICES ASSUME NEW c \in WATCHERS[s], Latest(c) > pin[c]
             PROVE  <<c, pin[c], Latest(c)>> \in Drifts
  BY DEF Behind
<1>1. c \in Components BY ComponentFacts
<1>2. pin[c] \in 1 .. 2 /\ Counted[c] # {}
  BY <1>1 DEF DigestShape, Watchable, Unknown
<1>3. Counted[c] \subseteq Releases \cup {Oldest}
  <2>1. \A d \in Components : offered[d] \subseteq Releases \cup {Oldest} BY DEF DigestShape
  <2>2. \A d \in Components : Stable(d) \subseteq Releases \cup {Oldest} BY <2>1 DEF Stable
  <2> QED BY <1>1, <2>1, <2>2, ComponentFacts
       DEF Counted, AgentReleases, FeedVersions, HelmRows, RedisTags, ChartRows, CephTags
<1>4. \A t \in Counted[c] : t.version \in 1 .. 3
  BY <1>3 DEF Releases, Oldest, Second, Preview
<1> DEFINE V == {t.version : t \in Counted[c]}
<1>5. V \subseteq 1 .. 3 /\ V # {} BY <1>2, <1>4
<1>6. \E v \in V : \A w \in V : w <= v
  <2> HIDE DEF V
  <2>1. CASE 3 \in V BY <1>5, <2>1
  <2>2. CASE 3 \notin V /\ 2 \in V BY <1>5, <2>2
  <2>3. CASE 3 \notin V /\ 2 \notin V
    <3>1. \A v \in V : v = 1 BY <1>5, <2>3
    <3>2. PICK v \in V : TRUE BY <1>5
    <3> QED BY <3>1, <3>2
  <2> QED BY <2>1, <2>2, <2>3
<1>7. \E v \in V : \A t \in Counted[c] : t.version <= v BY <1>6
<1>8. Latest(c) \in V BY <1>7 DEF Latest
<1> QED BY <1>1, <1>2, <1>5, <1>8 DEF Drifts

LEMMA DigestInitInv == DigestInit => DigestInv
<1> SUFFICES ASSUME DigestInit PROVE DigestInv OBVIOUS
<1>1. options \in [Runners -> [force : BOOLEAN, dry : BOOLEAN]] BY Zenon DEF DigestInit
<1>2. offered \in [Components -> SUBSET (Releases \cup {Oldest})]
  BY DEF DigestInit, Releases, Second, Preview
<1>3. watched \in [Runners -> 0 .. 5] /\ \A r \in Runners : runAt[r] = "idle" /\ watched[r] = 0
  BY DEF DigestInit
<1>4. DigestShape
  BY DigestAssumption, <1>1, <1>2, <1>3, DigestFacts DEF DigestInit, DigestShape, Places
<1>5. Records BY DEF DigestInit, Records
<1> QED BY <1>4, <1>5 DEF DigestInv

LEMMA RunInv ==
  ASSUME DigestInv, NEW r \in Runners, Run(r) \/ Watch(r) PROVE DigestInv'
<1> USE DEF DigestInv
<1>1. CASE Run(r)
  <2>1. /\ runAt' = [runAt EXCEPT ![r] = "watch"] /\ digests' = digests + 1 /\ digests < MaxRuns
        /\ UNCHANGED <<pin, offered, watched, items, errors, noted, buffer, disk, stateFile, tmpFile,
                       opened, delivered, lost, silenced, moves>>
    BY <1>1 DEF Run, To, world, found, files, memory
  <2>2. options' \in [Runners -> [force : BOOLEAN, dry : BOOLEAN]]
    <3>1. PICK o \in {[force |-> FALSE, dry |-> FALSE], [force |-> TRUE, dry |-> TRUE]} :
            options' = [options EXCEPT ![r] = o]
      BY <1>1 DEF Run
    <3>2. /\ [force |-> FALSE, dry |-> FALSE] \in [force : BOOLEAN, dry : BOOLEAN]
          /\ [force |-> TRUE, dry |-> TRUE] \in [force : BOOLEAN, dry : BOOLEAN]
      BY Zenon
    <3>3. o \in [force : BOOLEAN, dry : BOOLEAN] BY <3>2, Zenon
    <3> QED BY <3>1, <3>3, Zenon DEF DigestShape
  <2>3. runAt' \in [Runners -> Places] BY <2>1 DEF DigestShape, Places
  <2>4. digests' \in 0 .. MaxRuns BY <2>1, DigestAssumption DEF DigestShape
  <2>5. Records'
    <3>1. Told' = Told BY <2>1 DEF Told
    <3>2. \A q \in Runners : runAt'[q] \in {"idle", "watch", "load", "decide"} => buffer'[q] = Silent
      BY <1>1, <2>1 DEF Run, Records, DigestShape
    <3> QED BY <2>1, <3>1, <3>2 DEF Records
  <2>6. \A q \in Runners : /\ runAt'[q] = "watch" => watched'[q] < 5
                           /\ runAt'[q] = "idle" => watched'[q] = 0
    BY <1>1, <2>1 DEF Run, DigestShape
  <2> QED BY <2>1, <2>2, <2>3, <2>4, <2>5, <2>6 DEF DigestShape
<1>2. CASE Watch(r)
  <2>1. /\ runAt[r] = "watch" /\ runAt' = [runAt EXCEPT ![r] = IF watched[r] + 1 = 5 THEN "load" ELSE "watch"]
        /\ watched' = [watched EXCEPT ![r] = @ + 1]
        /\ UNCHANGED <<pin, offered, options, noted, buffer, disk, stateFile, tmpFile,
                       opened, delivered, lost, silenced, digests>>
    BY <1>2, ComponentFacts DEF Watch, To, world, files, memory
  <2>2. watched[r] \in 0 .. 4 /\ watched[r] + 1 \in Stacks
    BY <2>1, ComponentFacts DEF DigestShape
  <2>3. PICK new \in SUBSET Drifts, s \in Stacks :
          \/ items' = [items EXCEPT ![r] = @ \cup new] /\ UNCHANGED <<errors, moves>>
          \/ /\ errors' = [errors EXCEPT ![r] = @ \cup {s}] /\ UNCHANGED items
             /\ moves' \in {moves, moves + 1} /\ moves' <= MaxUpstream
    <3>1. \/ /\ items' = [items EXCEPT ![r] = @ \cup Behind(watched[r] + 1)]
             /\ Watchable(watched[r] + 1) /\ UNCHANGED <<errors, moves>>
          \/ /\ errors' = [errors EXCEPT ![r] = @ \cup {watched[r] + 1}]
             /\ moves' \in {moves, moves + 1} /\ moves' <= MaxUpstream /\ UNCHANGED items
      BY <1>2 DEF Watch
    <3>2. Watchable(watched[r] + 1) => Behind(watched[r] + 1) \in SUBSET Drifts
      BY <2>2, BehindFacts
    <3> QED BY <2>2, <3>1, <3>2
  <2>4. items' \in [Runners -> SUBSET Drifts] /\ errors' \in [Runners -> SUBSET Stacks]
    <3>1. CASE items' = [items EXCEPT ![r] = @ \cup new] /\ UNCHANGED <<errors, moves>>
      BY <3>1 DEF DigestShape
    <3>2. CASE errors' = [errors EXCEPT ![r] = @ \cup {s}] /\ UNCHANGED items
      BY <3>2 DEF DigestShape
    <3> QED BY <2>3, <3>1, <3>2
  <2>5. moves' \in 0 .. MaxUpstream BY <2>3, DigestAssumption DEF DigestShape
  <2>6. runAt' \in [Runners -> Places] BY <2>1 DEF DigestShape, Places
  <2>7. watched' \in [Runners -> 0 .. 5] BY <2>1, <2>2 DEF DigestShape
  <2>8. \A q \in Runners : /\ runAt'[q] = "watch" => watched'[q] < 5
                           /\ runAt'[q] = "idle" => watched'[q] = 0
    BY <2>1, <2>2 DEF DigestShape
  <2>9. \A q \in Runners : runAt'[q] = "write" => runAt[q] = "write" BY <2>1 DEF DigestShape
  <2>10. Records'
    <3>1. Told' = Told BY <2>1 DEF Told
    <3>2. \A q \in Runners : runAt'[q] \in {"idle", "watch", "load", "decide"} => buffer'[q] = Silent
      BY <2>1 DEF Records, DigestShape
    <3> QED BY <2>1, <3>1, <3>2 DEF Records
  <2> QED BY <2>1, <2>4, <2>5, <2>6, <2>7, <2>8, <2>9, <2>10 DEF DigestShape
<1> QED BY <1>1, <1>2

LEMMA LoadInv ==
  ASSUME DigestInv, NEW r \in Runners, Load(r) PROVE DigestInv'
<1> USE DEF DigestInv
<1>1. /\ runAt[r] = "load" /\ runAt' = [runAt EXCEPT ![r] = "decide"]
      /\ UNCHANGED <<pin, offered, options, watched, items, errors, buffer, disk, stateFile, tmpFile,
                     opened, delivered, lost, silenced, digests, moves>>
  BY DEF Load, To, world, found, files, memory
<1>2. PICK note : /\ noted' = [noted EXCEPT ![r] = note]
                  /\ note = Silent \/ \E i \in Inodes : note = disk[i] /\ note # Cut
  BY DEF Load, DigestShape
<1>3. note \in Digests /\ note \in Told \cup {Silent}
  BY <1>2, DigestFacts DEF DigestShape, Records
<1>4. noted' \in [Runners -> Digests] BY <1>2, <1>3 DEF DigestShape
<1>5. Told' = Told BY <1>1 DEF Told
<1>6. Records' BY <1>1, <1>2, <1>3, <1>5 DEF Records, DigestShape
<1>7. runAt' \in [Runners -> Places] BY <1>1 DEF DigestShape, Places
<1>8. \A q \in Runners : /\ runAt'[q] = "watch" => watched'[q] < 5
                         /\ runAt'[q] = "idle" => watched'[q] = 0
                         /\ runAt'[q] = "write" => opened'[q] \in Inodes
  BY <1>1 DEF DigestShape
<1> QED BY <1>1, <1>4, <1>6, <1>7, <1>8 DEF DigestShape

LEMMA TellInv ==
  ASSUME DigestInv, NEW r \in Runners, Tell(r) PROVE DigestInv'
<1> USE DEF DigestInv
<1>1. PICK to \in {"exit", "open"} :
        /\ runAt[r] = "decide" /\ runAt' = [runAt EXCEPT ![r] = to]
        /\ UNCHANGED <<pin, offered, options, watched, items, errors, disk, stateFile, tmpFile,
                       opened, delivered, lost, digests, moves>>
  BY DEF Tell, To, world, found, files
<1>2. Signature(r) \in Digests BY DigestFacts DEF Signature, DigestShape
<1>3. buffer[r] = Silent BY <1>1 DEF Records
<1>4. PICK note \in Digests, text \in Digests :
        /\ noted' = [noted EXCEPT ![r] = note] /\ buffer' = [buffer EXCEPT ![r] = text]
        /\ note = noted[r] \/ note = text
        /\ \/ silenced' = silenced
           \/ silenced' = silenced \cup {noted[r]} /\ noted[r] # Silent
  <2>1. CASE ToPrint(r)
    <3>1. /\ noted' = [noted EXCEPT ![r] = Signature(r)] /\ buffer' = [buffer EXCEPT ![r] = Signature(r)]
          /\ silenced' = silenced
      BY <2>1 DEF Tell
    <3> QED BY <1>2, <3>1
  <2>2. CASE ~ ToPrint(r)
    <3>1. /\ noted' = [noted EXCEPT ![r] = noted[r]] /\ buffer' = [buffer EXCEPT ![r] = Silent]
          /\ silenced' = IF items[r] # {} THEN silenced \cup {Signature(r)} ELSE silenced
      BY <2>2 DEF Tell
    <3>2. items[r] # {} => noted[r] = Signature(r) /\ Signature(r) # Silent
      <4>1. Signature(r).items = items[r] /\ Silent.items = {} BY DEF Signature, Silent
      <4> QED BY <2>2, <4>1 DEF ToPrint, AlreadyReported
    <3>3. noted[r] \in Digests BY DEF DigestShape
    <3> QED BY <3>1, <3>2, <3>3, DigestFacts
  <2> QED BY <2>1, <2>2
<1>5. Told \ {Silent} \subseteq Told' BY <1>1, <1>3, <1>4 DEF Told, DigestShape
<1>6. text \in Told' BY <1>4 DEF Told, DigestShape
<1>7. noted[r] \in Told \cup {Silent} BY DEF Records
<1>8. Records' BY <1>1, <1>4, <1>5, <1>6, <1>7 DEF Records, DigestShape
<1>9. noted' \in [Runners -> Digests] /\ buffer' \in [Runners -> Digests] /\ silenced' \subseteq Digests
  BY <1>4 DEF DigestShape
<1>10. runAt' \in [Runners -> Places] BY <1>1 DEF DigestShape, Places
<1>11. \A q \in Runners : /\ runAt'[q] = "watch" => watched'[q] < 5
                          /\ runAt'[q] = "idle" => watched'[q] = 0
                          /\ runAt'[q] = "write" => opened'[q] \in Inodes
  BY <1>1 DEF DigestShape
<1> QED BY <1>1, <1>8, <1>9, <1>10, <1>11 DEF DigestShape

LEMMA FileInv ==
  ASSUME DigestInv, NEW r \in Runners, OpenTmp(r) \/ WriteTmp(r) \/ Replace(r) PROVE DigestInv'
<1> USE DEF DigestInv
<1>1. /\ runAt' = [runAt EXCEPT ![r] = CASE OpenTmp(r) -> "write" [] WriteTmp(r) -> "replace"
                                         [] OTHER -> "exit"]
      /\ runAt[r] \in {"open", "write", "replace"}
      /\ UNCHANGED <<pin, offered, options, watched, items, errors, noted, buffer,
                     delivered, lost, silenced, digests, moves>>
  BY DEF OpenTmp, WriteTmp, Replace, To, world, found, memory
<1>2. Told' = Told BY <1>1 DEF Told
<1>3. \A q \in Runners : runAt'[q] \in {"idle", "watch", "load", "decide"} => runAt[q] = runAt'[q]
  BY <1>1 DEF DigestShape
<1>4. runAt' \in [Runners -> Places] BY <1>1 DEF DigestShape, Places
<1>5. /\ disk' \in [Inodes -> Digests \cup {Cut}]
      /\ \A i \in Inodes : disk'[i] \in Told \cup {Silent, Cut}
      /\ stateFile' \in {0} \cup Inodes /\ tmpFile' \in {0} \cup Inodes
      /\ opened' \in [Runners -> {0} \cup Inodes]
      /\ \A q \in Runners : runAt'[q] = "write" => opened'[q] \in Inodes
  <2>1. CASE OpenTmp(r)
    <3>1. PICK i \in Inodes : tmpFile' = i /\ opened' = [opened EXCEPT ![r] = i]
                              /\ disk' = [disk EXCEPT ![i] = Cut]
      BY <2>1 DEF OpenTmp
    <3>2. stateFile' = stateFile /\ runAt' = [runAt EXCEPT ![r] = "write"]
      BY <2>1 DEF OpenTmp, To
    <3> QED BY <3>1, <3>2 DEF DigestShape, Records
  <2>2. CASE WriteTmp(r)
    <3>1. PICK text \in {noted[r], Cut} : disk' = [disk EXCEPT ![opened[r]] = text]
      BY <2>2 DEF WriteTmp
    <3>2. /\ opened' = [opened EXCEPT ![r] = 0] /\ UNCHANGED <<stateFile, tmpFile>>
          /\ runAt' = [runAt EXCEPT ![r] = "replace"]
      BY <2>2 DEF WriteTmp, To
    <3>3. text \in Digests \cup {Cut} /\ text \in Told \cup {Silent, Cut}
      BY <3>1 DEF DigestShape, Records
    <3> QED BY <3>1, <3>2, <3>3 DEF DigestShape, Records
  <2>3. CASE Replace(r)
    <3>1. /\ stateFile' \in {stateFile, tmpFile} /\ tmpFile' = 0 /\ UNCHANGED <<disk, opened>>
          /\ runAt' = [runAt EXCEPT ![r] = "exit"]
      BY <2>3 DEF Replace, To
    <3> QED BY <3>1 DEF DigestShape, Records
  <2> QED BY <2>1, <2>2, <2>3
<1>6. Records' BY <1>1, <1>2, <1>3, <1>5 DEF Records
<1>7. \A q \in Runners : /\ runAt'[q] = "watch" => watched'[q] < 5
                         /\ runAt'[q] = "idle" => watched'[q] = 0
  BY <1>1, <1>3 DEF DigestShape
<1> QED BY <1>1, <1>4, <1>5, <1>6, <1>7 DEF DigestShape

LEMMA OverInv ==
  ASSUME DigestInv, NEW r \in Runners, Exit(r) \/ Kill(r) PROVE DigestInv'
<1> USE DEF DigestInv
<1>1. /\ runAt' = [runAt EXCEPT ![r] = "idle"] /\ watched' = [watched EXCEPT ![r] = 0]
      /\ items' = [items EXCEPT ![r] = {}] /\ errors' = [errors EXCEPT ![r] = {}]
      /\ noted' = [noted EXCEPT ![r] = Silent] /\ buffer' = [buffer EXCEPT ![r] = Silent]
      /\ opened' = [opened EXCEPT ![r] = 0]
      /\ options' = [options EXCEPT ![r] = [force |-> FALSE, dry |-> FALSE]]
      /\ UNCHANGED <<pin, offered, disk, stateFile, tmpFile, silenced, digests, moves>>
  BY DEF Exit, Kill, Over, To, world
<1>2. delivered' \cup lost' = delivered \cup lost \cup {buffer[r]}
  BY DEF Exit, Kill
<1>3. delivered' \subseteq Digests /\ lost' \subseteq Digests
  <2>1. buffer[r] \in Digests BY DEF DigestShape
  <2> QED BY <1>2, <2>1 DEF DigestShape
<1>4. Told \subseteq Told'
  <2>1. ASSUME NEW q \in Runners PROVE buffer[q] \in Told'
    <3>1. CASE q = r BY <1>2, <3>1 DEF Told
    <3>2. CASE q # r
      <4>1. buffer'[q] = buffer[q] BY <1>1, <3>2 DEF DigestShape
      <4> QED BY <4>1 DEF Told
    <3> QED BY <3>1, <3>2
  <2> QED BY <1>2, <2>1 DEF Told
<1>5. Records'
  <2>1. \A q \in Runners : runAt'[q] \in {"idle", "watch", "load", "decide"} => buffer'[q] = Silent
    BY <1>1 DEF DigestShape, Records
  <2>2. \A q \in Runners : noted'[q] \in Told' \cup {Silent} BY <1>1, <1>4 DEF DigestShape, Records
  <2> QED BY <1>1, <1>4, <2>1, <2>2 DEF Records
<1>6. options' \in [Runners -> [force : BOOLEAN, dry : BOOLEAN]]
  <2>1. [force |-> FALSE, dry |-> FALSE] \in [force : BOOLEAN, dry : BOOLEAN] BY Zenon
  <2> QED BY <1>1, <2>1, Zenon DEF DigestShape
<1>7. /\ runAt' \in [Runners -> Places] /\ watched' \in [Runners -> 0 .. 5]
      /\ noted' \in [Runners -> Digests] /\ buffer' \in [Runners -> Digests]
      /\ opened' \in [Runners -> {0} \cup Inodes]
  BY <1>1, DigestFacts DEF DigestShape, Places
<1>8. /\ items' \in [Runners -> SUBSET Drifts] /\ errors' \in [Runners -> SUBSET Stacks]
  BY <1>1 DEF DigestShape
<1>9. \A q \in Runners : /\ runAt'[q] = "watch" => watched'[q] < 5
                         /\ runAt'[q] = "idle" => watched'[q] = 0
                         /\ runAt'[q] = "write" => opened'[q] \in Inodes
  BY <1>1 DEF DigestShape
<1> QED BY <1>1, <1>3, <1>5, <1>6, <1>7, <1>8, <1>9 DEF DigestShape

LEMMA DigestStep == DigestInv /\ [DigestNext]_digestVars => DigestInv'
<1> SUFFICES ASSUME DigestInv, [DigestNext]_digestVars PROVE DigestInv' OBVIOUS
<1>1. CASE Move
  <2>1. /\ moves < MaxUpstream /\ moves' = moves + 1
        /\ UNCHANGED <<runAt, options, watched, items, errors, noted, buffer, disk, stateFile, tmpFile,
                       opened, delivered, lost, silenced, digests>>
    BY <1>1 DEF Move, found, files, memory
  <2>2. PICK c \in Components :
          \/ /\ \E t \in Releases \ offered[c] : offered' = [offered EXCEPT ![c] = @ \cup {t}]
             /\ UNCHANGED pin
          \/ /\ \E v \in 0 .. 2 : pin' = [pin EXCEPT ![c] = v] /\ UNCHANGED offered
    BY <1>1 DEF Move, Unknown
  <2>3. pin' \in [Components -> 0 .. 2] BY <2>2 DEF DigestInv, DigestShape
  <2>4. offered' \in [Components -> SUBSET (Releases \cup {Oldest})]
    BY <2>2 DEF DigestInv, DigestShape
  <2>5. moves' \in 0 .. MaxUpstream BY <2>1, DigestAssumption DEF DigestInv, DigestShape
  <2>6. Records' BY <2>1 DEF DigestInv, Records, Told
  <2> QED BY <2>1, <2>3, <2>4, <2>5, <2>6 DEF DigestInv, DigestShape
<1>2. CASE UNCHANGED digestVars
  <2>1. DigestShape' BY <1>2 DEF DigestInv, DigestShape, digestVars
  <2>2. Records' BY <1>2 DEF DigestInv, Records, Told, digestVars
  <2> QED BY <2>1, <2>2 DEF DigestInv
<1> QED BY <1>1, <1>2, RunInv, LoadInv, TellInv, FileInv, OverInv DEF DigestNext

\* DigestInv is an invariant (release_digest.py:472-501, 545-594).
THEOREM DigestInvariant == DigestSpec => []DigestInv
BY DigestInitInv, DigestStep, PTL DEF DigestSpec

\* However runs overlap on the temporary file and are killed: what a run keeps
\* silent about was told, or composed by a run that was killed or is not over.
THEOREM DigestSafety == DigestSpec => []SilenceWasTold
<1>1. DigestInv => SilenceWasTold BY DEF DigestInv, Records, Told, SilenceWasTold
<1> QED BY <1>1, DigestInvariant, PTL

(***************************************************************************)
(* Host health.  What is wrong on the host -- a gate, a user with a failed *)
(* unit, another boot -- is known to the collection or still ahead of it:  *)
(* a read that is left, or a task of the plan, comes upon it.  So at the   *)
(* instant at which every manager has been asked once either the host is   *)
(* healthy, or what is wrong then is carried to the verdict.               *)
(***************************************************************************)
\* What is left of the plan.
Plans ==
  IF endpoints
  THEN {<<"before", "managers", "network", "after">>, <<"managers", "network", "after">>,
        <<"network", "after">>, <<"after">>, <<>>}
  ELSE {<<"before", "managers", "after">>, <<"managers", "after">>, <<"after">>, <<>>}

PlanOK ==
  /\ todo \in Plans
  /\ todo = <<>> => reads = <<>>
  /\ outcome \in {"pass", "fail"} => todo = <<>>
  /\ retained # "none" => outcome \in {"pass", "fail"}


\* The program of a task: what it may read, and in the end the boot.
ThingsOf(t) ==
  CASE t = "managers" -> {"system", "units", "processes"} \cup Users
    [] t = "network" -> {"network", "answer"}
    [] OTHER -> {"mounts", "storage"}

Occurs(rs, e) == \E i \in 1 .. Len(rs) : rs[i] = e

Program(t, rs) ==
  /\ rs \in Seq({1, 2, 3} \X (Things \cup {"units", "processes", "boot"}))
  /\ \A i \in 1 .. Len(rs) :
       IF i = Len(rs) THEN rs[i] = <<3, "boot">> ELSE rs[i] \in {1, 2} \X ThingsOf(t)

\* The task of the managers ends with the processes, the system and the boot, and
\* reads in rounds.  Of the first round nothing comes after the processes but users.
Ordered(rs) ==
  /\ Len(rs) >= 2 => rs[Len(rs) - 1] = <<2, "system">>
  /\ Len(rs) >= 3 => rs[Len(rs) - 2] = <<2, "processes">>
  /\ \A i, j \in 1 .. Len(rs) : i < j => rs[i][1] <= rs[j][1]
  /\ \A i, j \in 1 .. Len(rs) : i < j /\ rs[i] = <<1, "processes">> => rs[j][1] >= 2

\* With the inventory read, every user in it is still to be asked again.
Covers(rs, named) ==
  \/ Occurs(rs, <<1, "processes">>)
  \/ rs[1][1] >= 2
  \/ /\ ~ Occurs(rs, <<1, "units">>) /\ ~ Occurs(rs, <<1, "processes">>)
     /\ \A u \in named : Occurs(rs, <<2, u>>)

ProgramOK ==
  reads # <<>> =>
    /\ Program(Head(todo), reads)
    /\ Head(todo) = "managers" => Ordered(reads) /\ Covers(reads, Named)

\* Boots and processes are numbered as the host goes on.
BootsOK ==
  /\ onBoot <= events + 1 /\ task.boot <= onBoot /\ reports["managers"].boot <= onBoot
  /\ \A u \in Users : manager[u] <= events + 1 /\ task.running[u] <= events + 1

\* Every manager has been asked once: from here on the collection is accounted for.
AllAsked ==
  \/ todo = <<>>
  \/ todo # <<>> /\ Head(todo) \in {"network", "after"}
  \/ todo # <<>> /\ Head(todo) = "managers" /\ reads # <<>> /\ reads[1][1] >= 2

Known(t) == IF todo # <<>> /\ Head(todo) = t /\ reads # <<>> THEN task ELSE reports[t]
Inventory == Known("managers")

Judges(x) ==
  CASE x \in {"kernel", "mounts", "storage"} -> "after"
    [] x \in {"network", "answer"} -> "network"
    [] OTHER -> "managers"

\* A gate is to be read, or was.
Ahead(x) ==
  \E i \in 1 .. Len(todo) :
    /\ todo[i] = Judges(x)
    /\ i = 1 /\ reads # <<>> => Occurs(reads, <<1, x>>) \/ Occurs(reads, <<2, x>>)

GateWrong(x) ==
  /\ x \in {"network", "answer"} => endpoints
  /\ Ahead(x) => x \in bad
  /\ ~ Ahead(x) => Known(Judges(x)).seen[x] # "clean"

Left(x) == todo # <<>> /\ Head(todo) = "managers" /\ Occurs(reads, <<2, x>>)

UserWrong(u) ==
  /\ Inventory.running[u] # 0
  /\ \/ Left("processes") /\ manager[u] # Inventory.running[u]
     \/ Left(u) /\ u \in bad
     \/ ~ Left(u) /\ Inventory.seen[u] # "clean"

InventoryWrong == ~ Left("processes") /\ Inventory.seen["managers"] # "clean"

Condemned ==
  \/ \E x \in Gates : GateWrong(x)
  \/ \E u \in Users : UserWrong(u)
  \/ InventoryWrong

BootLost ==
  /\ todo # <<>> => onBoot # Inventory.boot
  /\ todo = <<>> => reports["after"].boot # Inventory.boot

\* Either the host was healthy at once, or what is wrong is known or will be.
Accounted ==
  AllAsked => Inventory.boot \in sound \/ Inventory.boot = 0 \/ BootLost \/ Condemned

Grounded == HealthTypeOK /\ PlanOK /\ ProgramOK /\ BootsOK

HealthInv == Grounded /\ Accounted /\ PassWasHealthyAtOnce

LEMMA HealthFacts ==
  /\ MaxEvents \in Nat /\ UserOrder \in Seq(Users)
  /\ \A u \in Users :
       /\ u \notin Gates /\ u # "managers" /\ u # "units" /\ u # "processes" /\ u # "boot"
       /\ u # "kernel" /\ u # "mounts" /\ u # "storage" /\ u # "system" /\ u # "network" /\ u # "answer"
BY HealthAssumption DEF Gates

LEMMA PlanFacts ==
  ASSUME NEW s \in Plans, s # <<>>
  PROVE  /\ s \in Seq(Tasks) /\ Len(s) \in Nat \ {0} /\ Head(s) = s[1] /\ Tail(s) \in Plans
         /\ Len(Tail(s)) = Len(s) - 1
         /\ \A i \in 1 .. Len(Tail(s)) : Tail(s)[i] = s[i + 1] /\ i + 1 \in 2 .. Len(s)
         /\ \A i \in 2 .. Len(s) : s[i] # s[1] /\ s[i] # "before"
         /\ Head(s) = "before" => Tail(s) # <<>> /\ Head(Tail(s)) = "managers"
         /\ Head(s) # "before" => \A i \in 2 .. Len(s) : s[i] # "managers"
         /\ Head(s) = "after" <=> Tail(s) = <<>>
         /\ Head(s) = "managers" =>
              /\ \E i \in 2 .. Len(s) : s[i] = "after"
              /\ endpoints => \E i \in 2 .. Len(s) : s[i] = "network"
<1>1. CASE s = <<"before", "managers", "network", "after">> /\ endpoints
  BY <1>1 DEF Plans, Tasks
<1>2. CASE s = <<"managers", "network", "after">> /\ endpoints BY <1>2 DEF Plans, Tasks
<1>3. CASE s = <<"network", "after">> /\ endpoints BY <1>3 DEF Plans, Tasks
<1>4. CASE s = <<"after">> BY <1>4 DEF Plans, Tasks
<1>5. CASE s = <<"before", "managers", "after">> /\ ~ endpoints BY <1>5 DEF Plans, Tasks
<1>6. CASE s = <<"managers", "after">> /\ ~ endpoints BY <1>6 DEF Plans, Tasks
<1> QED BY <1>1, <1>2, <1>3, <1>4, <1>5, <1>6 DEF Plans

\* A program goes on until the boot is noted again.
LEMMA ProgramGoesOn ==
  ASSUME NEW t, NEW rs, Program(t, rs), rs # <<>>
  PROVE  /\ Len(rs) \in Nat \ {0} /\ Head(rs) = rs[1] /\ Tail(rs) \in Seq({1, 2, 3} \X (Things \cup {"units", "processes", "boot"}))
         /\ Len(Tail(rs)) = Len(rs) - 1
         /\ \A i \in 1 .. Len(Tail(rs)) : Tail(rs)[i] = rs[i + 1] /\ i + 1 \in 1 .. Len(rs)
         /\ rs[1][1] = 3 => Len(rs) = 1
         /\ rs[1][1] \in {1, 2, 3}
         /\ rs[1][1] # 3 => /\ rs[1] \in {1, 2} \X ThingsOf(t)
                            /\ Len(rs) >= 2 /\ Tail(rs) # <<>> /\ Program(t, Tail(rs))
<1> DEFINE T == Things \cup {"units", "processes", "boot"}
<1>1. rs \in Seq({1, 2, 3} \X T) BY DEF Program
<1> HIDE DEF T
<1>2. /\ Len(rs) \in Nat \ {0} /\ Head(rs) = rs[1] /\ Tail(rs) \in Seq({1, 2, 3} \X T)
      /\ Len(Tail(rs)) = Len(rs) - 1
      /\ \A i \in 1 .. Len(Tail(rs)) : Tail(rs)[i] = rs[i + 1] /\ i + 1 \in 1 .. Len(rs)
      /\ rs[1] \in {1, 2, 3} \X T
  BY <1>1
<1>3. 1 \in 1 .. Len(rs) BY <1>2
<1>4. rs[1][1] \in {1, 2, 3} BY <1>2
<1>5. ASSUME rs[1][1] # 3 PROVE Len(rs) # 1
  <2>1. ASSUME Len(rs) = 1 PROVE rs[1] = <<3, "boot">> BY <1>3, <2>1 DEF Program
  <2>2. ASSUME Len(rs) = 1 PROVE rs[1][1] = 3 BY <2>1, <2>2
  <2> QED BY <1>5, <2>2
<1>6. ASSUME Len(rs) # 1 PROVE rs[1] \in {1, 2} \X ThingsOf(t) BY <1>3, <1>6 DEF Program
<1>7. rs[1][1] = 3 => Len(rs) = 1
  <2> SUFFICES ASSUME Len(rs) # 1 PROVE rs[1][1] # 3 OBVIOUS
  <2>1. rs[1][1] \in {1, 2} BY <1>6
  <2> QED BY <2>1
<1>8. ASSUME rs[1][1] # 3 PROVE Tail(rs) # <<>> /\ Program(t, Tail(rs))
  <2>1. Tail(rs) # <<>>
    <3>1. Len(Tail(rs)) # 0 BY <1>2, <1>5, <1>8
    <3>2. Len(<<>>) = 0 OBVIOUS
    <3> QED BY <3>1, <3>2
  <2>2. \A i \in 1 .. Len(Tail(rs)) :
          /\ Tail(rs)[i] = rs[i + 1] /\ i + 1 \in 1 .. Len(rs)
          /\ i = Len(Tail(rs)) <=> i + 1 = Len(rs)
    BY <1>2
  <2> QED BY <1>2, <2>1, <2>2 DEF Program, T
<1> QED BY <1>2, <1>4, <1>5, <1>6, <1>7, <1>8 DEF T

LEMMA TailOccurs ==
  ASSUME NEW t, NEW rs, Program(t, rs), rs # <<>>, NEW e
  PROVE  /\ Occurs(Tail(rs), e) => Occurs(rs, e)
         /\ Occurs(rs, e) => Occurs(Tail(rs), e) \/ e = rs[1]
<1>1. /\ Len(rs) \in Nat \ {0} /\ Len(Tail(rs)) = Len(rs) - 1
      /\ \A i \in 1 .. Len(Tail(rs)) : Tail(rs)[i] = rs[i + 1] /\ i + 1 \in 1 .. Len(rs)
  BY ProgramGoesOn
<1>2. Occurs(Tail(rs), e) => Occurs(rs, e) BY <1>1 DEF Occurs
<1>3. ASSUME NEW i \in 1 .. Len(rs), rs[i] = e, e # rs[1] PROVE Occurs(Tail(rs), e)
  <2>1. i - 1 \in 1 .. Len(Tail(rs)) /\ (i - 1) + 1 = i BY <1>1, <1>3
  <2>2. Tail(rs)[i - 1] = e BY <1>1, <1>3, <2>1
  <2> QED BY <2>1, <2>2 DEF Occurs
<1> QED BY <1>2, <1>3 DEF Occurs

LEMMA TailOrdered ==
  ASSUME NEW rs, Program("managers", rs), rs # <<>>, rs[1][1] # 3, Ordered(rs)
  PROVE  /\ Ordered(Tail(rs))
         /\ Occurs(rs, <<2, "system">>)
         /\ rs[1][1] <= Tail(rs)[1][1] /\ Tail(rs)[1][1] \in {1, 2, 3}
         /\ rs[1][1] = 1 => Tail(rs)[1][1] # 3
<1>1. /\ Len(rs) \in Nat \ {0} /\ Len(Tail(rs)) = Len(rs) - 1
      /\ \A i \in 1 .. Len(Tail(rs)) : Tail(rs)[i] = rs[i + 1] /\ i + 1 \in 1 .. Len(rs)
      /\ Len(rs) >= 2 /\ Tail(rs) # <<>> /\ Program("managers", Tail(rs))
  BY ProgramGoesOn
<1> DEFINE ts == Tail(rs)
           n == Len(rs)
<1>2. \A i, j \in 1 .. Len(ts) : i < j => ts[i][1] <= ts[j][1]
  <2> TAKE i, j \in 1 .. Len(ts)
  <2>1. ts[i] = rs[i + 1] /\ ts[j] = rs[j + 1] /\ i + 1 \in 1 .. n /\ j + 1 \in 1 .. n BY <1>1
  <2>2. i < j => i + 1 < j + 1 BY <1>1
  <2> QED BY <2>1, <2>2 DEF Ordered
<1>3. \A i, j \in 1 .. Len(ts) : i < j /\ ts[i] = <<1, "processes">> => ts[j][1] >= 2
  <2> TAKE i, j \in 1 .. Len(ts)
  <2>1. ts[i] = rs[i + 1] /\ ts[j] = rs[j + 1] /\ i + 1 \in 1 .. n /\ j + 1 \in 1 .. n BY <1>1
  <2>2. i < j => i + 1 < j + 1 BY <1>1
  <2> QED BY <2>1, <2>2 DEF Ordered
<1>4. Len(ts) >= 2 => ts[Len(ts) - 1] = <<2, "system">>
  <2> SUFFICES ASSUME Len(ts) >= 2 PROVE ts[Len(ts) - 1] = <<2, "system">> OBVIOUS
  <2>1. Len(ts) - 1 \in 1 .. Len(ts) /\ (Len(ts) - 1) + 1 = n - 1 BY <1>1
  <2> QED BY <1>1, <2>1 DEF Ordered
<1>5. Len(ts) >= 3 => ts[Len(ts) - 2] = <<2, "processes">>
  <2> SUFFICES ASSUME Len(ts) >= 3 PROVE ts[Len(ts) - 2] = <<2, "processes">> OBVIOUS
  <2>1. Len(ts) - 2 \in 1 .. Len(ts) /\ (Len(ts) - 2) + 1 = n - 2 /\ n >= 3 BY <1>1
  <2> QED BY <1>1, <2>1 DEF Ordered
<1>6. Occurs(rs, <<2, "system">>)
  <2>1. n - 1 \in 1 .. n /\ rs[n - 1] = <<2, "system">> BY <1>1 DEF Ordered
  <2> QED BY <2>1 DEF Occurs
<1>7. rs[1][1] <= ts[1][1]
  <2>1. 1 \in 1 .. n /\ 2 \in 1 .. n /\ 1 \in 1 .. Len(ts) /\ 1 < 2 /\ ts[1] = rs[2] BY <1>1
  <2> QED BY <2>1 DEF Ordered
<1>8. ts[1][1] \in {1, 2, 3} BY <1>1, ProgramGoesOn
<1>9. ASSUME rs[1][1] = 1 PROVE ts[1][1] # 3
  <2> SUFFICES ASSUME ts[1][1] = 3 PROVE FALSE OBVIOUS
  <2>1. Len(ts) = 1 BY <1>1, ProgramGoesOn
  <2>2. n = 2
    <3>1. Len(rs) \in Nat /\ Len(Tail(rs)) = Len(rs) - 1 BY <1>1
    <3>2. Len(Tail(rs)) = 1 BY <2>1
    <3>3. \A a \in Nat : \A b : b = a - 1 /\ b = 1 => a = 2 OBVIOUS
    <3> QED BY <3>1, <3>2, <3>3
  <2>3. rs[1] = <<2, "system">> BY <2>2 DEF Ordered
  <2> QED BY <1>9, <2>3
<1>10. Ordered(ts) BY <1>2, <1>3, <1>4, <1>5 DEF Ordered
<1> QED BY <1>6, <1>7, <1>8, <1>9, <1>10

LEMMA Least ==
  ASSUME NEW S \in SUBSET Nat, S # {}
  PROVE  \E x \in S : \A y \in S : x <= y
<1>0. \E x \in S : \A y \in S : ~ (<<y, x>> \in OpToRel(<, Nat))
  <2>1. S \subseteq Nat OBVIOUS
  <2> QED BY <2>1, NatLessThanWellFounded, WFMin
<1>1. PICK x \in S : \A y \in S : ~ (<<y, x>> \in OpToRel(<, Nat)) BY <1>0
<1>2. \A y \in S : ~ (y < x) BY <1>1 DEF OpToRel
<1> QED BY <1>2

Ascending(s) == \A i, j \in DOMAIN s : i < j => s[i] < s[j]
Lists(s, c, S) ==
  s \in [1 .. c -> S] /\ Ascending(s) /\ \A x \in S : \E i \in 1 .. c : s[i] = x

\* Every finite set of numbers can be sorted.
LEMMA Sortable ==
  ASSUME NEW k \in Nat, NEW S \in SUBSET (1 .. k)
  PROVE  /\ Cardinality(S) \in Nat
         /\ \E s : Lists(s, Cardinality(S), S)
<1> DEFINE Can(T) == Cardinality(T) \in Nat /\ \E s : Lists(s, Cardinality(T), T)
           Stuck == {n \in 0 .. k : ~ \A T \in SUBSET (1 .. n) : Can(T)}
<1>1. ASSUME Stuck # {} PROVE FALSE
  <2>1. PICK n \in Stuck : \A l \in Stuck : n <= l
    <3>1. Stuck \in SUBSET Nat OBVIOUS
    <3> HIDE DEF Stuck
    <3> QED BY <1>1, <3>1, Least
  <2>2. PICK T \in SUBSET (1 .. n) : ~ Can(T) BY <2>1
  <2>3. n \in 0 .. k BY <2>1
  <2>4. CASE T = {}
    <3>1. Cardinality(T) = 0 BY <2>4, FS_EmptySet
    <3> DEFINE s == [i \in 1 .. 0 |-> 0]
    <3>2. s \in [1 .. 0 -> T] /\ Ascending(s) BY DEF Ascending
    <3>3. Lists(s, 0, T) BY <2>4, <3>2 DEF Lists
    <3> HIDE DEF s
    <3> QED BY <2>2, <3>1, <3>3
  <2>5. CASE T # {}
    <3>0. PICK x \in T : TRUE BY <2>5
    <3>1. n \in Nat /\ n # 0 /\ n - 1 \in 0 .. k /\ ~ (n <= n - 1) BY <2>3, <3>0
    <3>2. \A U \in SUBSET (1 .. n - 1) : Can(U)
      <4>1. n - 1 \notin Stuck BY <2>1, <3>1
      <4> HIDE DEF Can
      <4> QED BY <3>1, <4>1
    <3>3. CASE n \notin T
      <4>1. T \subseteq 1 .. n - 1 BY <3>1, <3>3
      <4> QED BY <2>2, <3>2, <4>1
    <3>4. CASE n \in T
      <4> DEFINE U == T \ {n}
      <4>1. U \in SUBSET (1 .. n - 1) /\ n \notin U /\ T = U \cup {n} BY <3>1, <3>4
      <4> HIDE DEF U
      <4> DEFINE c == Cardinality(U)
      <4>2. c \in Nat BY <3>2, <4>1
      <4>11. PICK s : Lists(s, c, U) BY <3>2, <4>1
      <4>3. s \in [1 .. c -> U] /\ Ascending(s) /\ \A u \in U : \E i \in 1 .. c : s[i] = u
        BY <4>11 DEF Lists
      <4>4. Cardinality(T) = c + 1
        <5>1. IsFiniteSet(U)
          <6>1. IsFiniteSet(1 .. n - 1) BY <3>1, FS_Interval
          <6> QED BY <4>1, <6>1, FS_Subset
        <5> QED BY <4>1, <5>1, FS_AddElement
      <4> HIDE DEF c
      <4> DEFINE t == [i \in 1 .. c + 1 |-> IF i = c + 1 THEN n ELSE s[i]]
      <4>5. t \in [1 .. c + 1 -> T] BY <4>1, <4>2, <4>3
      <4>6. \A i \in 1 .. c : t[i] = s[i] /\ s[i] \in U /\ s[i] \in Nat /\ s[i] < n
        <5>1. \A u \in U : u \in Nat /\ u < n BY <3>1, <4>1
        <5> QED BY <4>2, <4>3, <5>1
      <4>7. t[c + 1] = n BY <4>2
      <4>8. \A i \in 1 .. c + 1 : i \in 1 .. c \/ i = c + 1 BY <4>2
      <4>9. Ascending(t)
        <5> SUFFICES ASSUME NEW i \in 1 .. c + 1, NEW j \in 1 .. c + 1, i < j PROVE t[i] < t[j]
          BY DEF Ascending
        <5>1. i \in 1 .. c BY <4>2
        <5>2. CASE j = c + 1 BY <4>6, <4>7, <5>1, <5>2
        <5>3. CASE j \in 1 .. c
          <6>1. s[i] < s[j] BY <4>3, <5>1, <5>3 DEF Ascending
          <6> QED BY <4>6, <5>1, <5>3, <6>1
        <5> QED BY <4>8, <5>2, <5>3
      <4>10. \A u \in T : \E i \in 1 .. c + 1 : t[i] = u
        <5>1. \A u \in U : \E i \in 1 .. c : u = t[i] BY <4>3, <4>6
        <5>2. \A i \in 1 .. c : i \in 1 .. c + 1 BY <4>2
        <5>3. c + 1 \in 1 .. c + 1 BY <4>2
        <5>4. \A i \in 1 .. c + 1 : t[i] \in T BY <4>5
        <5> HIDE DEF t
        <5> QED BY <4>1, <4>7, <5>1, <5>2, <5>3, <5>4
      <4> HIDE DEF t
      <4>12. Lists(t, c + 1, T) BY <4>5, <4>9, <4>10 DEF Lists
      <4>13. c + 1 \in Nat BY <4>2
      <4> QED BY <2>2, <4>4, <4>12, <4>13
    <3> QED BY <3>3, <3>4
  <2> QED BY <2>4, <2>5
<1>2. k \notin Stuck /\ k \in 0 .. k
  <2>1. k \notin Stuck BY <1>1
  <2> HIDE DEF Stuck
  <2> QED BY <2>1
<1>3. Can(S)
  <2> HIDE DEF Can
  <2> QED BY <1>2
<1> QED BY <1>3

\* Those asked are all that were named, in the order of the users.
LEMMA AskedFacts ==
  ASSUME NEW r
  PROVE  /\ Asked(r) \in Seq({r} \X Users)
         /\ \A i \in 1 .. Len(Asked(r)) : \E u \in Named : Asked(r)[i] = <<r, u>>
         /\ \A u \in Named : Occurs(Asked(r), <<r, u>>)
<1> DEFINE n == Len(UserOrder)
           S == {i \in DOMAIN UserOrder : UserOrder[i] \in Named}
           c == Cardinality(S)
           P(s) == \A i, j \in DOMAIN s : i < j => s[i] < s[j]
           o == CHOOSE s \in [1 .. c -> S] : P(s)
<1>1. n \in Nat /\ DOMAIN UserOrder = 1 .. n BY HealthFacts
<1>2. S \in SUBSET (1 .. n) BY <1>1
<1>3. c \in Nat /\ \E s : Lists(s, c, S)
  <2> HIDE DEF S, n
  <2> QED BY <1>1, <1>2, Sortable
<1>4. \E s \in [1 .. c -> S] : P(s)
  <2> HIDE DEF S, c
  <2> QED BY <1>3 DEF Lists, Ascending
<1>5. Asked(r) = [i \in DOMAIN o |-> <<r, UserOrder[o[i]]>>] BY DEF Asked
<1>6. o \in [1 .. c -> S] /\ P(o)
  <2> HIDE DEF P, S, c
  <2> QED BY <1>4
<1>12. \A i \in S : UserOrder[i] \in Named /\ UserOrder[i] \in Users BY DEF Named, Users
<1>7. \A x \in S : \E i \in 1 .. c : o[i] = x
  <2>0. \A x \in S : x \in Nat BY <1>1
  <2>1. IsFiniteSet(S)
    <3>1. IsFiniteSet(1 .. n) BY <1>1, FS_Interval
    <3> QED BY <1>2, <3>1, FS_Subset
  <2> HIDE DEF S, o
  <2>2. Cardinality(1 .. c) = c BY <1>3, FS_Interval
  <2>3. \A i, j \in 1 .. c : i # j => o[i] # o[j]
    <3>1. \A i \in 1 .. c : o[i] \in S BY <1>6
    <3>2. \A i, j \in 1 .. c : i < j => o[i] < o[j] BY <1>6
    <3> SUFFICES ASSUME NEW i \in 1 .. c, NEW j \in 1 .. c, i # j PROVE o[i] # o[j] OBVIOUS
    <3>3. o[i] \in Nat /\ o[j] \in Nat BY <2>0, <3>1
    <3>4. i < j \/ j < i BY <1>3
    <3> QED BY <3>2, <3>3, <3>4
  <2>4. o \in Injection(1 .. c, S) BY <1>6, <2>3 DEF Injection, IsInjective
  <2>5. o \in Surjection(1 .. c, S) BY <2>1, <2>2, <2>4, FS_Injection DEF c
  <2> QED BY <2>5 DEF Surjection
<1> HIDE DEF o, S, c
<1>8. \A i \in 1 .. c : UserOrder[o[i]] \in Named /\ UserOrder[o[i]] \in Users BY <1>6, <1>12
<1>9. DOMAIN o = 1 .. c BY <1>6
<1>10. /\ Asked(r) = [i \in 1 .. c |-> <<r, UserOrder[o[i]]>>]
       /\ Asked(r) \in Seq({r} \X Users) /\ Len(Asked(r)) = c
  <2>1. Asked(r) = [i \in 1 .. c |-> <<r, UserOrder[o[i]]>>] BY <1>5, <1>9
  <2>2. \A i \in 1 .. c : <<r, UserOrder[o[i]]>> \in {r} \X Users BY <1>8
  <2>3. Asked(r) \in [1 .. c -> {r} \X Users] BY <2>1, <2>2
  <2> QED BY <1>3, <2>1, <2>3
<1>11. ASSUME NEW u \in Named PROVE Occurs(Asked(r), <<r, u>>)
  <2>1. u \in Users BY DEF Named
  <2>2. PICK p \in DOMAIN UserOrder : UserOrder[p] = u BY <2>1 DEF Users
  <2>3. p \in S BY <2>2, <1>11 DEF S
  <2>4. PICK i \in 1 .. c : o[i] = p BY <1>7, <2>3
  <2>5. Asked(r)[i] = <<r, u>> BY <1>10, <2>2, <2>4
  <2> QED BY <1>10, <2>4, <2>5 DEF Occurs
<1> QED BY <1>8, <1>10, <1>11

(***************************************************************************)
(* The observations.                                                       *)
(***************************************************************************)
LEMMA SeenFacts ==
  ASSUME NEW o \in Observations, NEW x \in Things, NEW v \in Verdicts, NEW p,
         p = [o EXCEPT !.seen[x] = v]
  PROVE  /\ p \in Observations /\ p.boot = o.boot /\ p.running = o.running
         /\ p.seen[x] = v /\ \A y \in Things : y # x => p.seen[y] = o.seen[y]
<1>1. p = [o EXCEPT !.seen = [o.seen EXCEPT ![x] = v]] OBVIOUS
<1>2. /\ o.seen \in [Things -> Verdicts] /\ o.boot \in BootNumbers
      /\ o.running \in [Users -> Pids]
  BY DEF Observations
<1>3. /\ [o.seen EXCEPT ![x] = v] \in [Things -> Verdicts]
      /\ [o.seen EXCEPT ![x] = v][x] = v
      /\ \A y \in Things : y # x => [o.seen EXCEPT ![x] = v][y] = o.seen[y]
  BY <1>2
<1>4. /\ p \in Observations /\ p.boot = o.boot /\ p.running = o.running
      /\ p.seen = [o.seen EXCEPT ![x] = v]
  BY <1>1, <1>2, <1>3 DEF Observations
<1>5. p.seen[x] = v /\ \A y \in Things : y # x => p.seen[y] = o.seen[y] BY <1>3, <1>4
<1> QED BY <1>4, <1>5

LEMMA UnreadFacts ==
  /\ Unread \in Observations /\ Unread.boot = 0 /\ \A u \in Users : Unread.running[u] = 0
  /\ \A x \in Things : Unread.seen[x] = "unread"
<1>1. 0 \in BootNumbers /\ 0 \in Pids BY HealthFacts DEF BootNumbers, Pids
<1> QED BY <1>1 DEF Unread, Observations, Verdicts

\* What a task has noted when it begins.
Opened(b, v) == [Unread EXCEPT !.boot = b, !.seen["kernel"] = v]

LEMMA OpenFacts ==
  ASSUME NEW b \in BootNumbers, NEW v \in Verdicts, NEW p, p = Opened(b, v)
  PROVE  /\ p \in Observations /\ p.boot = b /\ \A u \in Users : p.running[u] = 0
         /\ p.seen["kernel"] = v
         /\ \A y \in Things : y # "kernel" => p.seen[y] = "unread"
<1> DEFINE q == [Unread EXCEPT !.boot = b]
<1>1. q \in Observations /\ q.boot = b /\ q.running = Unread.running /\ q.seen = Unread.seen
  BY UnreadFacts DEF Observations
<1>2. p = [q EXCEPT !.seen["kernel"] = v] BY DEF Opened
<1>3. "kernel" \in Things BY DEF Things, Gates
<1> HIDE DEF q
<1>4. /\ p \in Observations /\ p.boot = q.boot /\ p.running = q.running
      /\ p.seen["kernel"] = v /\ \A y \in Things : y # "kernel" => p.seen[y] = q.seen[y]
  <2>1. \A o \in Observations, x \in Things : [o EXCEPT !.seen[x] = v] \in Observations
    BY SeenFacts
  <2>2. p \in Observations BY <1>1, <1>2, <1>3, <2>1
  <2>3. p.boot = q.boot /\ p.running = q.running /\ p.seen = [q.seen EXCEPT !["kernel"] = v]
    BY <1>1, <1>2 DEF Observations
  <2>4. q.seen \in [Things -> Verdicts] BY <1>1 DEF Observations
  <2> QED BY <1>3, <2>2, <2>3, <2>4
<1>5. \A u \in Users : p.running[u] = 0 BY <1>1, <1>4, UnreadFacts
<1>6. \A y \in Things : y # "kernel" => p.seen[y] = "unread" BY <1>1, <1>4, UnreadFacts
<1> QED BY <1>1, <1>4, <1>5, <1>6

LEMMA RunningFacts ==
  ASSUME NEW o \in Observations, NEW f \in [Users -> Pids]
  PROVE  /\ [o EXCEPT !.running = f] \in Observations
         /\ [o EXCEPT !.running = f].boot = o.boot
         /\ [o EXCEPT !.running = f].running = f
         /\ [o EXCEPT !.running = f].seen = o.seen
BY DEF Observations

(***************************************************************************)
(* The kinds of steps.                                                     *)
(***************************************************************************)
Stays == UNCHANGED <<onBoot, bad, manager, endpoints, todo, reports, outcome, retained>>
EventsCounted == events' = events \/ (events < MaxEvents /\ events' = events + 1)

\* A read sees v of x; what is wrong at the time is not seen clean.
ReadStep(r, x, v) ==
  /\ Reading(r, x) /\ Step /\ task' = [task EXCEPT !.seen[x] = v]
  /\ Stays /\ EventsCounted
  /\ x \in bad => v # "clean"

GiveUpStep ==
  /\ \E r \in {1, 2} : Reading(r, "units") \/ Reading(r, "processes")
  /\ GiveUp /\ EventsCounted

LEMMA ReadSteps ==
  ASSUME HealthTypeOK, NEW x \in Gates \cup Users,
         FirstRead(x) \/ SecondRead(x) \/ CommandFails(x)
  PROVE  \E r \in {1, 2}, v \in Verdicts : ReadStep(r, x, v)
<1>1. Found(x) \in Verdicts /\ (x \in bad => Found(x) # "clean") BY DEF Found, Verdicts
<1>2. CASE FirstRead(x)
  <2>1. ReadStep(1, x, Found(x))
    BY <1>1, <1>2 DEF FirstRead, ReadStep, Other, Stays, EventsCounted, host
  <2> QED BY <1>1, <2>1
<1>3. CASE SecondRead(x)
  <2>1. Kept(x) \in Verdicts /\ (x \in bad => Kept(x) # "clean") BY <1>1 DEF Kept, Verdicts
  <2>2. ReadStep(2, x, Kept(x))
    BY <1>3, <2>1 DEF SecondRead, ReadStep, Other, Stays, EventsCounted, host
  <2> QED BY <2>1, <2>2
<1>4. CASE CommandFails(x)
  <2>1. PICK r \in {1, 2} : Reading(r, x) BY <1>4 DEF CommandFails
  <2>2. ReadStep(r, x, "unavailable") BY <1>4, <2>1 DEF CommandFails, ReadStep, Stays, EventsCounted
  <2>3. "unavailable" \in Verdicts BY DEF Verdicts
  <2> QED BY <2>2, <2>3
<1> QED BY <1>2, <1>3, <1>4

LEMMA GiveUpSteps ==
  ASSUME InventoryDiffers \/ InventoryFails
  PROVE  GiveUpStep
BY DEF InventoryDiffers, InventoryFails, GiveUpStep, EventsCounted

LEMMA TailCovers ==
  ASSUME NEW rs, NEW named, NEW named2, Program("managers", rs), rs # <<>>, rs[1][1] # 3,
         Ordered(rs), Covers(rs, named), rs[1] # <<1, "processes">>,
         named2 = named \/ rs[1] = <<1, "units">>
  PROVE  Covers(Tail(rs), named2)
<1>1. \A e : /\ Occurs(Tail(rs), e) => Occurs(rs, e)
             /\ Occurs(rs, e) => Occurs(Tail(rs), e) \/ e = rs[1]
  BY TailOccurs
<1>2. /\ rs[1][1] \in {1, 2, 3} /\ rs[1][1] <= Tail(rs)[1][1] /\ Tail(rs)[1][1] \in {1, 2, 3}
  BY ProgramGoesOn, TailOrdered
<1>3. CASE Occurs(rs, <<1, "processes">>) BY <1>1, <1>3 DEF Covers
<1>4. CASE rs[1][1] >= 2
  <2>0. \A a, b \in {1, 2, 3} : a <= b /\ a >= 2 => b >= 2 OBVIOUS
  <2>1. Tail(rs)[1][1] >= 2 BY <1>2, <1>4, <2>0
  <2> QED BY <2>1 DEF Covers
<1>5. CASE /\ ~ Occurs(rs, <<1, "units">>) /\ ~ Occurs(rs, <<1, "processes">>)
           /\ \A u \in named : Occurs(rs, <<2, u>>)
           /\ ~ rs[1][1] >= 2
  <2>1. ~ Occurs(Tail(rs), <<1, "units">>) /\ ~ Occurs(Tail(rs), <<1, "processes">>)
    BY <1>1, <1>5
  <2>2. rs[1][1] = 1 BY <1>2, <1>5
  <2>3. \A u \in named : Occurs(Tail(rs), <<2, u>>)
    <3> TAKE u \in named
    <3>1. <<2, u>> # rs[1] BY <2>2
    <3> QED BY <1>1, <1>5, <3>1
  <2>4. named2 = named
    <3>1. 1 \in 1 .. Len(rs) BY ProgramGoesOn
    <3>2. rs[1] # <<1, "units">> BY <1>5, <3>1 DEF Occurs
    <3> QED BY <3>2
  <2> QED BY <2>1, <2>3, <2>4 DEF Covers
<1> QED BY <1>3, <1>4, <1>5 DEF Covers

LEMMA ReadingFacts ==
  ASSUME Grounded, NEW r \in {1, 2}, NEW x, Reading(r, x)
  PROVE  /\ outcome = "open" /\ reads # <<>> /\ todo # <<>> /\ reads[1] = <<r, x>>
         /\ Program(Head(todo), reads) /\ x \in ThingsOf(Head(todo))
         /\ Tail(reads) # <<>> /\ Program(Head(todo), Tail(reads)) /\ Len(reads) >= 2
         /\ Head(todo) = "managers" =>
              /\ Ordered(reads) /\ Covers(reads, Named)
              /\ Ordered(Tail(reads)) /\ Occurs(reads, <<2, "system">>)
              /\ r <= Tail(reads)[1][1] /\ Tail(reads)[1][1] \in {1, 2, 3}
              /\ r = 1 => Tail(reads)[1][1] # 3
<1>1. outcome = "open" /\ reads # <<>> /\ Head(reads) = <<r, x>> BY DEF Reading
<1>2. todo # <<>> BY <1>1 DEF Grounded, PlanOK
<1>3. /\ Program(Head(todo), reads)
      /\ Head(todo) = "managers" => Ordered(reads) /\ Covers(reads, Named)
  BY <1>1 DEF Grounded, ProgramOK
<1>4. reads[1] = <<r, x>> /\ reads[1][1] = r /\ r # 3 BY <1>1, <1>3, ProgramGoesOn
<1>5. /\ Tail(reads) # <<>> /\ Program(Head(todo), Tail(reads)) /\ Len(reads) >= 2
      /\ reads[1] \in {1, 2} \X ThingsOf(Head(todo))
  BY <1>1, <1>3, <1>4, ProgramGoesOn
<1>6. x \in ThingsOf(Head(todo)) BY <1>4, <1>5
<1>7. ASSUME Head(todo) = "managers"
      PROVE  /\ Ordered(Tail(reads)) /\ Occurs(reads, <<2, "system">>)
             /\ r <= Tail(reads)[1][1] /\ Tail(reads)[1][1] \in {1, 2, 3}
             /\ r = 1 => Tail(reads)[1][1] # 3
  BY <1>1, <1>3, <1>4, <1>7, TailOrdered
<1> QED BY <1>1, <1>2, <1>3, <1>4, <1>5, <1>6, <1>7

\* What is read, of users or gates, belongs to the task that judges it.
LEMMA ThingFacts ==
  /\ \A u \in Users : u \in Things
  /\ \A x \in Gates : x \in Things /\ (x \in ThingsOf("managers") <=> x = "system")
  /\ \A x \in Gates \cup Users : \A t \in Tasks :
       x \in ThingsOf(t) /\ t # "before" => Judges(x) = t
  /\ \A u \in Users : u \notin ThingsOf("network") /\ u \notin ThingsOf("after")
                      /\ u \notin ThingsOf("before")
  /\ "kernel" \notin ThingsOf("before") /\ "kernel" \notin ThingsOf("after")
  /\ \A t \in Tasks : \A x \in ThingsOf(t) : x # "boot" /\ x # "managers"
  /\ \A t \in Tasks : "units" \in ThingsOf(t) \/ "processes" \in ThingsOf(t) => t = "managers"
<1>1. \A u \in Users : u \in Things BY DEF Things
<1>2. \A x \in Gates : x \in Things /\ (x \in ThingsOf("managers") <=> x = "system")
  BY HealthFacts DEF Things, ThingsOf, Gates
<1>3. ASSUME NEW x \in Gates, NEW t \in Tasks, x \in ThingsOf(t), t # "before"
      PROVE  Judges(x) = t
  BY <1>3, HealthFacts DEF ThingsOf, Judges, Gates, Tasks
<1>4. ASSUME NEW u \in Users
      PROVE  /\ u \notin ThingsOf("network") /\ u \notin ThingsOf("after")
             /\ u \notin ThingsOf("before") /\ Judges(u) = "managers"
  BY <1>4, HealthFacts DEF ThingsOf, Judges
<1>5. ASSUME NEW u \in Users, NEW t \in Tasks, u \in ThingsOf(t) PROVE Judges(u) = t
  BY <1>4, <1>5 DEF Tasks
<1>6. "kernel" \notin ThingsOf("before") /\ "kernel" \notin ThingsOf("after") BY DEF ThingsOf
<1>7. ASSUME NEW t \in Tasks, NEW x \in ThingsOf(t) PROVE x # "boot" /\ x # "managers"
  BY <1>7, HealthFacts DEF ThingsOf, Tasks
<1>8. ASSUME NEW t \in Tasks, "units" \in ThingsOf(t) \/ "processes" \in ThingsOf(t)
      PROVE  t = "managers"
  BY <1>8 DEF ThingsOf, Tasks
<1> QED BY <1>1, <1>2, <1>3, <1>4, <1>5, <1>6, <1>7, <1>8

LEMMA TypeFacts ==
  ASSUME Grounded
  PROVE  /\ onBoot \in Nat /\ events \in Nat /\ task \in Observations
         /\ task.boot \in Nat /\ \A u \in Users : task.running[u] \in Nat /\ manager[u] \in Nat
         /\ \A t \in Tasks : /\ reports[t] \in Observations /\ reports[t].boot \in Nat
                             /\ reports[t].running \in [Users -> Pids]
         /\ task.running \in [Users -> Pids]
         /\ todo # <<>> => Head(todo) \in Tasks /\ Head(todo) = todo[1]
<1>1. MaxEvents \in Nat BY HealthFacts
<1>2. todo # <<>> => Head(todo) \in Tasks /\ Head(todo) = todo[1]
  BY DEF Grounded, HealthTypeOK
<1>3. \A o \in Observations : /\ o.boot \in BootNumbers /\ o.running \in [Users -> Pids]
                              /\ \A u \in Users : o.running[u] \in Pids
  BY DEF Observations
<1>4. BootNumbers \subseteq Nat /\ Pids \subseteq Nat BY <1>1 DEF BootNumbers, Pids
<1>5. /\ onBoot \in BootNumbers /\ events \in 0 .. MaxEvents /\ task \in Observations
      /\ \A u \in Users : manager[u] \in Pids
      /\ \A t \in Tasks : reports[t] \in Observations
  BY DEF Grounded, HealthTypeOK
<1>8. events \in Nat BY <1>1, <1>5
<1>6. onBoot \in Nat /\ events \in Nat /\ \A u \in Users : manager[u] \in Nat
  BY <1>4, <1>5, <1>8, Zenon
<1>7. \A o \in Observations : o.boot \in Nat /\ \A u \in Users : o.running[u] \in Nat
  BY <1>3, <1>4
<1> QED BY <1>2, <1>3, <1>5, <1>6, <1>7

(***************************************************************************)
(* The programs that begin.                                                *)
(***************************************************************************)
LEMMA Ended ==
  ASSUME NEW t \in Tasks, NEW s \in Seq({1, 2} \X ThingsOf(t))
  PROVE  /\ Program(t, s \o TheEnd) /\ s \o TheEnd # <<>>
         /\ Len(s) \in Nat /\ Len(s \o TheEnd) = Len(s) + 1
         /\ \A i \in 1 .. Len(s) : (s \o TheEnd)[i] = s[i]
         /\ (s \o TheEnd)[Len(s) + 1] = <<3, "boot">>
<1> DEFINE T == Things \cup {"units", "processes", "boot"}
           rs == s \o TheEnd
<1>1. ThingsOf(t) \subseteq T BY DEF ThingsOf, Things, Gates, T
<1>2. TheEnd \in Seq({1, 2, 3} \X T) /\ Len(TheEnd) = 1 /\ TheEnd[1] = <<3, "boot">>
  BY DEF TheEnd
<1>3. s \in Seq({1, 2, 3} \X T)
  <2> HIDE DEF T
  <2>1. {1, 2} \X ThingsOf(t) \subseteq {1, 2, 3} \X T BY <1>1
  <2> QED BY <2>1
<1> HIDE DEF T
<1>4. /\ rs \in Seq({1, 2, 3} \X T) /\ Len(s) \in Nat /\ Len(rs) = Len(s) + 1
      /\ \A i \in 1 .. Len(s) : rs[i] = s[i]
      /\ rs[Len(s) + 1] = TheEnd[1]
  <2> DEFINE e == TheEnd
             E == {1, 2, 3} \X T
  <2>1. e \in Seq(E) /\ Len(e) = 1 /\ s \in Seq(E) BY <1>2, <1>3
  <2> HIDE DEF e, E
  <2>2. s \o e \in Seq(E) /\ Len(s) \in Nat /\ Len(s \o e) = Len(s) + 1
    <3>1. Len(s) \in Nat BY <2>1
    <3>2. s \o e \in Seq(E) /\ Len(s \o e) = Len(s) + Len(e) BY <2>1, ConcatProperties, Zenon
    <3> QED BY <2>1, <3>1, <3>2
  <2>3. \A i \in 1 .. Len(s) : (s \o e)[i] = s[i] BY <2>1, <2>2
  <2>4. (s \o e)[Len(s) + 1] = e[1]
    <3>1. Len(s) + 1 \in 1 .. Len(s \o e) /\ (Len(s) + 1) - Len(s) = 1 /\ ~ (Len(s) + 1 <= Len(s))
      BY <2>2
    <3> QED BY <2>1, <2>2, <3>1
  <2> QED BY <2>2, <2>3, <2>4 DEF e, E
<1>5. \A i \in 1 .. Len(s) : s[i] \in {1, 2} \X ThingsOf(t) OBVIOUS
<1>6. rs # <<>>
  <2>1. Len(rs) # 0 BY <1>4
  <2>2. Len(<<>>) = 0 OBVIOUS
  <2> QED BY <2>1, <2>2
<1> HIDE DEF rs
<1>7. \A i \in 1 .. Len(rs) :
        IF i = Len(rs) THEN rs[i] = <<3, "boot">> ELSE rs[i] \in {1, 2} \X ThingsOf(t)
  <2> TAKE i \in 1 .. Len(rs)
  <2>1. i # Len(rs) => i \in 1 .. Len(s) BY <1>4
  <2> QED BY <1>2, <1>4, <1>5, <2>1
<1>8. Program(t, rs) BY <1>4, <1>7 DEF Program, T
<1> QED BY <1>2, <1>4, <1>6, <1>8 DEF rs

LEMMA BeginsWell ==
  ASSUME NEW t \in Tasks, NEW named
  PROVE  LET rs == ReadsOf(t) \o TheEnd
         IN /\ Program(t, rs) /\ rs # <<>>
            /\ t = "managers" => Ordered(rs) /\ Covers(rs, named) /\ rs[1][1] = 1
<1> DEFINE rs == ReadsOf(t) \o TheEnd
<1>1. CASE t \in {"before", "after"}
  <2>1. ReadsOf(t) = BootReads /\ ThingsOf(t) = {"mounts", "storage"} BY <1>1 DEF ReadsOf, ThingsOf
  <2>2. BootReads \in Seq({1, 2} \X {"mounts", "storage"}) BY DEF BootReads
  <2> QED BY <1>1, <2>1, <2>2, Ended
<1>2. CASE t = "network"
  <2>1. ReadsOf(t) = NetworkReads /\ ThingsOf(t) = {"network", "answer"}
    BY <1>2 DEF ReadsOf, ThingsOf
  <2>2. NetworkReads \in Seq({1, 2} \X {"network", "answer"}) BY DEF NetworkReads
  <2> QED BY <1>2, <2>1, <2>2, Ended
<1>3. CASE t = "managers"
  <2>1. ReadsOf(t) = ManagerReads /\ {"system", "units", "processes"} \subseteq ThingsOf(t)
    BY <1>3 DEF ReadsOf, ThingsOf
  <2>2. /\ ManagerReads \in Seq({1, 2} \X {"system", "units", "processes"})
        /\ Len(ManagerReads) = 6
        /\ ManagerReads[1] = <<1, "system">> /\ ManagerReads[2] = <<1, "units">>
        /\ ManagerReads[3] = <<1, "processes">> /\ ManagerReads[4] = <<2, "units">>
        /\ ManagerReads[5] = <<2, "processes">> /\ ManagerReads[6] = <<2, "system">>
    BY DEF ManagerReads
  <2> HIDE DEF rs
  <2>3. ManagerReads \in Seq({1, 2} \X ThingsOf(t))
    <3>1. {1, 2} \X {"system", "units", "processes"} \subseteq {1, 2} \X ThingsOf(t) BY <2>1
    <3> QED BY <2>2, <3>1
  <2>4. /\ Program(t, rs) /\ rs # <<>> /\ Len(rs) = 7
        /\ \A i \in 1 .. 6 : rs[i] = ManagerReads[i]
        /\ rs[7] = <<3, "boot">>
    <3>1. /\ Program(t, ManagerReads \o TheEnd) /\ ManagerReads \o TheEnd # <<>>
          /\ Len(ManagerReads \o TheEnd) = Len(ManagerReads) + 1
          /\ \A i \in 1 .. Len(ManagerReads) : (ManagerReads \o TheEnd)[i] = ManagerReads[i]
          /\ (ManagerReads \o TheEnd)[Len(ManagerReads) + 1] = <<3, "boot">>
      BY <2>3, Ended
    <3>2. rs = ManagerReads \o TheEnd BY <2>1 DEF rs
    <3>3. Len(ManagerReads) = 6 /\ 6 + 1 = 7 BY <2>2
    <3> QED BY <3>1, <3>2, <3>3
  <2>5. /\ rs[1] = <<1, "system">> /\ rs[2] = <<1, "units">> /\ rs[3] = <<1, "processes">>
        /\ rs[4] = <<2, "units">> /\ rs[5] = <<2, "processes">> /\ rs[6] = <<2, "system">>
    BY <2>2, <2>4
  <2>6. /\ rs[1][1] = 1 /\ rs[2][1] = 1 /\ rs[3][1] = 1
        /\ rs[4][1] = 2 /\ rs[5][1] = 2 /\ rs[6][1] = 2 /\ rs[7][1] = 3
    BY <2>4, <2>5
  <2>7. \A i \in 1 .. Len(rs) : i = 1 \/ i = 2 \/ i = 3 \/ i = 4 \/ i = 5 \/ i = 6 \/ i = 7
    BY <2>4
  <2>8. \A i, j \in 1 .. Len(rs) : i < j => rs[i][1] <= rs[j][1] BY <2>6, <2>7
  <2>9. \A i, j \in 1 .. Len(rs) : i < j /\ rs[i] = <<1, "processes">> => rs[j][1] >= 2
    <3> TAKE i, j \in 1 .. Len(rs)
    <3>1. rs[i] = <<1, "processes">> => i = 3 BY <2>4, <2>5, <2>7
    <3> QED BY <2>6, <2>7, <3>1
  <2>10. Ordered(rs) BY <2>4, <2>5, <2>8, <2>9 DEF Ordered
  <2>11. Covers(rs, named) BY <2>4, <2>5 DEF Covers, Occurs
  <2> QED BY <2>4, <2>6, <2>10, <2>11 DEF rs
<1> QED BY <1>1, <1>2, <1>3 DEF Tasks

\* What is left when the inventory is given up.
LEMMA GivesUpWell ==
  ASSUME NEW named
  PROVE  LET rs == << <<2, "system">> >> \o TheEnd
         IN /\ Program("managers", rs) /\ rs # <<>> /\ Ordered(rs) /\ Covers(rs, named)
            /\ rs[1][1] = 2 /\ Occurs(rs, <<2, "system">>)
            /\ ~ Occurs(rs, <<2, "processes">>)
<1> DEFINE s == << <<2, "system">> >>
           rs == s \o TheEnd
<1>1. "managers" \in Tasks /\ "system" \in ThingsOf("managers") BY DEF Tasks, ThingsOf
<1>2. s \in Seq({1, 2} \X ThingsOf("managers")) /\ Len(s) = 1 /\ s[1] = <<2, "system">> BY <1>1
<1> HIDE DEF s
<1>3. /\ Program("managers", rs) /\ rs # <<>> /\ Len(rs) = 2
      /\ rs[1] = <<2, "system">> /\ rs[2] = <<3, "boot">>
  <2>1. /\ Program("managers", rs) /\ rs # <<>> /\ Len(rs) = Len(s) + 1
        /\ \A i \in 1 .. Len(s) : rs[i] = s[i]
        /\ rs[Len(s) + 1] = <<3, "boot">>
    BY <1>1, <1>2, Ended
  <2>2. Len(s) = 1 /\ 1 + 1 = 2 /\ 1 \in 1 .. 1 BY <1>2
  <2> HIDE DEF rs
  <2> QED BY <1>2, <2>1, <2>2
<1> HIDE DEF rs
<1>4. \A i \in 1 .. Len(rs) : i = 1 \/ i = 2 BY <1>3
<1>5. Ordered(rs) BY <1>3, <1>4 DEF Ordered
<1>6. rs[1][1] = 2 /\ Covers(rs, named) BY <1>3 DEF Covers
<1>7. Occurs(rs, <<2, "system">>) /\ ~ Occurs(rs, <<2, "processes">>)
  BY <1>3, <1>4 DEF Occurs
<1> QED BY <1>3, <1>5, <1>6, <1>7 DEF rs, s

LEMMA ConcatThree ==
  ASSUME NEW E, NEW a \in Seq(E), NEW b \in Seq(E), NEW c \in Seq(E)
  PROVE  /\ a \o b \o c \in Seq(E)
         /\ Len(a) \in Nat /\ Len(b) \in Nat /\ Len(c) \in Nat
         /\ Len(a \o b \o c) = Len(a) + Len(b) + Len(c)
         /\ \A i \in 1 .. Len(a) : (a \o b \o c)[i] = a[i]
         /\ \A i \in 1 .. Len(b) : (a \o b \o c)[Len(a) + i] = b[i]
         /\ \A i \in 1 .. Len(c) : (a \o b \o c)[Len(a) + Len(b) + i] = c[i]
<1> DEFINE d == a \o b
           rs == d \o c
<1>1. Len(a) \in Nat /\ Len(b) \in Nat /\ Len(c) \in Nat OBVIOUS
<1>2. /\ d \in Seq(E) /\ Len(d) = Len(a) + Len(b)
      /\ \A i \in 1 .. Len(a) + Len(b) : d[i] = IF i <= Len(a) THEN a[i] ELSE b[i - Len(a)]
  BY ConcatProperties, Zenon
<1> HIDE DEF d
<1>3. /\ rs \in Seq(E) /\ Len(rs) = Len(d) + Len(c)
      /\ \A i \in 1 .. Len(d) + Len(c) : rs[i] = IF i <= Len(d) THEN d[i] ELSE c[i - Len(d)]
  <2>1. d \in Seq(E) BY <1>2
  <2>2. \A x \in Seq(E) : /\ x \o c \in Seq(E) /\ Len(x \o c) = Len(x) + Len(c)
          /\ \A i \in 1 .. Len(x) + Len(c) : (x \o c)[i] = IF i <= Len(x) THEN x[i] ELSE c[i - Len(x)]
    BY ConcatProperties, Zenon
  <2> QED BY <2>1, <2>2
<1> HIDE DEF rs
<1>4. \A i \in 1 .. Len(a) : rs[i] = a[i]
  <2> TAKE i \in 1 .. Len(a)
  <2>1. i \in 1 .. Len(a) + Len(b) /\ i \in 1 .. Len(d) + Len(c) /\ i <= Len(d) /\ i <= Len(a)
    BY <1>1, <1>2
  <2>2. d[i] = a[i] BY <1>2, <2>1
  <2> QED BY <1>3, <2>1, <2>2
<1>5. \A i \in 1 .. Len(b) : rs[Len(a) + i] = b[i]
  <2> TAKE i \in 1 .. Len(b)
  <2> DEFINE k == Len(a) + i
  <2>1. /\ k \in 1 .. Len(a) + Len(b) /\ k \in 1 .. Len(d) + Len(c) /\ k <= Len(d)
        /\ ~ (k <= Len(a)) /\ k - Len(a) = i
    BY <1>1, <1>2
  <2> HIDE DEF k
  <2>2. d[k] = b[i] BY <1>2, <2>1
  <2>3. rs[k] = b[i] BY <1>3, <2>1, <2>2
  <2> QED BY <2>3 DEF k
<1>6. \A i \in 1 .. Len(c) : rs[Len(a) + Len(b) + i] = c[i]
  <2> TAKE i \in 1 .. Len(c)
  <2> DEFINE k == Len(a) + Len(b) + i
  <2>1. /\ k \in 1 .. Len(d) + Len(c) /\ ~ (k <= Len(d)) /\ k - Len(d) = i
    BY <1>1, <1>2
  <2> HIDE DEF k
  <2>2. rs[k] = c[i] BY <1>3, <2>1
  <2> QED BY <2>2 DEF k
<1>7. Len(rs) = Len(a) + Len(b) + Len(c) BY <1>1, <1>2, <1>3
<1> QED BY <1>1, <1>3, <1>4, <1>5, <1>6, <1>7 DEF rs, d

\* With the inventory read, all of it is asked twice; then come the processes.
LEMMA AsksWell ==
  ASSUME Grounded, Reading(1, "processes")
  PROVE  LET rs == Asked(1) \o Asked(2) \o Tail(reads)
         IN /\ Head(todo) = "managers" /\ Program("managers", rs) /\ rs # <<>>
            /\ Ordered(rs) /\ Covers(rs, Named)
            /\ rs[1][1] # 3 /\ Occurs(rs, <<2, "processes">>)
            /\ \A u \in Named : Occurs(rs, <<2, u>>)
<1> DEFINE T == Things \cup {"units", "processes", "boot"}
           E == {1, 2, 3} \X T
           a == Asked(1)
           b == Asked(2)
           c == Tail(reads)
           rs == a \o b \o c
<1>1. /\ todo # <<>> /\ reads # <<>> /\ reads[1] = <<1, "processes">> /\ Program(Head(todo), reads)
      /\ "processes" \in ThingsOf(Head(todo)) /\ c # <<>> /\ Len(reads) >= 2
      /\ Program(Head(todo), c)
      /\ Head(todo) = "managers" => Ordered(reads) /\ Ordered(c)
  BY ReadingFacts
<1>2. Head(todo) = "managers" BY <1>1, TypeFacts, ThingFacts
<1>3. /\ Len(reads) \in Nat \ {0} /\ Len(c) = Len(reads) - 1 /\ c \in Seq(E)
      /\ \A i \in 1 .. Len(c) : c[i] = reads[i + 1] /\ i + 1 \in 1 .. Len(reads)
  BY <1>1, ProgramGoesOn
<1>4. Len(reads) >= 4
  <2>1. Len(reads) # 2
    <3> SUFFICES ASSUME Len(reads) = 2 PROVE FALSE OBVIOUS
    <3>1. reads[1] = <<2, "system">> BY <1>1, <1>2 DEF Ordered
    <3> QED BY <1>1, <3>1
  <2>2. Len(reads) # 3
    <3> SUFFICES ASSUME Len(reads) = 3 PROVE FALSE OBVIOUS
    <3>1. reads[1] = <<2, "processes">> BY <1>1, <1>2 DEF Ordered
    <3> QED BY <1>1, <3>1
  <2>3. \A n \in Nat : n >= 2 /\ n # 2 /\ n # 3 => n >= 4 OBVIOUS
  <2> QED BY <1>1, <1>3, <2>1, <2>2, <2>3
<1>5. \A i \in 1 .. Len(c) : c[i][1] >= 2
  <2> TAKE i \in 1 .. Len(c)
  <2>1. /\ 1 \in 1 .. Len(reads) /\ i + 1 \in 1 .. Len(reads) /\ 1 < i + 1 /\ c[i] = reads[i + 1]
    BY <1>3
  <2> QED BY <1>1, <1>2, <2>1 DEF Ordered
<1>6. /\ a \in Seq({1} \X Users) /\ b \in Seq({2} \X Users)
      /\ \A u \in Named : Occurs(b, <<2, u>>)
  BY AskedFacts
<1>7. {1} \X Users \subseteq E /\ {2} \X Users \subseteq E
      /\ {1} \X Users \subseteq {1, 2} \X ThingsOf("managers")
      /\ {2} \X Users \subseteq {1, 2} \X ThingsOf("managers")
  BY DEF Things, ThingsOf
<1>8. \A i \in 1 .. Len(c) : IF i = Len(c) THEN c[i] = <<3, "boot">>
                             ELSE c[i] \in {1, 2} \X ThingsOf("managers")
  BY <1>1, <1>2 DEF Program
<1>9. Program("managers", reads) /\ Ordered(c) BY <1>1, <1>2
<1> HIDE DEF E, a, b, c
<1>10. a \in Seq(E) /\ b \in Seq(E) BY <1>6, <1>7
<1> DEFINE p == Len(a)
           q == Len(b)
           n == Len(c)
<1>11. /\ rs \in Seq(E) /\ p \in Nat /\ q \in Nat /\ n \in Nat /\ Len(rs) = p + q + n
       /\ \A i \in 1 .. p : rs[i] = a[i]
       /\ \A i \in 1 .. q : rs[p + i] = b[i]
       /\ \A i \in 1 .. n : rs[p + q + i] = c[i]
  <2>1. c \in Seq(E) BY <1>3
  <2> HIDE DEF rs
  <2>2. a \in Seq(E) /\ b \in Seq(E) BY <1>10
  <2>3. /\ a \o b \o c \in Seq(E) /\ Len(a) \in Nat /\ Len(b) \in Nat /\ Len(c) \in Nat
        /\ Len(a \o b \o c) = Len(a) + Len(b) + Len(c)
        /\ \A i \in 1 .. Len(a) : (a \o b \o c)[i] = a[i]
        /\ \A i \in 1 .. Len(b) : (a \o b \o c)[Len(a) + i] = b[i]
        /\ \A i \in 1 .. Len(c) : (a \o b \o c)[Len(a) + Len(b) + i] = c[i]
    BY <2>1, <2>2, ConcatThree
  <2> QED BY <2>3 DEF rs
<1>12. n >= 3
  <2>1. \A x \in Nat : \A y \in Nat : x >= 4 /\ y = x - 1 => y >= 3 OBVIOUS
  <2> QED BY <1>3, <1>4, <1>11, <2>1
<1>13. /\ \A i \in 1 .. p : a[i] \in {1} \X Users
       /\ \A i \in 1 .. q : b[i] \in {2} \X Users
  BY <1>6
<1> HIDE DEF rs
<1> DEFINE FirstPart(i) == i <= p /\ rs[i] \in {1} \X Users
           SecondPart(i) == i > p /\ i <= p + q /\ rs[i] \in {2} \X Users
           LastPart(i) == i > p + q /\ i - (p + q) \in 1 .. n /\ rs[i] = c[i - (p + q)]
<1>14. \A i \in 1 .. Len(rs) : FirstPart(i) \/ SecondPart(i) \/ LastPart(i)
  <2> TAKE i \in 1 .. Len(rs)
  <2>1. CASE i <= p
    <3>1. i \in 1 .. p BY <2>1, <1>11
    <3> QED BY <1>11, <1>13, <2>1, <3>1
  <2>2. CASE i > p /\ i <= p + q
    <3>1. i - p \in 1 .. q /\ p + (i - p) = i BY <2>2, <1>11
    <3>2. rs[i] = b[i - p] BY <1>11, <3>1
    <3> QED BY <1>13, <2>2, <3>1, <3>2
  <2>3. CASE i > p + q
    <3>1. i - (p + q) \in 1 .. n /\ p + q + (i - (p + q)) = i BY <2>3, <1>11
    <3>2. rs[i] = c[i - (p + q)] BY <1>11, <3>1
    <3> QED BY <2>3, <3>1, <3>2
  <2> QED BY <1>11, <2>1, <2>2, <2>3
<1>15. \A i \in 1 .. Len(rs) : /\ FirstPart(i) => rs[i][1] = 1 /\ rs[i][2] \in Users
                               /\ SecondPart(i) => rs[i][1] = 2 /\ rs[i][2] \in Users
                               /\ LastPart(i) => rs[i][1] >= 2
  <2> TAKE i \in 1 .. Len(rs)
  <2>1. FirstPart(i) => rs[i][1] = 1 /\ rs[i][2] \in Users OBVIOUS
  <2>2. SecondPart(i) => rs[i][1] = 2 /\ rs[i][2] \in Users OBVIOUS
  <2>3. LastPart(i) => rs[i][1] >= 2 BY <1>5
  <2> QED BY <2>1, <2>2, <2>3
<1>16. Program("managers", rs)
  <2>1. \A i \in 1 .. Len(rs) :
          IF i = Len(rs) THEN rs[i] = <<3, "boot">> ELSE rs[i] \in {1, 2} \X ThingsOf("managers")
    <3> TAKE i \in 1 .. Len(rs)
    <3>1. CASE FirstPart(i)
      <4>1. i # Len(rs) BY <3>1, <1>11, <1>12
      <4> QED BY <1>7, <3>1, <4>1
    <3>2. CASE SecondPart(i)
      <4>1. i # Len(rs) BY <3>2, <1>11, <1>12
      <4> QED BY <1>7, <3>2, <4>1
    <3>3. CASE LastPart(i)
      <4>1. i = Len(rs) <=> i - (p + q) = n BY <1>11, <3>3
      <4> QED BY <1>8, <3>3, <4>1
    <3> QED BY <1>14, <3>1, <3>2, <3>3
  <2> QED BY <1>11, <2>1 DEF Program, E
<1>17. Ordered(rs)
  <2>1. rs[Len(rs) - 1] = <<2, "system">> /\ rs[Len(rs) - 2] = <<2, "processes">>
    <3>1. /\ n - 1 \in 1 .. n /\ p + q + (n - 1) = Len(rs) - 1
          /\ n - 2 \in 1 .. n /\ p + q + (n - 2) = Len(rs) - 2
      BY <1>11, <1>12
    <3>2. c[n - 1] = <<2, "system">> /\ c[n - 2] = <<2, "processes">> BY <1>9, <1>11, <1>12 DEF Ordered
    <3> QED BY <1>11, <3>1, <3>2
  <2>2. ASSUME NEW i \in 1 .. Len(rs), NEW j \in 1 .. Len(rs), i < j PROVE rs[i][1] <= rs[j][1]
    <3>1. CASE FirstPart(i)
      <4>1. rs[i][1] = 1 /\ rs[j][1] >= 1
        <5>1. rs[j][1] = 1 \/ rs[j][1] = 2 \/ rs[j][1] >= 2 BY <1>14, <1>15
        <5>2. rs[j] \in E BY <1>11
        <5>3. rs[j][1] \in {1, 2, 3} BY <5>2 DEF E
        <5> QED BY <1>15, <3>1, <5>1, <5>3
      <4> QED BY <4>1
    <3>2. CASE SecondPart(i)
      <4>1. ~ FirstPart(j) BY <2>2, <3>2, <1>11
      <4>2. rs[j][1] >= 2 BY <1>14, <1>15, <4>1
      <4> QED BY <1>15, <3>2, <4>2
    <3>3. CASE LastPart(i)
      <4>1. LastPart(j)
        <5>1. ~ FirstPart(j) /\ ~ SecondPart(j) BY <2>2, <3>3, <1>11
        <5> QED BY <1>14, <5>1
      <4>2. i - (p + q) < j - (p + q) BY <2>2, <3>3, <4>1, <1>11
      <4> QED BY <1>9, <3>3, <4>1, <4>2 DEF Ordered
    <3> QED BY <1>14, <3>1, <3>2, <3>3
  <2>3. \A i \in 1 .. Len(rs) : rs[i] # <<1, "processes">> /\ rs[i] # <<1, "units">>
    <3> TAKE i \in 1 .. Len(rs)
    <3>1. FirstPart(i) => rs[i][2] # "processes" /\ rs[i][2] # "units" BY <1>15, HealthFacts
    <3>2. ~ FirstPart(i) => rs[i][1] # 1
      <4>1. rs[i][1] = 2 \/ rs[i][1] >= 2 \/ FirstPart(i) BY <1>14, <1>15
      <4> QED BY <4>1
    <3> QED BY <3>1, <3>2
  <2> QED BY <2>1, <2>2, <2>3 DEF Ordered
<1>20. \A u \in Named : Occurs(rs, <<2, u>>)
  <2> TAKE u \in Named
  <2>1. PICK i \in 1 .. q : b[i] = <<2, u>> BY <1>6 DEF Occurs
  <2>2. p + i \in 1 .. Len(rs) /\ rs[p + i] = <<2, u>> BY <1>11, <2>1
  <2> QED BY <2>2 DEF Occurs
<1>18. Covers(rs, Named)
  <2>1. \A i \in 1 .. Len(rs) : rs[i] # <<1, "processes">> /\ rs[i] # <<1, "units">>
    <3> TAKE i \in 1 .. Len(rs)
    <3>1. FirstPart(i) => rs[i][2] # "processes" /\ rs[i][2] # "units" BY <1>15, HealthFacts
    <3>2. ~ FirstPart(i) => rs[i][1] # 1
      <4>1. rs[i][1] = 2 \/ rs[i][1] >= 2 \/ FirstPart(i) BY <1>14, <1>15
      <4> QED BY <4>1
    <3> QED BY <3>1, <3>2
  <2> QED BY <1>20, <2>1 DEF Covers, Occurs
<1>19. rs # <<>>
  <2>1. Len(rs) # 0 BY <1>11, <1>12
  <2>2. Len(<<>>) = 0 OBVIOUS
  <2> QED BY <2>1, <2>2
<1>21. Occurs(rs, <<2, "processes">>)
  <2>1. Len(rs) - 2 \in 1 .. Len(rs) /\ Len(rs) >= 3 BY <1>11, <1>12
  <2>2. rs[Len(rs) - 2] = <<2, "processes">> BY <1>17, <2>1 DEF Ordered
  <2> QED BY <2>1, <2>2 DEF Occurs
<1>22. rs[1][1] # 3
  <2>1. Len(rs) # 1 BY <1>11, <1>12
  <2> QED BY <1>16, <1>19, <2>1, ProgramGoesOn
<1> QED BY <1>2, <1>16, <1>17, <1>18, <1>19, <1>20, <1>21, <1>22 DEF rs, a, b, c

(***************************************************************************)
(* What every step keeps.                                                  *)
(***************************************************************************)
LEMMA GroundedStart == HealthInit => Grounded
<1> SUFFICES ASSUME HealthInit PROVE Grounded OBVIOUS
<1>7. todo = IF endpoints THEN <<"before", "managers", "network", "after">>
             ELSE <<"before", "managers", "after">>
  BY DEF HealthInit
<1>1. todo \in Plans /\ todo \in Seq(Tasks)
  <2>1. todo \in Plans /\ todo # <<>> BY <1>7 DEF Plans
  <2> QED BY <2>1, PlanFacts
<1> USE DEF HealthInit
<1>0. MaxEvents \in Nat BY HealthFacts
<1>2. task = Unread /\ task \in Observations /\ reports \in [Tasks -> Observations]
      /\ \A t \in Tasks : reports[t] = Unread
  BY UnreadFacts
<1>3. HealthTypeOK BY <1>0, <1>1, <1>2 DEF HealthTypeOK, BootNumbers, Pids
<1>4. PlanOK BY <1>1 DEF PlanOK
<1>5. ProgramOK BY DEF ProgramOK
<1>6. BootsOK
  <2>1. "managers" \in Tasks BY DEF Tasks
  <2>2. task.boot = 0 /\ reports["managers"].boot = 0 /\ \A u \in Users : task.running[u] = 0
    BY <1>2, <2>1, UnreadFacts
  <2> QED BY <2>2 DEF BootsOK
<1> QED BY <1>3, <1>4, <1>5, <1>6 DEF Grounded

\* Steps within the running task.
LEMMA ReadGrounded ==
  ASSUME Grounded, NEW r \in {1, 2}, NEW x \in Gates \cup Users, NEW v \in Verdicts,
         ReadStep(r, x, v), sound' \in SUBSET BootNumbers
  PROVE  Grounded'
<1>0. Reading(r, x) BY DEF ReadStep
<1>1. /\ outcome = "open" /\ reads # <<>> /\ todo # <<>> /\ reads[1] = <<r, x>>
      /\ Program(Head(todo), Tail(reads)) /\ Tail(reads) # <<>>
      /\ Program(Head(todo), reads)
      /\ Head(todo) = "managers" => Ordered(reads) /\ Covers(reads, Named) /\ Ordered(Tail(reads))
  BY <1>0, ReadingFacts
<1>2. x \in Things BY ThingFacts
<1>3. task' \in Observations /\ task'.boot = task.boot /\ task'.running = task.running
  BY <1>2, SeenFacts, TypeFacts DEF ReadStep
<1>4. /\ onBoot' = onBoot /\ bad' = bad /\ manager' = manager /\ endpoints' = endpoints
      /\ todo' = todo /\ reports' = reports /\ outcome' = outcome /\ retained' = retained
      /\ reads' = Tail(reads)
  BY DEF ReadStep, Stays, Step
<1>5. events' \in 0 .. MaxEvents /\ events <= events'
  BY HealthFacts DEF ReadStep, EventsCounted, Grounded, HealthTypeOK
<1>6. HealthTypeOK' BY <1>3, <1>4, <1>5 DEF Grounded, HealthTypeOK
<1>7. PlanOK' BY <1>1, <1>4 DEF Grounded, PlanOK, Plans
<1>8. ProgramOK'
  <2>1. Named' = Named BY <1>3 DEF Named
  <2>2. ASSUME Head(todo) = "managers" PROVE Covers(Tail(reads), Named)
    <3>1. x # "processes" BY HealthFacts DEF Gates
    <3>2. reads[1][1] # 3 /\ reads[1] # <<1, "processes">> BY <1>1, <3>1
    <3> QED BY <1>1, <2>2, <3>2, TailCovers
  <2> QED BY <1>1, <1>4, <2>1, <2>2 DEF ProgramOK
<1>9. BootsOK'
  <2>1. events' + 1 >= events + 1 BY <1>5, TypeFacts, HealthFacts
  <2>2. /\ \A u \in Users : manager[u] \in Nat /\ task.running[u] \in Nat
        /\ onBoot \in Nat /\ events' \in Nat /\ events \in Nat
    BY <1>5, TypeFacts, HealthFacts
  <2> QED BY <1>3, <1>4, <2>1, <2>2 DEF Grounded, BootsOK
<1> QED BY <1>6, <1>7, <1>8, <1>9 DEF Grounded

LEMMA UnitsGrounded ==
  ASSUME Grounded, FirstUnits \/ SecondUnits \/ SecondProcesses, sound' \in SUBSET BootNumbers
  PROVE  Grounded'
<1> DEFINE Of(r, x) == \/ r = 1 /\ x = "units" /\ FirstUnits
                       \/ r = 2 /\ x = "units" /\ SecondUnits
                       \/ r = 2 /\ x = "processes" /\ SecondProcesses
<1>0. PICK r \in {1, 2}, x \in {"units", "processes"} : Reading(r, x) /\ Of(r, x)
  BY DEF FirstUnits, SecondUnits, SecondProcesses
<1>1. /\ outcome = "open" /\ reads # <<>> /\ todo # <<>> /\ reads[1] = <<r, x>>
      /\ Program(Head(todo), Tail(reads)) /\ Tail(reads) # <<>>
      /\ Program(Head(todo), reads) /\ x \in ThingsOf(Head(todo))
      /\ Head(todo) = "managers" => Ordered(reads) /\ Covers(reads, Named) /\ Ordered(Tail(reads))
  BY <1>0, ReadingFacts
<1>2. "managers" \in Things /\ "clean" \in Verdicts BY DEF Things, Verdicts
<1>10. [u \in Users |-> IF u \in Listed THEN 1 ELSE 0] \in [Users -> Pids]
  BY HealthFacts DEF Pids
<1>3. task' \in Observations /\ task'.boot = task.boot
      /\ (task'.running = task.running
            \/ (FirstUnits /\ task'.running = [u \in Users |-> IF u \in Listed THEN 1 ELSE 0]))
  <2>1. CASE FirstUnits BY <2>1, <1>10, RunningFacts, TypeFacts DEF FirstUnits
  <2>2. CASE SecondUnits BY <2>2, TypeFacts DEF SecondUnits
  <2>3. CASE SecondProcesses BY <2>3, <1>2, SeenFacts, TypeFacts DEF SecondProcesses
  <2> QED BY <2>1, <2>2, <2>3
<1>4. /\ onBoot' = onBoot /\ bad' = bad /\ manager' = manager /\ endpoints' = endpoints
      /\ todo' = todo /\ reports' = reports /\ outcome' = outcome /\ retained' = retained
      /\ reads' = Tail(reads) /\ events' = events
  BY DEF FirstUnits, SecondUnits, SecondProcesses, Other, host, Step
<1>6. HealthTypeOK' BY <1>3, <1>4 DEF Grounded, HealthTypeOK
<1>7. PlanOK' BY <1>1, <1>4 DEF Grounded, PlanOK, Plans
<1>8. ProgramOK'
  <2>1. Named' = Named \/ reads[1] = <<1, "units">>
    <3>1. CASE FirstUnits
      <4>1. Reading(1, "units") BY <3>1 DEF FirstUnits
      <4> QED BY <4>1, ReadingFacts
    <3>2. CASE ~ FirstUnits BY <1>3, <3>2 DEF Named
    <3> QED BY <3>1, <3>2
  <2>2. ASSUME Head(todo) = "managers" PROVE Covers(Tail(reads), Named')
    <3>1. <<r, x>> # <<1, "processes">>
      <4>1. r = 1 => x = "units" BY <1>0
      <4> QED BY <4>1
    <3>2. reads[1][1] # 3 /\ reads[1] # <<1, "processes">> BY <1>1, <3>1
    <3> HIDE DEF Of
    <3> QED BY <1>1, <2>1, <2>2, <3>2, TailCovers
  <2>3. Program(Head(todo)', reads') BY <1>1, <1>4
  <2>4. Head(todo)' = Head(todo) /\ reads' = Tail(reads) BY <1>4
  <2>5. Head(todo)' = "managers" => Ordered(reads') /\ Covers(reads', Named')
    BY <1>1, <2>2, <2>4
  <2> QED BY <2>3, <2>5 DEF ProgramOK
<1>9. BootsOK'
  <2>1. \A u \in Users : task'.running[u] <= events + 1
    <3>1. \A u \in Users : task.running[u] <= events + 1 BY DEF Grounded, BootsOK
    <3>2. 0 <= events + 1 /\ 1 <= events + 1 BY TypeFacts
    <3> QED BY <1>3, <3>1, <3>2
  <2> QED BY <1>3, <1>4, <2>1 DEF Grounded, BootsOK
<1> QED BY <1>6, <1>7, <1>8, <1>9 DEF Grounded

LEMMA OpenGrounded ==
  ASSUME Grounded, Open, sound' \in SUBSET BootNumbers
  PROVE  Grounded'
<1>1. outcome = "open" /\ reads = <<>> /\ todo # <<>> /\ Head(todo) \in Tasks
  BY TypeFacts DEF Open
<1>2. /\ onBoot' = onBoot /\ bad' = bad /\ manager' = manager /\ endpoints' = endpoints
      /\ todo' = todo /\ reports' = reports /\ outcome' = outcome /\ retained' = retained
      /\ events' = events /\ reads' = ReadsOf(Head(todo)) \o TheEnd
  BY DEF Open, Other, host
<1>3. /\ task' \in Observations /\ task'.boot = onBoot /\ \A u \in Users : task'.running[u] = 0
  <2>1. onBoot \in BootNumbers BY DEF Grounded, HealthTypeOK
  <2> DEFINE v == IF "kernel" \in bad THEN "failed" ELSE "clean"
  <2>2. v \in Verdicts BY DEF Verdicts
  <2>3. task' = Opened(onBoot, v) BY DEF Open, Opened
  <2> HIDE DEF v
  <2> QED BY <2>1, <2>2, <2>3, OpenFacts
<1>4. HealthTypeOK' BY <1>2, <1>3 DEF Grounded, HealthTypeOK
<1>5. PlanOK' BY <1>1, <1>2 DEF Grounded, PlanOK, Plans
<1>6. ProgramOK'
  <2>1. /\ Program(Head(todo), reads')
        /\ Head(todo) = "managers" => Ordered(reads') /\ Covers(reads', Named')
    BY <1>1, <1>2, BeginsWell
  <2>2. Head(todo)' = Head(todo) BY <1>2
  <2> QED BY <2>1, <2>2 DEF ProgramOK
<1>7. BootsOK'
  <2>1. 0 <= events + 1 /\ onBoot <= onBoot BY TypeFacts
  <2> QED BY <1>2, <1>3, <2>1 DEF Grounded, BootsOK
<1> QED BY <1>4, <1>5, <1>6, <1>7 DEF Grounded

LEMMA EndFacts ==
  ASSUME Grounded, Reading(3, "boot")
  PROVE  /\ outcome = "open" /\ reads # <<>> /\ todo # <<>> /\ Head(todo) \in Tasks
         /\ Len(reads) = 1 /\ reads[1] = <<3, "boot">>
         /\ \A r \in {1, 2} : \A x : ~ Occurs(reads, <<r, x>>)
<1>1. outcome = "open" /\ reads # <<>> /\ Head(reads) = <<3, "boot">> BY DEF Reading
<1>2. todo # <<>> BY <1>1 DEF Grounded, PlanOK
<1>3. Program(Head(todo), reads) BY <1>1 DEF Grounded, ProgramOK
<1>4. reads[1] = <<3, "boot">> /\ Len(reads) = 1
  <2>1. reads[1] = <<3, "boot">> BY <1>1, <1>3, ProgramGoesOn
  <2>2. reads[1][1] = 3 BY <2>1
  <2> QED BY <1>1, <1>3, <2>1, <2>2, ProgramGoesOn
<1>5. \A i \in 1 .. Len(reads) : i = 1 BY <1>4
<1>6. \A r \in {1, 2} : \A x : ~ Occurs(reads, <<r, x>>) BY <1>4, <1>5 DEF Occurs
<1> QED BY <1>1, <1>2, <1>4, <1>6, TypeFacts

LEMMA ReportGrounded ==
  ASSUME Grounded, ReportTask, sound' \in SUBSET BootNumbers
  PROVE  Grounded'
<1>1. /\ outcome = "open" /\ reads # <<>> /\ todo # <<>> /\ Head(todo) \in Tasks
  BY EndFacts DEF ReportTask
<1>2. /\ onBoot' = onBoot /\ bad' = bad /\ manager' = manager /\ endpoints' = endpoints
      /\ outcome' = outcome /\ retained' = retained /\ events' = events
      /\ todo' = Tail(todo) /\ reads' = <<>> /\ task' = Unread
      /\ reports' = [reports EXCEPT ![Head(todo)] = task]
  BY DEF ReportTask, host
<1>3. todo \in Plans /\ reports \in [Tasks -> Observations] /\ task \in Observations
  BY DEF Grounded, PlanOK, HealthTypeOK
<1>4. Tail(todo) \in Plans /\ Tail(todo) \in Seq(Tasks)
  <2>1. Tail(todo) \in Plans BY <1>1, <1>3, PlanFacts
  <2>2. todo \in Seq(Tasks) BY DEF Grounded, HealthTypeOK
  <2> QED BY <1>1, <2>1, <2>2
<1>5. reports' \in [Tasks -> Observations] BY <1>2, <1>3
<1>6. HealthTypeOK' BY <1>2, <1>4, <1>5, UnreadFacts DEF Grounded, HealthTypeOK
<1>7. PlanOK'
  <2>1. todo' \in Plans' BY <1>2, <1>4 DEF Plans
  <2> QED BY <1>1, <1>2, <2>1 DEF Grounded, PlanOK
<1>8. ProgramOK' BY <1>2 DEF ProgramOK
<1>9. BootsOK'
  <2>1. "managers" \in Tasks BY DEF Tasks
  <2>2. reports'["managers"].boot <= onBoot
    <3>1. CASE Head(todo) = "managers"
      <4>1. reports'["managers"] = task BY <1>2, <1>3, <2>1, <3>1
      <4> QED BY <4>1 DEF Grounded, BootsOK
    <3>2. CASE Head(todo) # "managers"
      <4>1. reports'["managers"] = reports["managers"] BY <1>2, <1>3, <2>1, <3>2
      <4> QED BY <4>1 DEF Grounded, BootsOK
    <3> QED BY <3>1, <3>2
  <2>3. 0 <= events + 1 /\ 0 <= onBoot BY TypeFacts
  <2> QED BY <1>2, <2>2, <2>3, UnreadFacts DEF Grounded, BootsOK
<1> QED BY <1>6, <1>7, <1>8, <1>9 DEF Grounded

LEMMA ProcessesGrounded ==
  ASSUME Grounded, FirstProcesses, sound' \in SUBSET BootNumbers
  PROVE  Grounded'
<1>1. Reading(1, "processes") /\ Listed = Named BY DEF FirstProcesses
<1>2. outcome = "open" /\ reads # <<>> /\ todo # <<>> BY <1>1, ReadingFacts
<1>3. /\ onBoot' = onBoot /\ bad' = bad /\ manager' = manager /\ endpoints' = endpoints
      /\ todo' = todo /\ reports' = reports /\ outcome' = outcome /\ retained' = retained
      /\ events' = events /\ reads' = Asked(1) \o Asked(2) \o Tail(reads)
      /\ task' = [task EXCEPT !.running = manager]
  BY DEF FirstProcesses, Other, host
<1>4. task' \in Observations /\ task'.boot = task.boot /\ task'.running = manager
  <2>1. manager \in [Users -> Pids] BY DEF Grounded, HealthTypeOK
  <2> QED BY <1>3, <2>1, TypeFacts, RunningFacts
<1>5. HealthTypeOK' BY <1>3, <1>4 DEF Grounded, HealthTypeOK
<1>6. PlanOK' BY <1>2, <1>3 DEF Grounded, PlanOK, Plans
<1>7. ProgramOK'
  <2>1. Named' = Named BY <1>1, <1>4 DEF Named, Listed
  <2>2. Program(Head(todo), reads') /\ Ordered(reads') /\ Covers(reads', Named)
    BY <1>1, <1>3, AsksWell
  <2>3. Head(todo)' = Head(todo) BY <1>3
  <2> QED BY <2>1, <2>2, <2>3 DEF ProgramOK
<1>8. BootsOK' BY <1>3, <1>4 DEF Grounded, BootsOK
<1> QED BY <1>5, <1>6, <1>7, <1>8 DEF Grounded

LEMMA GiveUpGrounded ==
  ASSUME Grounded, GiveUpStep, sound' \in SUBSET BootNumbers
  PROVE  Grounded'
<1>1. PICK r \in {1, 2}, x \in {"units", "processes"} : Reading(r, x) BY DEF GiveUpStep
<1>2. outcome = "open" /\ reads # <<>> /\ todo # <<>> /\ Head(todo) = "managers"
  BY <1>1, ReadingFacts, TypeFacts, ThingFacts
<1>3. /\ onBoot' = onBoot /\ bad' = bad /\ manager' = manager /\ endpoints' = endpoints
      /\ todo' = todo /\ reports' = reports /\ outcome' = outcome /\ retained' = retained
      /\ reads' = << <<2, "system">> >> \o TheEnd
      /\ task' = [task EXCEPT !.seen["managers"] = "unavailable"]
  BY DEF GiveUpStep, GiveUp
<1>4. events' \in 0 .. MaxEvents /\ events <= events'
  BY HealthFacts DEF GiveUpStep, EventsCounted, Grounded, HealthTypeOK
<1>5. task' \in Observations /\ task'.boot = task.boot /\ task'.running = task.running
  <2>1. "managers" \in Things /\ "unavailable" \in Verdicts BY DEF Things, Verdicts
  <2> QED BY <1>3, <2>1, SeenFacts, TypeFacts
<1>6. HealthTypeOK' BY <1>3, <1>4, <1>5 DEF Grounded, HealthTypeOK
<1>7. PlanOK' BY <1>2, <1>3 DEF Grounded, PlanOK, Plans
<1>8. ProgramOK'
  <2>1. Program("managers", reads') /\ Ordered(reads') /\ Covers(reads', Named')
    BY <1>3, GivesUpWell
  <2>2. Head(todo)' = "managers" BY <1>2, <1>3
  <2> QED BY <2>1, <2>2 DEF ProgramOK
<1>9. BootsOK'
  <2>1. events' + 1 >= events + 1 BY <1>4, TypeFacts, HealthFacts
  <2>2. /\ \A u \in Users : manager[u] \in Nat /\ task.running[u] \in Nat
        /\ onBoot \in Nat /\ events' \in Nat /\ events \in Nat
    BY <1>4, TypeFacts, HealthFacts
  <2> QED BY <1>3, <1>5, <2>1, <2>2 DEF Grounded, BootsOK
<1> QED BY <1>6, <1>7, <1>8, <1>9 DEF Grounded

\* The plan decides, or fails, and the verdict is retained.
LEMMA JudgingGrounded ==
  ASSUME Grounded, Error \/ Decide \/ Retain, sound' \in SUBSET BootNumbers
  PROVE  Grounded'
<1>1. /\ onBoot' = onBoot /\ bad' = bad /\ manager' = manager /\ endpoints' = endpoints
      /\ events' = events /\ todo' = todo /\ reports' = reports /\ reads' = reads /\ task' = task
  BY DEF Error, Decide, Retain, host, collection
<1>2. /\ outcome' \in {"open", "pass", "fail", "error"} /\ retained' \in {"none", "pass", "fail"}
      /\ outcome' \in {"pass", "fail"} => todo = <<>>
      /\ retained' # "none" => outcome' \in {"pass", "fail"}
  <2>1. CASE Error
    <3>1. outcome = "open" /\ outcome' = "error" /\ retained' = retained
      BY <2>1 DEF Error, Reading
    <3> QED BY <3>1 DEF Grounded, PlanOK, HealthTypeOK
  <2>2. CASE Decide
    BY <2>2 DEF Decide, Grounded, PlanOK, HealthTypeOK
  <2>3. CASE Retain
    BY <2>3 DEF Retain, Grounded, PlanOK, HealthTypeOK
  <2> QED BY <2>1, <2>2, <2>3
<1>3. HealthTypeOK' BY <1>1, <1>2 DEF Grounded, HealthTypeOK
<1>4. PlanOK' BY <1>1, <1>2 DEF Grounded, PlanOK, Plans
<1>5. ProgramOK'
  <2>1. Named' = Named /\ Head(todo)' = Head(todo) BY <1>1 DEF Named
  <2> QED BY <1>1, <2>1 DEF Grounded, ProgramOK
<1>6. BootsOK' BY <1>1 DEF Grounded, BootsOK
<1> QED BY <1>3, <1>4, <1>5, <1>6 DEF Grounded

\* The host meanwhile: what it was, or where, changes.
HostLives == Break \/ StartManager \/ StopManager \/ HostReboots

LEMMA WorldFacts ==
  ASSUME Grounded, HostLives
  PROVE  /\ todo # <<>> /\ outcome = "open" /\ events' = events + 1 /\ events' \in 0 .. MaxEvents
         /\ endpoints' = endpoints /\ todo' = todo /\ reads' = reads /\ task' = task
         /\ reports' = reports /\ outcome' = outcome /\ retained' = retained
         /\ bad' \subseteq Gates \cup Users /\ manager' \in [Users -> Pids]
         /\ \A u \in Users \cap bad' : manager'[u] # 0
         /\ \A u \in Users : manager'[u] \in {manager[u], 0, events + 2}
         /\ onBoot' = onBoot \/ (HostReboots /\ onBoot' = onBoot + 1)
         /\ ~ HostReboots =>
              /\ \A x \in Gates : x \in bad => x \in bad'
              /\ \A u \in Users : u \in bad => u \in bad' \/ (manager[u] # 0 /\ manager'[u] = 0)
              /\ \A u \in Users : manager'[u] = manager[u] \/ manager'[u] = 0 \/ manager'[u] = events + 2
<1>0. events \in Nat /\ MaxEvents \in Nat BY TypeFacts, HealthFacts
<1>1. Happens BY DEF HostLives, Break, StartManager, StopManager, HostReboots
<1>2. /\ todo # <<>> /\ outcome = "open" /\ events' = events + 1 /\ events < MaxEvents
      /\ endpoints' = endpoints /\ todo' = todo /\ reads' = reads /\ task' = task
      /\ reports' = reports /\ outcome' = outcome /\ retained' = retained
  BY <1>1 DEF Happens, collection
<1>3. events' \in 0 .. MaxEvents BY <1>0, <1>2
<1>4. /\ bad \subseteq Gates \cup Users /\ manager \in [Users -> Pids]
      /\ \A u \in Users \cap bad : manager[u] # 0
  BY DEF Grounded, HealthTypeOK
<1>5. 0 \in Pids /\ events + 2 \in Pids /\ events + 2 # 0 BY <1>0, <1>2 DEF Pids
<1> DEFINE Goal == /\ bad' \subseteq Gates \cup Users /\ manager' \in [Users -> Pids]
                   /\ \A u \in Users \cap bad' : manager'[u] # 0
                   /\ \A u \in Users : manager'[u] \in {manager[u], 0, events + 2}
                   /\ onBoot' = onBoot \/ (HostReboots /\ onBoot' = onBoot + 1)
           Lasting == /\ \A x \in Gates : x \in bad => x \in bad'
                     /\ \A u \in Users : u \in bad => u \in bad' \/ (manager[u] # 0 /\ manager'[u] = 0)
<1>6. ASSUME Break PROVE Goal /\ Lasting
  <2>1. PICK x \in ({"mounts", "storage", "system", "network", "answer"} \cup Listed) \ bad :
          bad' = bad \cup {x}
    BY <1>6 DEF Break
  <2>2. onBoot' = onBoot /\ manager' = manager BY <1>6 DEF Break
  <2>3. x \in Gates \/ (x \in Users /\ manager[x] # 0) BY <2>1 DEF Listed, Gates
  <2>4. Goal
    <3>1. \A u \in Users : u \notin Gates BY HealthFacts
    <3>2. x \in Gates \cup Users /\ (x \in Users => manager[x] # 0) BY <2>3, <3>1
    <3> QED BY <1>4, <2>1, <2>2, <3>2
  <2>5. Lasting BY <2>1
  <2> QED BY <2>4, <2>5
<1>7. ASSUME StartManager PROVE Goal /\ Lasting
  <2>1. PICK u \in Users \ Listed :
          manager' = [manager EXCEPT ![u] = events + 2] /\ bad' \in {bad, bad \cup {u}}
    BY <1>7 DEF StartManager
  <2>2. onBoot' = onBoot BY <1>7 DEF StartManager
  <2>3. \A w \in Users : manager'[w] = IF w = u THEN events + 2 ELSE manager[w] BY <1>4, <2>1
  <2>4. Goal BY <1>4, <1>5, <2>1, <2>2, <2>3
  <2>5. Lasting BY <2>1
  <2> QED BY <2>4, <2>5
<1>8. ASSUME StopManager PROVE Goal /\ Lasting
  <2>1. PICK u \in Listed : manager' = [manager EXCEPT ![u] = 0] /\ bad' = bad \ {u}
    BY <1>8 DEF StopManager
  <2>2. onBoot' = onBoot BY <1>8 DEF StopManager
  <2>3. u \in Users /\ manager[u] # 0 BY DEF Listed
  <2>4. \A w \in Users : manager'[w] = IF w = u THEN 0 ELSE manager[w] BY <1>4, <2>1
  <2>5. Goal BY <1>4, <1>5, <2>1, <2>2, <2>3, <2>4
  <2>6. Lasting BY <2>1, <2>3, <2>4, HealthFacts
  <2> QED BY <2>5, <2>6
<1>9. ASSUME HostReboots PROVE Goal
  <2>1. onBoot' = onBoot + 1 /\ manager' = [u \in Users |-> 0] /\ bad' \in {{}, {"kernel", "mounts"}}
    BY <1>9 DEF HostReboots
  <2>2. bad' \subseteq Gates /\ \A u \in Users : u \notin bad' BY <2>1, HealthFacts DEF Gates
  <2>3. Goal BY <1>5, <1>9, <2>1, <2>2
  <2> QED BY <2>3
<1>10. Goal /\ (~ HostReboots => Lasting) BY <1>6, <1>7, <1>8, <1>9 DEF HostLives
<1> QED BY <1>2, <1>3, <1>10

LEMMA WorldGrounded ==
  ASSUME Grounded, HostLives, sound' \in SUBSET BootNumbers
  PROVE  Grounded'
<1>1. /\ todo # <<>> /\ outcome = "open" /\ events' = events + 1 /\ events' \in 0 .. MaxEvents
      /\ endpoints' = endpoints /\ todo' = todo /\ reads' = reads /\ task' = task
      /\ reports' = reports /\ outcome' = outcome /\ retained' = retained
      /\ bad' \subseteq Gates \cup Users /\ manager' \in [Users -> Pids]
      /\ \A u \in Users \cap bad' : manager'[u] # 0
      /\ \A u \in Users : manager'[u] \in {manager[u], 0, events + 2}
      /\ onBoot' = onBoot \/ onBoot' = onBoot + 1
  BY WorldFacts
<1>2. /\ onBoot \in Nat /\ events \in Nat /\ MaxEvents \in Nat /\ task.boot \in Nat
      /\ \A u \in Users : manager[u] \in Nat /\ task.running[u] \in Nat
      /\ "managers" \in Tasks /\ reports["managers"].boot \in Nat
  BY TypeFacts, HealthFacts DEF Tasks
<1>3. BootsOK BY DEF Grounded
<1>4. onBoot' <= events' + 1 /\ onBoot <= onBoot' /\ onBoot' \in Nat
  BY <1>1, <1>2, <1>3 DEF BootsOK
<1>5. onBoot' \in BootNumbers BY <1>1, <1>2, <1>4 DEF BootNumbers
<1>6. HealthTypeOK' BY <1>1, <1>5 DEF Grounded, HealthTypeOK
<1>7. PlanOK' BY <1>1 DEF Grounded, PlanOK, Plans
<1>8. ProgramOK'
  <2>1. Named' = Named /\ Head(todo)' = Head(todo) BY <1>1 DEF Named
  <2> QED BY <1>1, <2>1 DEF Grounded, ProgramOK
<1>9. BootsOK'
  <2>1. \A u \in Users : manager'[u] <= events' + 1 /\ task'.running[u] <= events' + 1
    <3> TAKE u \in Users
    <3>1. manager[u] <= events + 1 /\ task.running[u] <= events + 1 BY <1>3 DEF BootsOK
    <3>2. manager'[u] = manager[u] \/ manager'[u] = 0 \/ manager'[u] = events + 2 BY <1>1
    <3>3. /\ manager[u] \in Nat /\ task.running[u] \in Nat /\ events \in Nat
          /\ events' = events + 1 /\ task' = task
      BY <1>1, <1>2
    <3> QED BY <3>1, <3>2, <3>3
  <2>2. task'.boot <= onBoot' /\ reports'["managers"].boot <= onBoot'
    <3>1. task.boot <= onBoot /\ reports["managers"].boot <= onBoot BY <1>3 DEF BootsOK
    <3> QED BY <1>1, <1>2, <1>4, <3>1
  <2> QED BY <1>4, <2>1, <2>2 DEF BootsOK
<1> QED BY <1>6, <1>7, <1>8, <1>9 DEF Grounded

LEMMA GroundedStep ==
  ASSUME Grounded, HealthNext
  PROVE  Grounded' /\ sound \subseteq sound'
<1>1. HealthSteps BY DEF HealthNext
<1> DEFINE S == sound' \in SUBSET BootNumbers
<1>2. ASSUME S PROVE Grounded'
  <2>1. CASE Open BY <1>2, <2>1, OpenGrounded
  <2>2. CASE ReportTask BY <1>2, <2>2, ReportGrounded
  <2>3. CASE Error \/ Decide \/ Retain BY <1>2, <2>3, JudgingGrounded
  <2>4. CASE \E x \in Gates \cup Users : FirstRead(x) \/ SecondRead(x) \/ CommandFails(x)
    <3>1. PICK x \in Gates \cup Users : FirstRead(x) \/ SecondRead(x) \/ CommandFails(x) BY <2>4
    <3>2. PICK r \in {1, 2}, v \in Verdicts : ReadStep(r, x, v)
      BY <3>1, ReadSteps DEF Grounded
    <3> QED BY <1>2, <3>2, ReadGrounded
  <2>5. CASE FirstUnits \/ SecondUnits \/ SecondProcesses BY <1>2, <2>5, UnitsGrounded
  <2>6. CASE FirstProcesses BY <1>2, <2>6, ProcessesGrounded
  <2>7. CASE InventoryDiffers \/ InventoryFails BY <1>2, <2>7, GiveUpSteps, GiveUpGrounded
  <2>8. CASE HostLives BY <1>2, <2>8, WorldGrounded
  <2> QED BY <1>1, <2>1, <2>2, <2>3, <2>4, <2>5, <2>6, <2>7, <2>8 DEF HealthSteps, HostLives
<1>3. onBoot' \in BootNumbers /\ sound \subseteq BootNumbers
  <2>1. sound \subseteq BootNumbers BY DEF Grounded, HealthTypeOK
  <2> QED
    <3>1. CASE HostLives
      <4>1. onBoot' = onBoot \/ onBoot' = onBoot + 1 BY <3>1, WorldFacts
      <4>2. events' = events + 1 /\ events' \in 0 .. MaxEvents BY <3>1, WorldFacts
      <4>3. onBoot <= events + 1 /\ onBoot \in Nat /\ events \in Nat /\ MaxEvents \in Nat
        BY TypeFacts, HealthFacts DEF Grounded, BootsOK
      <4>4. onBoot' \in BootNumbers BY <4>1, <4>2, <4>3 DEF BootNumbers
      <4> QED BY <2>1, <4>4
    <3>2. CASE ~ HostLives
      <4>1. onBoot' = onBoot
        BY <1>1, <3>2 DEF HealthSteps, HostLives, Open, ReportTask, Error, Decide, Retain, FirstRead,
             SecondRead, CommandFails, FirstUnits, FirstProcesses, SecondUnits, SecondProcesses,
             InventoryDiffers, InventoryFails, GiveUp, Other, host
      <4> QED BY <2>1, <4>1 DEF Grounded, HealthTypeOK
    <3> QED BY <3>1, <3>2
<1>4. sound' = sound \/ sound' = sound \cup {onBoot'} BY DEF HealthNext
<1>5. S /\ sound \subseteq sound' BY <1>3, <1>4
<1> QED BY <1>2, <1>5

(***************************************************************************)
(* What is known of a gate or a user, by where the collection is.          *)
(***************************************************************************)
GateLaws ==
  todo # <<>> =>
    \A x \in Gates :
      /\ Judges(x) # Head(todo) =>
           /\ Ahead(x) <=> \E i \in 1 .. Len(todo) : todo[i] = Judges(x)
           /\ Known(Judges(x)) = reports[Judges(x)]
      /\ Judges(x) = Head(todo) /\ reads = <<>> => Ahead(x)
      /\ Judges(x) = Head(todo) /\ reads # <<>> =>
           /\ Ahead(x) <=> Occurs(reads, <<1, x>>) \/ Occurs(reads, <<2, x>>)
           /\ Known(Judges(x)) = task

InventoryLaws ==
  /\ todo # <<>> /\ Head(todo) = "managers" /\ reads # <<>> =>
       Inventory = task /\ \A x : Left(x) <=> Occurs(reads, <<2, x>>)
  /\ ~ (todo # <<>> /\ Head(todo) = "managers" /\ reads # <<>>) =>
       Inventory = reports["managers"] /\ \A x : ~ Left(x)

LEMMA GateLawsHold == PlanOK => GateLaws
<1> SUFFICES ASSUME PlanOK, todo # <<>>, NEW x \in Gates
             PROVE  /\ Judges(x) # Head(todo) =>
                         /\ Ahead(x) <=> \E i \in 1 .. Len(todo) : todo[i] = Judges(x)
                         /\ Known(Judges(x)) = reports[Judges(x)]
                    /\ Judges(x) = Head(todo) /\ reads = <<>> => Ahead(x)
                    /\ Judges(x) = Head(todo) /\ reads # <<>> =>
                         /\ Ahead(x) <=> Occurs(reads, <<1, x>>) \/ Occurs(reads, <<2, x>>)
                         /\ Known(Judges(x)) = task
  BY DEF GateLaws
<1>1. /\ Len(todo) \in Nat \ {0} /\ Head(todo) = todo[1]
      /\ \A i \in 2 .. Len(todo) : todo[i] # todo[1]
  BY PlanFacts DEF PlanOK
<1>2. 1 \in 1 .. Len(todo) /\ \A i \in 1 .. Len(todo) : i = 1 \/ i \in 2 .. Len(todo) BY <1>1
<1>3. CASE Judges(x) # Head(todo)
  <2>1. \A i \in 1 .. Len(todo) : todo[i] = Judges(x) => i # 1 BY <1>1, <1>3
  <2> QED BY <1>3, <2>1 DEF Ahead, Known
<1>4. CASE Judges(x) = Head(todo)
  <2>1. \A i \in 1 .. Len(todo) : todo[i] = Judges(x) <=> i = 1 BY <1>1, <1>2, <1>4
  <2> QED BY <1>2, <1>4, <2>1 DEF Ahead, Known
<1> QED BY <1>3, <1>4

LEMMA InventoryLawsHold == InventoryLaws
<1>1. reads = <<>> => \A e : ~ Occurs(reads, e) BY DEF Occurs
<1> QED BY <1>1 DEF InventoryLaws, Inventory, Known, Left

LEMMA LawsNext == PlanOK' => GateLaws' /\ InventoryLaws'
BY GateLawsHold, InventoryLawsHold, PTL

(***************************************************************************)
(* Once every manager was asked, what is wrong stays known or ahead.       *)
(***************************************************************************)
Carried ==
  /\ Inventory'.boot = Inventory.boot
  /\ BootLost => BootLost'
  /\ Condemned => Condemned' \/ BootLost'

\* While the plan and the boot stay, so does the loss of a boot.
LEMMA BootLostStays ==
  ASSUME BootLost, Inventory'.boot = Inventory.boot,
         todo' = todo, onBoot' = onBoot, reports' = reports
  PROVE  BootLost'
BY DEF BootLost

LEMMA WrongStays ==
  ASSUME Condemned,
         \A x \in Gates : GateWrong(x) => GateWrong(x)',
         \A u \in Users : UserWrong(u) => UserWrong(u)',
         InventoryWrong => InventoryWrong'
  PROVE  Condemned'
BY DEF Condemned

LEMMA OccursStays ==
  ASSUME NEW t, NEW rs, Program(t, rs), rs # <<>>, NEW e, e # rs[1]
  PROVE  Occurs(Tail(rs), e) <=> Occurs(rs, e)
BY TailOccurs

LEMMA ReadCarried ==
  ASSUME Grounded, Grounded', AllAsked, NEW r \in {1, 2}, NEW x \in Gates \cup Users,
         NEW v \in Verdicts, ReadStep(r, x, v)
  PROVE  Carried
<1> DEFINE t == Head(todo)
<1>0. Reading(r, x) BY DEF ReadStep
<1>1. /\ reads # <<>> /\ todo # <<>> /\ reads[1] = <<r, x>> /\ Program(t, reads)
      /\ x \in ThingsOf(t) /\ Tail(reads) # <<>> /\ t \in Tasks
  BY <1>0, ReadingFacts, TypeFacts
<1>2. /\ onBoot' = onBoot /\ bad' = bad /\ manager' = manager /\ endpoints' = endpoints
      /\ todo' = todo /\ reports' = reports /\ reads' = Tail(reads) /\ (x \in bad => v # "clean")
      /\ Head(todo)' = Head(todo)
  BY DEF ReadStep, Stays, Step
<1>3. /\ x \in Things /\ Gates \subseteq Things /\ Users \subseteq Things /\ "managers" \in Things
  BY ThingFacts DEF Things
<1>4. /\ task'.boot = task.boot /\ task'.running = task.running /\ task'.seen[x] = v
      /\ \A y \in Things : y # x => task'.seen[y] = task.seen[y]
  <2>1. task \in Observations /\ x \in Things BY <1>3, TypeFacts
  <2>2. task' = [task EXCEPT !.seen[x] = v] BY DEF ReadStep
  <2>3. task'.boot = task.boot /\ task'.running = task.running
        /\ task'.seen = [task.seen EXCEPT ![x] = v]
    BY <2>1, <2>2 DEF Observations
  <2>4. task.seen \in [Things -> Verdicts] BY <2>1 DEF Observations
  <2> QED BY <2>1, <2>3, <2>4
<1>5. t # "before" /\ (t = "managers" => r = 2)
  <2>1. t # "before" BY <1>1 DEF AllAsked
  <2>2. ASSUME t = "managers" PROVE r = 2
    <3>1. reads[1][1] >= 2 BY <1>1, <2>2 DEF AllAsked
    <3> QED BY <1>1, <3>1
  <2> QED BY <2>1, <2>2
<1>6. GateLaws /\ GateLaws' /\ InventoryLaws /\ InventoryLaws'
  BY GateLawsHold, InventoryLawsHold, LawsNext DEF Grounded
<1>7. \A s, y : y # x => (Occurs(reads', <<s, y>>) <=> Occurs(reads, <<s, y>>))
  <2> TAKE s, y
  <2>1. y # x => <<s, y>> # reads[1] BY <1>1
  <2> QED BY <1>1, <1>2, <2>1, OccursStays
<1>8. Judges(x) = t BY <1>1, <1>5, ThingFacts
<1>9. /\ t = "managers" => Inventory = task /\ Inventory' = task'
      /\ t # "managers" => Inventory = reports["managers"] /\ Inventory' = reports["managers"]
  BY <1>1, <1>2, <1>6 DEF InventoryLaws
<1> HIDE DEF t
<1>10. Inventory'.boot = Inventory.boot /\ Inventory'.running = Inventory.running BY <1>4, <1>9
<1>11. \A y : y # x => (Left(y)' <=> Left(y))
  BY <1>2, <1>7 DEF Left
<1>12. \A y \in Things : y # x => Inventory'.seen[y] = Inventory.seen[y] BY <1>4, <1>9
<1>13. ASSUME NEW g \in Gates, GateWrong(g) PROVE GateWrong(g)'
  <2>1. CASE Judges(g) # t
    <3>1. Ahead(g)' <=> Ahead(g) BY <1>1, <1>2, <1>6, <2>1 DEF GateLaws, t
    <3>2. Known(Judges(g))' = reports[Judges(g)] /\ Known(Judges(g)) = reports[Judges(g)]
      BY <1>1, <1>2, <1>6, <2>1 DEF GateLaws, t
    <3>3. Known(Judges(g)).seen[g] # "clean" <=> Known(Judges(g))'.seen[g] # "clean" BY <3>2
    <3> QED BY <1>2, <1>13, <3>1, <3>3 DEF GateWrong
  <2>2. CASE Judges(g) = t
    <3>1. /\ Ahead(g) <=> Occurs(reads, <<1, g>>) \/ Occurs(reads, <<2, g>>)
          /\ Ahead(g)' <=> Occurs(reads', <<1, g>>) \/ Occurs(reads', <<2, g>>)
          /\ Known(Judges(g)) = task /\ Known(Judges(g))' = task'
      BY <1>1, <1>2, <1>6, <2>2 DEF GateLaws, t
    <3>2. CASE g = x
      <4>1. Ahead(g)
        <5>1. 1 \in 1 .. Len(reads) BY <1>1, ProgramGoesOn
        <5>2. Occurs(reads, <<r, x>>) BY <1>1, <5>1 DEF Occurs
        <5> QED BY <3>1, <3>2, <5>2
      <4>2. g \in bad' BY <1>2, <1>13, <4>1 DEF GateWrong
      <4>3. Known(Judges(g))'.seen[g] # "clean" BY <1>2, <1>4, <3>1, <3>2, <4>2
      <4> QED BY <1>2, <1>13, <4>2, <4>3 DEF GateWrong
    <3>3. CASE g # x
      <4>1. Ahead(g)' <=> Ahead(g) BY <1>7, <3>1, <3>3
      <4>2. Known(Judges(g))'.seen[g] = Known(Judges(g)).seen[g] BY <1>3, <1>4, <3>1, <3>3
      <4> QED BY <1>2, <1>13, <4>1, <4>2 DEF GateWrong
    <3> QED BY <3>2, <3>3
  <2> QED BY <2>1, <2>2
<1>14. ASSUME NEW u \in Users, UserWrong(u) PROVE UserWrong(u)'
  <2>1. Left("processes")' <=> Left("processes")
    <3>1. x # "processes" BY HealthFacts DEF Gates
    <3> QED BY <1>11, <3>1
  <2>2. CASE u # x
    <3>1. (Left(u)' <=> Left(u)) /\ Inventory'.seen[u] = Inventory.seen[u]
      BY <1>3, <1>11, <1>12, <2>2
    <3> QED BY <1>2, <1>10, <1>14, <2>1, <3>1 DEF UserWrong
  <2>3. CASE u = x
    <3>1. t = "managers" BY <1>1, <2>3, ThingFacts DEF Tasks
    <3>2. Left(u)
      <4>1. 1 \in 1 .. Len(reads) BY <1>1, ProgramGoesOn
      <4>2. Occurs(reads, <<2, u>>) BY <1>1, <1>5, <2>3, <3>1, <4>1 DEF Occurs
      <4> QED BY <1>1, <3>1, <4>2 DEF Left, t
    <3>3. CASE u \in bad
      <4>1. u \in bad' /\ Inventory'.seen[u] # "clean" BY <1>2, <1>4, <1>9, <2>3, <3>1, <3>3
      <4> QED BY <1>10, <1>14, <4>1 DEF UserWrong
    <3>4. CASE Left("processes") /\ manager[u] # Inventory.running[u]
      BY <1>2, <1>10, <1>14, <2>1, <3>4 DEF UserWrong
    <3> QED BY <1>14, <3>2, <3>3, <3>4 DEF UserWrong
  <2> QED BY <2>2, <2>3
<1>15. InventoryWrong => InventoryWrong'
  <2>1. x # "processes" /\ x # "managers" BY HealthFacts DEF Gates
  <2> QED BY <1>3, <1>11, <1>12, <2>1 DEF InventoryWrong
<1>16. BootLost => BootLost' BY <1>2, <1>10, BootLostStays
<1>17. Condemned => Condemned' BY <1>13, <1>14, <1>15, WrongStays
<1> QED BY <1>10, <1>16, <1>17 DEF Carried

LEMMA OpenCarried ==
  ASSUME Grounded, Grounded', AllAsked, Open
  PROVE  Carried
<1> DEFINE t == Head(todo)
<1>1. reads = <<>> /\ todo # <<>> /\ t \in Tasks BY TypeFacts DEF Open
<1>2. /\ onBoot' = onBoot /\ bad' = bad /\ manager' = manager /\ endpoints' = endpoints
      /\ todo' = todo /\ reports' = reports /\ reads' = ReadsOf(t) \o TheEnd
      /\ Head(todo)' = Head(todo)
  BY DEF Open, Other, host
<1>3. t \in {"network", "after"} /\ reads' # <<>>
  <2>1. t \in {"network", "after"} BY <1>1 DEF AllAsked
  <2> QED BY <1>1, <1>2, <2>1, BeginsWell
<1>4. /\ "kernel" \in bad => task'.seen["kernel"] # "clean"
      /\ \A y \in Things : y # "kernel" => task'.seen[y] # "clean"
  <2> DEFINE v == IF "kernel" \in bad THEN "failed" ELSE "clean"
  <2>1. onBoot \in BootNumbers BY DEF Grounded, HealthTypeOK
  <2>2. v \in Verdicts BY DEF Verdicts
  <2>3. task' = Opened(onBoot, v) BY DEF Open, Opened
  <2> HIDE DEF v
  <2>4. task'.seen["kernel"] = v /\ \A y \in Things : y # "kernel" => task'.seen[y] = "unread"
    BY <2>1, <2>2, <2>3, OpenFacts
  <2>5. "kernel" \in bad => v # "clean" BY DEF v
  <2> QED BY <2>4, <2>5
<1>5. GateLaws /\ GateLaws' /\ InventoryLaws /\ InventoryLaws'
  BY GateLawsHold, InventoryLawsHold, LawsNext DEF Grounded
<1>6. /\ Inventory = reports["managers"] /\ Inventory' = reports["managers"]
      /\ \A y : ~ Left(y) /\ ~ Left(y)'
  BY <1>1, <1>2, <1>3, <1>5 DEF InventoryLaws
<1> HIDE DEF t
<1>7. ASSUME NEW g \in Gates, GateWrong(g) PROVE GateWrong(g)'
  <2>1. CASE Judges(g) # t
    <3>1. Ahead(g)' <=> Ahead(g) BY <1>1, <1>2, <1>5, <2>1 DEF GateLaws, t
    <3>2. Known(Judges(g))' = reports[Judges(g)] /\ Known(Judges(g)) = reports[Judges(g)]
      BY <1>1, <1>2, <1>5, <2>1 DEF GateLaws, t
    <3>3. Known(Judges(g)).seen[g] # "clean" <=> Known(Judges(g))'.seen[g] # "clean" BY <3>2
    <3> QED BY <1>2, <1>7, <3>1, <3>3 DEF GateWrong
  <2>2. CASE Judges(g) = t
    <3>1. Ahead(g) BY <1>1, <1>5, <2>2 DEF GateLaws, t
    <3>2. g \in bad' /\ g \in bad BY <1>2, <1>7, <3>1 DEF GateWrong
    <3>3. Known(Judges(g))' = task' BY <1>1, <1>2, <1>3, <1>5, <2>2 DEF GateLaws, t
    <3>4. g \in Things BY ThingFacts
    <3>5. Known(Judges(g))'.seen[g] # "clean" BY <1>4, <3>2, <3>3, <3>4
    <3> QED BY <1>2, <1>7, <3>2, <3>5 DEF GateWrong
  <2> QED BY <2>1, <2>2
<1>8. Inventory'.boot = Inventory.boot BY <1>6
<1>9. ASSUME NEW u \in Users, UserWrong(u) PROVE UserWrong(u)'
  <2>1. Inventory'.running[u] = Inventory.running[u] /\ Inventory'.seen[u] = Inventory.seen[u]
    BY <1>6
  <2> QED BY <1>6, <1>9, <2>1 DEF UserWrong
<1>10. InventoryWrong => InventoryWrong'
  <2>1. Inventory'.seen["managers"] = Inventory.seen["managers"] BY <1>6
  <2> QED BY <1>6, <2>1 DEF InventoryWrong
<1>11. BootLost => BootLost' BY <1>2, <1>8, BootLostStays
<1>12. Condemned => Condemned' BY <1>7, <1>9, <1>10, WrongStays
<1> QED BY <1>8, <1>11, <1>12 DEF Carried

LEMMA ReportCarried ==
  ASSUME Grounded, Grounded', AllAsked, ReportTask
  PROVE  Carried
<1> DEFINE t == Head(todo)
<1>1. /\ reads # <<>> /\ todo # <<>> /\ t \in Tasks /\ onBoot = task.boot
      /\ \A r \in {1, 2} : \A x : ~ Occurs(reads, <<r, x>>)
  BY EndFacts DEF ReportTask
<1>2. /\ onBoot' = onBoot /\ bad' = bad /\ manager' = manager /\ endpoints' = endpoints
      /\ todo' = Tail(todo) /\ reads' = <<>> /\ reports' = [reports EXCEPT ![t] = task]
  BY DEF ReportTask, host
<1>3. todo \in Plans /\ reports \in [Tasks -> Observations] BY DEF Grounded, PlanOK, HealthTypeOK
<1>4. /\ Len(todo) \in Nat \ {0} /\ t = todo[1]
      /\ Len(Tail(todo)) = Len(todo) - 1
      /\ \A i \in 1 .. Len(Tail(todo)) : Tail(todo)[i] = todo[i + 1] /\ i + 1 \in 2 .. Len(todo)
      /\ \A i \in 2 .. Len(todo) : todo[i] # todo[1] /\ todo[i] # "before"
      /\ t # "before" => \A i \in 2 .. Len(todo) : todo[i] # "managers"
      /\ (t = "after" <=> Tail(todo) = <<>>)
  BY <1>1, <1>3, PlanFacts
<1>5. t # "before" BY <1>1 DEF AllAsked
<1>6. /\ reports'[t] = task
      /\ \A s \in Tasks : s # t => reports'[s] = reports[s]
  BY <1>1, <1>2, <1>3
<1>7. GateLaws /\ InventoryLaws /\ InventoryLaws'
  BY GateLawsHold, InventoryLawsHold, LawsNext DEF Grounded
<1>8. \A s \in Tasks : Known(s)' = Known(s)
  <2> TAKE s \in Tasks
  <2>1. Known(s)' = reports'[s] BY <1>2 DEF Known
  <2>2. Known(s) = IF t = s THEN task ELSE reports[s] BY <1>1 DEF Known
  <2> QED BY <1>6, <2>1, <2>2
<1>9. Inventory' = Inventory
  <2>1. "managers" \in Tasks BY DEF Tasks
  <2>2. Known("managers")' = Known("managers") BY <1>8, <2>1
  <2> QED BY <2>2 DEF Inventory
<1>10. \A y : ~ Left(y)' BY <1>2, <1>7 DEF InventoryLaws
<1>11. \A y : ~ Left(y) BY <1>1 DEF Left
<1>12. ASSUME NEW g \in Gates PROVE Ahead(g)' <=> Ahead(g)
  <2>1. Ahead(g)' <=> \E i \in 1 .. Len(Tail(todo)) : Tail(todo)[i] = Judges(g)
    BY <1>2 DEF Ahead
  <2>2. CASE Judges(g) = t
    <3>1. ~ Ahead(g) BY <1>1, <1>7, <2>2 DEF GateLaws
    <3>2. \A i \in 1 .. Len(Tail(todo)) : Tail(todo)[i] # Judges(g) BY <1>4, <2>2
    <3> QED BY <2>1, <3>1, <3>2
  <2>3. CASE Judges(g) # t
    <3>1. Ahead(g) <=> \E i \in 1 .. Len(todo) : todo[i] = Judges(g)
      BY <1>1, <1>7, <2>3 DEF GateLaws
    <3>2. ASSUME NEW i \in 1 .. Len(todo), todo[i] = Judges(g)
          PROVE  \E j \in 1 .. Len(Tail(todo)) : Tail(todo)[j] = Judges(g)
      <4>1. i # 1 BY <1>4, <2>3, <3>2
      <4>2. i - 1 \in 1 .. Len(Tail(todo)) /\ (i - 1) + 1 = i BY <1>4, <4>1
      <4>3. Tail(todo)[i - 1] = todo[i] BY <1>4, <4>2
      <4> QED BY <3>2, <4>2, <4>3
    <3>3. ASSUME NEW j \in 1 .. Len(Tail(todo)), Tail(todo)[j] = Judges(g)
          PROVE  \E i \in 1 .. Len(todo) : todo[i] = Judges(g)
      <4>1. j + 1 \in 1 .. Len(todo) /\ todo[j + 1] = Judges(g) BY <1>4, <3>3
      <4> QED BY <4>1
    <3> QED BY <2>1, <3>1, <3>2, <3>3
  <2> QED BY <2>2, <2>3
<1>13. ASSUME NEW g \in Gates, GateWrong(g) PROVE GateWrong(g)'
  <2>1. Judges(g) \in Tasks BY DEF Judges, Tasks
  <2>2. Known(Judges(g))' = Known(Judges(g)) BY <1>8, <2>1
  <2>3. Known(Judges(g))'.seen[g] = Known(Judges(g)).seen[g] BY <2>2
  <2> QED BY <1>2, <1>12, <1>13, <2>3 DEF GateWrong
<1>14. ASSUME NEW u \in Users, UserWrong(u) PROVE UserWrong(u)'
  <2>1. Inventory'.running[u] = Inventory.running[u] /\ Inventory'.seen[u] = Inventory.seen[u]
    BY <1>9
  <2> QED BY <1>10, <1>11, <1>14, <2>1 DEF UserWrong
<1>15. InventoryWrong => InventoryWrong'
  <2>1. Inventory'.seen["managers"] = Inventory.seen["managers"] BY <1>9
  <2> QED BY <1>10, <1>11, <2>1 DEF InventoryWrong
<1>16. Inventory'.boot = Inventory.boot BY <1>9
<1>17. BootLost => BootLost'
  <2> SUFFICES ASSUME BootLost PROVE BootLost' OBVIOUS
  <2>1. onBoot # Inventory.boot BY <1>1 DEF BootLost
  <2>2. CASE todo' # <<>> BY <1>2, <1>16, <2>1, <2>2 DEF BootLost
  <2>3. CASE todo' = <<>>
    <3>1. t = "after" BY <1>2, <1>4, <2>3
    <3>2. reports'["after"].boot = onBoot BY <1>1, <1>6, <3>1
    <3> QED BY <1>16, <2>1, <2>3, <3>2 DEF BootLost
  <2> QED BY <2>2, <2>3
<1>18. Condemned => Condemned' BY <1>13, <1>14, <1>15, WrongStays
<1> QED BY <1>16, <1>17, <1>18 DEF Carried

\* Steps of the task of the managers but its reads of users: the plan and the gates
\* are as they were.
LEMMA GatesStay ==
  ASSUME Grounded, Grounded', todo # <<>>, reads # <<>>, reads' # <<>>,
         Head(todo) = "managers",
         bad' = bad, endpoints' = endpoints, todo' = todo, reports' = reports,
         task'.seen["system"] = task.seen["system"],
         Occurs(reads, <<2, "system">>), Occurs(reads', <<2, "system">>)
  PROVE  \A g \in Gates : GateWrong(g) => GateWrong(g)'
<1> SUFFICES ASSUME NEW g \in Gates, GateWrong(g) PROVE GateWrong(g)' OBVIOUS
<1>1. GateLaws /\ GateLaws' BY GateLawsHold, LawsNext DEF Grounded
<1>2. CASE Judges(g) # "managers"
  <2>1. Ahead(g)' <=> Ahead(g) BY <1>1, <1>2 DEF GateLaws
  <2>2. Known(Judges(g))' = reports[Judges(g)] /\ Known(Judges(g)) = reports[Judges(g)]
    BY <1>1, <1>2 DEF GateLaws
  <2>3. Known(Judges(g)).seen[g] # "clean" <=> Known(Judges(g))'.seen[g] # "clean" BY <2>2
  <2> QED BY <2>1, <2>3 DEF GateWrong
<1>3. CASE Judges(g) = "managers"
  <2>1. g = "system" BY <1>3 DEF Judges, Gates
  <2>2. Ahead(g) /\ Ahead(g)' BY <1>1, <1>3, <2>1 DEF GateLaws
  <2> QED BY <2>2 DEF GateWrong
<1> QED BY <1>2, <1>3

LEMMA UnitsCarried ==
  ASSUME Grounded, Grounded', AllAsked, SecondUnits \/ SecondProcesses
  PROVE  Carried
<1> DEFINE Of(x) == (x = "units" /\ SecondUnits) \/ (x = "processes" /\ SecondProcesses)
<1>0. PICK x \in {"units", "processes"} : Reading(2, x) /\ Of(x)
  BY DEF SecondUnits, SecondProcesses
<1>1. /\ reads # <<>> /\ todo # <<>> /\ reads[1] = <<2, x>> /\ x \in ThingsOf(Head(todo))
      /\ Program(Head(todo), reads) /\ Tail(reads) # <<>> /\ Head(todo) \in Tasks
      /\ Head(todo) = "managers" => Occurs(reads, <<2, "system">>)
  BY <1>0, ReadingFacts, TypeFacts
<1>2. Head(todo) = "managers" BY <1>1, ThingFacts
<1>3. /\ onBoot' = onBoot /\ bad' = bad /\ manager' = manager /\ endpoints' = endpoints
      /\ todo' = todo /\ reports' = reports /\ reads' = Tail(reads) /\ Head(todo)' = Head(todo)
  BY DEF SecondUnits, SecondProcesses, Other, host, Step
<1>4. "managers" \in Things /\ Users \subseteq Things /\ "system" \in Things
  BY ThingFacts DEF Things, Gates
<1>5. /\ task'.boot = task.boot /\ task'.running = task.running
      /\ \A y \in Things : y # "managers" => task'.seen[y] = task.seen[y]
      /\ SecondUnits => task' = task
  <2>1. CASE SecondUnits BY <2>1 DEF SecondUnits
  <2>2. CASE SecondProcesses /\ ~ SecondUnits
    <3>1. task' = [task EXCEPT !.seen["managers"] = "clean"] BY <2>2 DEF SecondProcesses
    <3>2. task \in Observations BY TypeFacts
    <3>3. /\ task'.boot = task.boot /\ task'.running = task.running
          /\ task'.seen = [task.seen EXCEPT !["managers"] = "clean"]
      BY <3>1, <3>2 DEF Observations
    <3>4. task.seen \in [Things -> Verdicts] BY <3>2 DEF Observations
    <3> QED BY <2>2, <3>3, <3>4
  <2> QED BY <2>1, <2>2
<1>6. InventoryLaws /\ InventoryLaws' BY InventoryLawsHold, LawsNext DEF Grounded
<1>7. /\ Inventory = task /\ Inventory' = task'
      /\ \A y : Left(y) <=> Occurs(reads, <<2, y>>)
      /\ \A y : Left(y)' <=> Occurs(reads', <<2, y>>)
  BY <1>1, <1>2, <1>3, <1>6 DEF InventoryLaws
<1> HIDE DEF Of
<1>8. \A y : y # x => (Left(y)' <=> Left(y))
  <2> TAKE y
  <2>1. y # x => <<2, y>> # reads[1] BY <1>1
  <2> QED BY <1>1, <1>3, <1>7, <2>1, OccursStays
<1>9. \A g \in Gates : GateWrong(g) => GateWrong(g)'
  <2>1. <<2, "system">> # reads[1] BY <1>1
  <2>2. Occurs(reads', <<2, "system">>) BY <1>1, <1>2, <1>3, <2>1, OccursStays
  <2>3. task'.seen["system"] = task.seen["system"] BY <1>4, <1>5
  <2> QED BY <1>1, <1>2, <1>3, <2>2, <2>3, GatesStay
<1>10. Left("processes") /\ SecondProcesses => \A u \in Users : manager[u] = Inventory.running[u]
  BY <1>7 DEF SecondProcesses
<1>11. SecondUnits => x = "units"
  BY <1>0 DEF Of, SecondUnits, SecondProcesses, Reading
<1>12. ASSUME NEW u \in Users, UserWrong(u) PROVE UserWrong(u)'
  <2>1. u # x /\ u # "managers" BY HealthFacts
  <2>2. (Left(u)' <=> Left(u)) /\ Inventory'.seen[u] = Inventory.seen[u]
    BY <1>4, <1>5, <1>7, <1>8, <2>1
  <2>3. Inventory'.running[u] = Inventory.running[u] BY <1>5, <1>7
  <2>4. CASE Left("processes") /\ manager[u] # Inventory.running[u]
    <3>1. ~ SecondProcesses BY <1>10, <2>4
    <3>2. x = "units" BY <1>0, <3>1 DEF Of
    <3>3. Left("processes")' BY <1>8, <2>4, <3>2
    <3> QED BY <1>3, <1>12, <2>3, <2>4, <3>3 DEF UserWrong
  <2>5. CASE (Left(u) /\ u \in bad) \/ (~ Left(u) /\ Inventory.seen[u] # "clean")
    BY <1>3, <1>12, <2>2, <2>3, <2>5 DEF UserWrong
  <2> QED BY <1>12, <2>4, <2>5 DEF UserWrong
<1>13. InventoryWrong => InventoryWrong'
  <2> SUFFICES ASSUME InventoryWrong PROVE InventoryWrong' OBVIOUS
  <2>1. ~ Left("processes") BY DEF InventoryWrong
  <2>2. x = "units"
    <3>1. 1 \in 1 .. Len(reads) BY <1>1, ProgramGoesOn
    <3>2. Occurs(reads, <<2, x>>) BY <1>1, <3>1 DEF Occurs
    <3> QED BY <1>7, <2>1, <3>2
  <2>3. SecondUnits BY <1>0, <2>2 DEF Of
  <2>4. Inventory' = Inventory BY <1>5, <1>7, <2>3
  <2>5. Inventory'.seen["managers"] = Inventory.seen["managers"] BY <2>4
  <2>6. ~ Left("processes")' BY <1>8, <2>1, <2>2
  <2> QED BY <2>5, <2>6 DEF InventoryWrong
<1>14. Inventory'.boot = Inventory.boot BY <1>5, <1>7
<1>15. BootLost => BootLost' BY <1>3, <1>14, BootLostStays
<1>16. Condemned => Condemned' BY <1>9, <1>12, <1>13, WrongStays
<1> QED BY <1>14, <1>15, <1>16 DEF Carried

LEMMA GiveUpCarried ==
  ASSUME Grounded, Grounded', AllAsked, GiveUpStep
  PROVE  Carried
<1>1. PICK r \in {1, 2}, x \in {"units", "processes"} : Reading(r, x) BY DEF GiveUpStep
<1>2. reads # <<>> /\ todo # <<>> /\ Head(todo) = "managers"
  BY <1>1, ReadingFacts, TypeFacts, ThingFacts
<1>3. /\ onBoot' = onBoot /\ todo' = todo /\ reports' = reports /\ Head(todo)' = Head(todo)
      /\ reads' = << <<2, "system">> >> \o TheEnd
      /\ task' = [task EXCEPT !.seen["managers"] = "unavailable"]
  BY DEF GiveUpStep, GiveUp
<1>4. reads' # <<>> /\ ~ Occurs(reads', <<2, "processes">>) BY <1>3, GivesUpWell
<1>5. InventoryLaws /\ InventoryLaws' BY InventoryLawsHold, LawsNext DEF Grounded
<1>6. Inventory = task /\ Inventory' = task' /\ ~ Left("processes")'
  BY <1>2, <1>3, <1>4, <1>5 DEF InventoryLaws
<1>7. task'.boot = task.boot /\ task'.seen["managers"] = "unavailable"
  <2>1. task \in Observations /\ "managers" \in Things BY TypeFacts DEF Things
  <2> QED BY <1>3, <2>1 DEF Observations
<1>8. Inventory'.boot = Inventory.boot BY <1>6, <1>7
<1>9. BootLost => BootLost' BY <1>3, <1>8, BootLostStays
<1>10. Condemned' BY <1>6, <1>7 DEF Condemned, InventoryWrong
<1> QED BY <1>8, <1>9, <1>10 DEF Carried

LEMMA FirstNotAsked ==
  ASSUME Grounded, FirstUnits \/ FirstProcesses
  PROVE  ~ AllAsked
<1>1. PICK x \in {"units", "processes"} : Reading(1, x) BY DEF FirstUnits, FirstProcesses
<1>2. reads # <<>> /\ todo # <<>> /\ Head(todo) = "managers" /\ reads[1] = <<1, x>>
  BY <1>1, ReadingFacts, TypeFacts, ThingFacts
<1>3. reads[1][1] = 1 BY <1>2
<1> QED BY <1>2, <1>3 DEF AllAsked

LEMMA JudgingCarried ==
  ASSUME Error \/ Decide \/ Retain
  PROVE  Carried /\ (AllAsked' <=> AllAsked)
<1>1. /\ onBoot' = onBoot /\ bad' = bad /\ manager' = manager /\ endpoints' = endpoints
      /\ todo' = todo /\ reports' = reports /\ reads' = reads /\ task' = task
      /\ Head(todo)' = Head(todo)
  BY DEF Error, Decide, Retain, host, collection
<1>2. \A t : Known(t)' = Known(t) BY <1>1 DEF Known
<1>3. Inventory' = Inventory BY <1>2 DEF Inventory
<1>4. \A y : Left(y)' <=> Left(y) BY <1>1 DEF Left
<1>5. ASSUME NEW g \in Gates, GateWrong(g) PROVE GateWrong(g)'
  <2>1. Ahead(g)' <=> Ahead(g) BY <1>1 DEF Ahead
  <2>2. Known(Judges(g))'.seen[g] = Known(Judges(g)).seen[g] BY <1>2
  <2> QED BY <1>1, <1>5, <2>1, <2>2 DEF GateWrong
<1>6. ASSUME NEW u \in Users, UserWrong(u) PROVE UserWrong(u)'
  <2>1. Inventory'.running[u] = Inventory.running[u] /\ Inventory'.seen[u] = Inventory.seen[u]
    BY <1>3
  <2> QED BY <1>1, <1>4, <1>6, <2>1 DEF UserWrong
<1>7. InventoryWrong => InventoryWrong'
  <2>1. Inventory'.seen["managers"] = Inventory.seen["managers"] BY <1>3
  <2> QED BY <1>4, <2>1 DEF InventoryWrong
<1>8. Inventory'.boot = Inventory.boot BY <1>3
<1>9. BootLost => BootLost' BY <1>1, <1>8, BootLostStays
<1>10. Condemned => Condemned' BY <1>5, <1>6, <1>7, WrongStays
<1>11. AllAsked' <=> AllAsked BY <1>1 DEF AllAsked
<1> QED BY <1>8, <1>9, <1>10, <1>11 DEF Carried

\* Nothing is mended unseen: who ends a manager with a failed unit changes the
\* processes, which are read once more.
LEMMA WorldCarried ==
  ASSUME Grounded, Grounded', HostLives
  PROVE  (AllAsked => Carried) /\ (AllAsked' <=> AllAsked)
<1>1. /\ todo # <<>> /\ endpoints' = endpoints /\ todo' = todo /\ reads' = reads /\ task' = task
      /\ reports' = reports /\ Head(todo)' = Head(todo)
      /\ onBoot' = onBoot \/ (HostReboots /\ onBoot' = onBoot + 1)
      /\ ~ HostReboots =>
           /\ \A x \in Gates : x \in bad => x \in bad'
           /\ \A u \in Users : u \in bad => u \in bad' \/ (manager[u] # 0 /\ manager'[u] = 0)
           /\ \A u \in Users : manager'[u] = manager[u] \/ manager'[u] = 0 \/ manager'[u] = events + 2
  BY WorldFacts
<1>2. \A t : Known(t)' = Known(t) BY <1>1 DEF Known
<1>3. Inventory' = Inventory BY <1>2 DEF Inventory
<1>4. \A y : Left(y)' <=> Left(y) BY <1>1 DEF Left
<1>5. AllAsked' <=> AllAsked BY <1>1 DEF AllAsked
<1>6. Inventory'.boot = Inventory.boot BY <1>3
<1>7. onBoot \in Nat /\ Inventory.boot \in Nat /\ Inventory.boot <= onBoot
  <2>1. "managers" \in Tasks BY DEF Tasks
  <2>2. Inventory = task \/ Inventory = reports["managers"] BY DEF Inventory, Known
  <2>3. task.boot <= onBoot /\ reports["managers"].boot <= onBoot BY DEF Grounded, BootsOK
  <2> QED BY <2>1, <2>2, <2>3, TypeFacts
<1>8. HostReboots => BootLost'
  <2> SUFFICES ASSUME HostReboots PROVE BootLost' OBVIOUS
  <2>1. onBoot' = onBoot + 1 BY DEF HostReboots
  <2>2. onBoot' # Inventory'.boot BY <1>6, <1>7, <2>1
  <2> QED BY <1>1, <2>2 DEF BootLost
<1>9. BootLost => BootLost'
  <2>1. CASE HostReboots BY <1>8, <2>1
  <2>2. CASE onBoot' = onBoot BY <1>1, <1>6, <2>2, BootLostStays
  <2> QED BY <1>1, <2>1, <2>2
<1>10. ASSUME ~ HostReboots, NEW g \in Gates, GateWrong(g) PROVE GateWrong(g)'
  <2>1. Ahead(g)' <=> Ahead(g) BY <1>1 DEF Ahead
  <2>2. Known(Judges(g))'.seen[g] = Known(Judges(g)).seen[g] BY <1>2
  <2>3. g \in bad => g \in bad' BY <1>1, <1>10
  <2> QED BY <1>1, <1>10, <2>1, <2>2, <2>3 DEF GateWrong
<1>11. ASSUME AllAsked, ~ HostReboots, NEW u \in Users, UserWrong(u) PROVE UserWrong(u)'
  <2>1. Inventory'.running[u] = Inventory.running[u] /\ Inventory'.seen[u] = Inventory.seen[u]
    BY <1>3
  <2>2. Inventory.running[u] # 0 BY <1>11 DEF UserWrong
  <2>3. /\ u \in bad => u \in bad' \/ manager'[u] = 0
        /\ manager'[u] = manager[u] \/ manager'[u] = 0 \/ manager'[u] = events + 2
    BY <1>1, <1>11
  <2>4. CASE Left("processes") /\ manager[u] # Inventory.running[u]
    <3>1. manager'[u] # Inventory'.running[u]
      <4>1. Inventory = task
        <5>1. Head(todo) = "managers" /\ reads # <<>> BY <2>4 DEF Left, Occurs
        <5> QED BY <1>1, <5>1 DEF Inventory, Known
      <4>2. task.running[u] <= events + 1 /\ task.running[u] \in Nat /\ events \in Nat
        BY TypeFacts DEF Grounded, BootsOK
      <4>3. task.running[u] # events + 2 BY <4>2
      <4> QED BY <2>1, <2>2, <2>3, <2>4, <4>1, <4>3
    <3> QED BY <1>4, <2>1, <2>2, <2>4, <3>1 DEF UserWrong
  <2>5. CASE Left(u) /\ u \in bad
    <3>1. CASE u \in bad' BY <1>4, <2>1, <2>2, <2>5, <3>1 DEF UserWrong
    <3>2. CASE manager'[u] = 0
      <4>1. Left("processes")
        <5>1. /\ Head(todo) = "managers" /\ reads # <<>> /\ Occurs(reads, <<2, u>>)
          BY <2>5 DEF Left, Occurs
        <5>2. Program("managers", reads) /\ Ordered(reads) BY <5>1 DEF Grounded, ProgramOK
        <5>3. Len(reads) \in Nat \ {0} BY <5>1, <5>2, ProgramGoesOn
        <5>4. PICK i \in 1 .. Len(reads) : reads[i] = <<2, u>> BY <5>1 DEF Occurs
        <5>5. i # Len(reads) BY <5>2, <5>4 DEF Program
        <5>6. Len(reads) >= 2 BY <5>3, <5>4, <5>5
        <5>7. i # Len(reads) - 1
          <6> SUFFICES ASSUME i = Len(reads) - 1 PROVE FALSE OBVIOUS
          <6>1. <<2, u>> = <<2, "system">> BY <5>2, <5>4, <5>6 DEF Ordered
          <6> QED BY <6>1, HealthFacts
        <5>8. Len(reads) >= 3 BY <5>3, <5>4, <5>5, <5>6, <5>7
        <5>9. Len(reads) - 2 \in 1 .. Len(reads) /\ reads[Len(reads) - 2] = <<2, "processes">>
          BY <5>2, <5>3, <5>8 DEF Ordered
        <5> QED BY <1>1, <5>1, <5>9 DEF Left, Occurs
      <4> QED BY <1>4, <2>1, <2>2, <3>2, <4>1 DEF UserWrong
    <3> QED BY <2>3, <2>5, <3>1, <3>2
  <2>6. CASE ~ Left(u) /\ Inventory.seen[u] # "clean"
    BY <1>4, <2>1, <2>2, <2>6 DEF UserWrong
  <2> QED BY <1>11, <2>4, <2>5, <2>6 DEF UserWrong
<1>12. InventoryWrong => InventoryWrong'
  <2>1. Inventory'.seen["managers"] = Inventory.seen["managers"] BY <1>3
  <2> QED BY <1>4, <2>1 DEF InventoryWrong
<1>13. AllAsked /\ Condemned => Condemned' \/ BootLost'
  <2>1. CASE HostReboots BY <1>8, <2>1
  <2>2. CASE ~ HostReboots BY <1>10, <1>11, <1>12, <2>2, WrongStays
  <2> QED BY <2>1, <2>2
<1> QED BY <1>5, <1>6, <1>9, <1>13 DEF Carried

\* The instant at which every manager has been asked once.
AtOnce ==
  /\ todo # <<>> /\ Head(todo) = "managers" /\ reads # <<>> /\ reads[1][1] = 2
  /\ Occurs(reads, <<2, "system">>)
  /\ \/ ~ Occurs(reads, <<2, "processes">>) /\ task.seen["managers"] # "clean"
     \/ /\ Occurs(reads, <<2, "processes">>)
        /\ \A u \in Users : task.running[u] # 0 => Occurs(reads, <<2, u>>)

LEMMA Reckoning ==
  Grounded /\ AtOnce =>
    AskedOnce /\ todo # <<>> /\ Inventory = task /\ (Healthy \/ onBoot = 0 \/ Condemned)
<1> SUFFICES ASSUME Grounded, AtOnce
             PROVE  AskedOnce /\ Inventory = task /\ (Healthy \/ onBoot = 0 \/ Condemned)
  BY DEF AtOnce
<1>1. /\ todo # <<>> /\ Head(todo) = "managers" /\ reads # <<>> /\ reads[1][1] = 2
      /\ Occurs(reads, <<2, "system">>)
  BY DEF AtOnce
<1>2. Inventory = task /\ \A x : Left(x) <=> Occurs(reads, <<2, x>>)
  BY <1>1, InventoryLawsHold DEF InventoryLaws
<1>3. AskedOnce
  <2>1. Head(reads) = reads[1] BY <1>1, ProgramGoesOn DEF Grounded, ProgramOK
  <2> QED BY <1>1, <2>1 DEF AskedOnce
<1>4. ASSUME ~ Healthy, onBoot # 0 PROVE Condemned
  <2>1. CASE ~ Occurs(reads, <<2, "processes">>) /\ task.seen["managers"] # "clean"
    BY <1>2, <2>1 DEF Condemned, InventoryWrong
  <2>2. CASE /\ Occurs(reads, <<2, "processes">>)
             /\ \A u \in Users : task.running[u] # 0 => Occurs(reads, <<2, u>>)
    <3> DEFINE needed == {u \in Users : task.running[u] # 0} \cup Gates
    <3>1. bad \cap (IF endpoints THEN needed ELSE needed \ {"network", "answer"}) # {}
      BY <1>1, <1>4 DEF Healthy
    <3>2. PICK x \in bad : x \in needed /\ (x \in {"network", "answer"} => endpoints) BY <3>1
    <3>3. CASE x \in Users /\ task.running[x] # 0
      <4>1. Left(x) BY <1>2, <2>2, <3>3
      <4>2. UserWrong(x) BY <1>2, <3>2, <3>3, <4>1 DEF UserWrong
      <4> QED BY <3>3, <4>2 DEF Condemned
    <3>4. CASE x \in Gates
      <4>1. Ahead(x)
        <5>1. GateLaws BY GateLawsHold DEF Grounded
        <5>2. CASE Judges(x) = "managers"
          <6>1. x = "system" BY <3>4, <5>2 DEF Judges, Gates
          <6> QED BY <1>1, <3>4, <5>1, <5>2, <6>1 DEF GateLaws
        <5>3. CASE Judges(x) # "managers"
          <6>1. /\ \E i \in 2 .. Len(todo) : todo[i] = "after"
                /\ endpoints => \E i \in 2 .. Len(todo) : todo[i] = "network"
                /\ Len(todo) \in Nat
            BY <1>1, PlanFacts DEF Grounded, PlanOK
          <6>2. Judges(x) = "after" \/ (Judges(x) = "network" /\ endpoints)
            BY <3>2, <5>3 DEF Judges
          <6>3. \E i \in 1 .. Len(todo) : todo[i] = Judges(x) BY <6>1, <6>2
          <6> QED BY <1>1, <3>4, <5>1, <5>3, <6>3 DEF GateLaws
        <5> QED BY <5>2, <5>3
      <4>2. GateWrong(x) BY <3>2, <4>1 DEF GateWrong
      <4> QED BY <3>4, <4>2 DEF Condemned
    <3> QED BY <3>2, <3>3, <3>4
  <2> QED BY <2>1, <2>2 DEF AtOnce
<1> QED BY <1>2, <1>3, <1>4

LEMMA ReckoningNext ==
  Grounded' /\ AtOnce' =>
    (AskedOnce /\ todo # <<>> /\ Inventory = task /\ (Healthy \/ onBoot = 0 \/ Condemned))'
BY Reckoning, PTL

\* Before it, the task of the managers is in its first round.
LEMMA NotYetAsked ==
  ASSUME Grounded, NEW r \in {1, 2}, NEW x, Reading(r, x), ~ AllAsked, Head(todo) = "managers"
  PROVE  /\ r = 1 /\ reads[1][1] = 1 /\ Program("managers", reads) /\ Ordered(reads)
         /\ Occurs(reads, <<2, "system">>) /\ Occurs(reads, <<2, "processes">>)
         /\ Tail(reads)[1][1] # 3
         /\ Tail(reads)[1][1] >= 2 /\ x # "processes" =>
              /\ x # "units"
              /\ \A u \in Named : Occurs(reads, <<2, u>>)
<1>1. /\ reads # <<>> /\ todo # <<>> /\ reads[1] = <<r, x>> /\ Tail(reads) # <<>>
      /\ Program("managers", reads) /\ Ordered(reads) /\ Covers(reads, Named)
      /\ Occurs(reads, <<2, "system">>) /\ (r = 1 => Tail(reads)[1][1] # 3)
      /\ Program("managers", Tail(reads)) /\ Ordered(Tail(reads))
  BY ReadingFacts
<1>2. r = 1 /\ reads[1][1] = 1
  <2>1. ~ (reads[1][1] >= 2) BY <1>1 DEF AllAsked
  <2>2. reads[1][1] = r BY <1>1
  <2> QED BY <2>1, <2>2
<1>3. Len(reads) \in Nat \ {0} BY <1>1, ProgramGoesOn
<1>4. 1 \in 1 .. Len(reads) BY <1>3
<1>5. Occurs(reads, <<2, "processes">>)
  <2>1. Len(reads) # 1
    <3> SUFFICES ASSUME Len(reads) = 1 PROVE FALSE OBVIOUS
    <3>1. reads[1] = <<3, "boot">> BY <1>1, <1>4 DEF Program
    <3> QED BY <1>2, <3>1
  <2>2. Len(reads) # 2
    <3> SUFFICES ASSUME Len(reads) = 2 PROVE FALSE OBVIOUS
    <3>1. reads[1] = <<2, "system">> BY <1>1 DEF Ordered
    <3> QED BY <1>2, <3>1
  <2>3. Len(reads) >= 3 /\ Len(reads) - 2 \in 1 .. Len(reads)
    <3>1. \A n \in Nat \ {0} : n # 1 /\ n # 2 => n >= 3 /\ n - 2 \in 1 .. n OBVIOUS
    <3> QED BY <1>3, <2>1, <2>2, <3>1
  <2>4. reads[Len(reads) - 2] = <<2, "processes">> BY <1>1, <2>3 DEF Ordered
  <2> QED BY <2>3, <2>4 DEF Occurs
<1>6. ASSUME Tail(reads)[1][1] >= 2, x # "processes"
      PROVE  x # "units" /\ \A u \in Named : Occurs(reads, <<2, u>>)
  <2>1. ~ Occurs(reads, <<1, "processes">>)
    <3> SUFFICES ASSUME Occurs(reads, <<1, "processes">>) PROVE FALSE OBVIOUS
    <3>1. <<1, "processes">> # reads[1] BY <1>1, <1>6
    <3>2. Occurs(Tail(reads), <<1, "processes">>) BY <1>1, <3>1, OccursStays
    <3>3. PICK i \in 1 .. Len(Tail(reads)) : Tail(reads)[i] = <<1, "processes">>
      BY <3>2 DEF Occurs
    <3>4. Len(Tail(reads)) \in Nat \ {0} BY <1>1, ProgramGoesOn
    <3>5. Tail(reads)[i][1] = 1 BY <3>3
    <3>6. i # 1
      <4>1. ~ (1 >= 2) OBVIOUS
      <4> QED BY <1>6, <3>5, <4>1
    <3>7. 1 \in 1 .. Len(Tail(reads)) /\ 1 < i BY <3>4, <3>6
    <3>8. Tail(reads)[1][1] <= 1 BY <1>1, <3>5, <3>7 DEF Ordered
    <3>9. Tail(reads)[1][1] \in {1, 2, 3} BY <1>1, ProgramGoesOn
    <3>10. \A n \in {1, 2, 3} : ~ (n <= 1 /\ n >= 2) OBVIOUS
    <3> QED BY <1>6, <3>8, <3>9, <3>10
  <2>2. ~ (reads[1][1] >= 2) BY <1>2
  <2>3. ~ Occurs(reads, <<1, "units">>) /\ \A u \in Named : Occurs(reads, <<2, u>>)
    BY <1>1, <2>1, <2>2 DEF Covers
  <2>4. x # "units" BY <1>1, <1>2, <1>4, <2>3 DEF Occurs
  <2> QED BY <2>3, <2>4
<1> QED BY <1>1, <1>2, <1>5, <1>6

\* Only reading on in the task of the managers comes to it.
LEMMA AskedNow ==
  ASSUME Grounded, Grounded', HealthSteps, ~ AllAsked, AllAsked'
  PROVE  AtOnce'
<1>0. todo # <<>> /\ Head(todo) \in Tasks BY TypeFacts DEF AllAsked
<1>1. Head(todo) \in {"before", "managers"} BY <1>0 DEF AllAsked, Tasks
<1>2. CASE \E x \in Gates \cup Users : FirstRead(x) \/ SecondRead(x) \/ CommandFails(x)
  <2>1. PICK x \in Gates \cup Users : FirstRead(x) \/ SecondRead(x) \/ CommandFails(x) BY <1>2
  <2>2. PICK r \in {1, 2}, v \in Verdicts : ReadStep(r, x, v) BY <2>1, ReadSteps DEF Grounded
  <2>3. Reading(r, x) /\ reads' = Tail(reads) /\ todo' = todo /\ Head(todo)' = Head(todo)
    BY <2>2 DEF ReadStep, Step, Stays
  <2>4. Head(todo) = "managers" BY <1>0, <1>1, <2>3 DEF AllAsked
  <2>5. /\ reads # <<>> /\ reads[1] = <<r, x>> /\ Tail(reads) # <<>>
        /\ Tail(reads)[1][1] \in {1, 2, 3}
    BY <2>3, <2>4, ReadingFacts
  <2>6. reads'[1][1] >= 2 BY <1>0, <2>3, <2>4 DEF AllAsked
  <2>7. x # "processes" BY HealthFacts DEF Gates
  <2>8. /\ r = 1 /\ Program("managers", reads)
        /\ Occurs(reads, <<2, "system">>) /\ Occurs(reads, <<2, "processes">>)
        /\ Tail(reads)[1][1] # 3
        /\ \A u \in Named : Occurs(reads, <<2, u>>)
    BY <2>3, <2>4, <2>6, <2>7, NotYetAsked
  <2>9. \A y : Occurs(reads, <<2, y>>) => Occurs(reads', <<2, y>>)
    <3> TAKE y
    <3>1. <<2, y>> # reads[1] BY <2>5, <2>8
    <3> QED BY <2>3, <2>5, <2>8, <3>1, OccursStays
  <2>10. reads'[1][1] = 2
    <3>1. \A n \in {1, 2, 3} : n # 3 /\ n >= 2 => n = 2 OBVIOUS
    <3> QED BY <2>3, <2>5, <2>6, <2>8, <3>1
  <2>11. task'.running = task.running
    <3>1. x \in Things /\ task \in Observations BY ThingFacts, TypeFacts
    <3>2. task' = [task EXCEPT !.seen[x] = v] BY <2>2 DEF ReadStep
    <3> QED BY <3>1, <3>2 DEF Observations
  <2>12. \A u \in Users : task'.running[u] # 0 => Occurs(reads', <<2, u>>)
    BY <2>8, <2>9, <2>11 DEF Named
  <2> QED BY <1>0, <2>3, <2>4, <2>5, <2>8, <2>9, <2>10, <2>12 DEF AtOnce
<1>3. CASE FirstUnits \/ SecondUnits \/ SecondProcesses
  <2>1. PICK r \in {1, 2}, x \in {"units", "processes"} :
          Reading(r, x) /\ (r = 1 => x = "units")
    BY <1>3 DEF FirstUnits, SecondUnits, SecondProcesses
  <2>2. reads' = Tail(reads) /\ todo' = todo /\ Head(todo)' = Head(todo)
    BY <1>3 DEF FirstUnits, SecondUnits, SecondProcesses, Step, Other
  <2>3. Head(todo) = "managers" BY <1>0, <1>1, <2>2 DEF AllAsked
  <2>4. reads'[1][1] >= 2 BY <1>0, <2>2, <2>3 DEF AllAsked
  <2>5. r = 1 BY <2>1, <2>3, NotYetAsked
  <2>6. x = "units" /\ x # "processes" BY <2>1, <2>5
  <2>7. x # "units" BY <2>1, <2>2, <2>3, <2>4, <2>6, NotYetAsked
  <2> QED BY <2>6, <2>7
<1>4. CASE FirstProcesses
  <2>1. Reading(1, "processes") /\ todo' = todo /\ Head(todo)' = Head(todo)
        /\ reads' = Asked(1) \o Asked(2) \o Tail(reads) /\ Listed = Named
        /\ task' = [task EXCEPT !.running = manager]
    BY <1>4 DEF FirstProcesses, Other
  <2>2. /\ Head(todo) = "managers" /\ Program("managers", reads') /\ reads' # <<>>
        /\ Ordered(reads') /\ reads'[1][1] # 3 /\ Occurs(reads', <<2, "processes">>)
        /\ \A u \in Named : Occurs(reads', <<2, u>>)
    BY <2>1, AsksWell
  <2>3. reads'[1][1] >= 2 BY <1>0, <2>1, <2>2 DEF AllAsked
  <2>4. reads'[1][1] = 2
    <3>1. reads'[1][1] \in {1, 2, 3} BY <2>2, ProgramGoesOn
    <3>2. \A n \in {1, 2, 3} : n # 3 /\ n >= 2 => n = 2 OBVIOUS
    <3> QED BY <2>2, <2>3, <3>1, <3>2
  <2>5. Occurs(reads', <<2, "system">>) BY <2>2, TailOrdered
  <2>6. task'.running = manager
    <3>1. task \in Observations BY TypeFacts
    <3> QED BY <2>1, <3>1 DEF Observations
  <2>7. \A u \in Users : task'.running[u] # 0 => Occurs(reads', <<2, u>>)
    <3> TAKE u \in Users
    <3>1. manager[u] # 0 => u \in Named BY <2>1 DEF Listed
    <3> QED BY <2>2, <2>6, <3>1
  <2> QED BY <1>0, <2>1, <2>2, <2>4, <2>5, <2>7 DEF AtOnce
<1>5. CASE InventoryDiffers \/ InventoryFails
  <2>1. GiveUpStep BY <1>5, GiveUpSteps
  <2>2. PICK r \in {1, 2}, x \in {"units", "processes"} : Reading(r, x) BY <2>1 DEF GiveUpStep
  <2>3. Head(todo) = "managers" BY <2>2, ReadingFacts, TypeFacts, ThingFacts
  <2>4. /\ todo' = todo /\ Head(todo)' = Head(todo) /\ reads' = << <<2, "system">> >> \o TheEnd
        /\ task' = [task EXCEPT !.seen["managers"] = "unavailable"]
    BY <2>1 DEF GiveUpStep, GiveUp
  <2>5. /\ reads' # <<>> /\ reads'[1][1] = 2 /\ Occurs(reads', <<2, "system">>)
        /\ ~ Occurs(reads', <<2, "processes">>)
    BY <2>4, GivesUpWell
  <2>6. task'.seen["managers"] # "clean"
    <3>1. task \in Observations /\ "managers" \in Things BY TypeFacts DEF Things
    <3> QED BY <2>4, <3>1 DEF Observations
  <2> QED BY <1>0, <2>3, <2>4, <2>5, <2>6 DEF AtOnce
<1>6. CASE Open
  <2>1. /\ reads' = ReadsOf(Head(todo)) \o TheEnd /\ todo' = todo /\ Head(todo)' = Head(todo)
    BY <1>6 DEF Open, Other
  <2>2. Head(todo) = "managers" BY <1>0, <1>1, <2>1 DEF AllAsked
  <2>3. reads'[1][1] = 1 BY <1>0, <2>1, <2>2, BeginsWell
  <2>4. ~ (reads'[1][1] >= 2) BY <2>3
  <2> QED BY <1>0, <2>1, <2>2, <2>4 DEF AllAsked
<1>7. CASE ReportTask
  <2>1. reads # <<>> /\ reads[1] = <<3, "boot">> BY <1>7, EndFacts DEF ReportTask
  <2>2. Head(todo) # "managers"
    <3>1. reads[1][1] = 3 /\ 3 >= 2 BY <2>1
    <3> QED BY <1>0, <2>1, <3>1 DEF AllAsked
  <2>3. Head(todo) = "before" BY <1>1, <2>2
  <2>4. todo' = Tail(todo) /\ reads' = <<>> BY <1>7 DEF ReportTask
  <2>5. Tail(todo) # <<>> /\ Head(Tail(todo)) = "managers"
    BY <1>0, <2>3, PlanFacts DEF Grounded, PlanOK
  <2>6. todo' # <<>> /\ Head(todo') = "managers" BY <2>4, <2>5
  <2> QED BY <2>4, <2>6 DEF AllAsked
<1>8. CASE Error \/ Decide \/ Retain BY <1>8, JudgingCarried
<1>9. CASE HostLives BY <1>9, WorldCarried
<1> QED BY <1>2, <1>3, <1>4, <1>5, <1>6, <1>7, <1>8, <1>9 DEF HealthSteps, HostLives

LEMMA StepCarried ==
  ASSUME Grounded, Grounded', AllAsked, HealthSteps
  PROVE  Carried
<1>1. CASE Open BY <1>1, OpenCarried
<1>2. CASE ReportTask BY <1>2, ReportCarried
<1>3. CASE Error \/ Decide \/ Retain BY <1>3, JudgingCarried
<1>4. CASE \E x \in Gates \cup Users : FirstRead(x) \/ SecondRead(x) \/ CommandFails(x)
  <2>1. PICK x \in Gates \cup Users : FirstRead(x) \/ SecondRead(x) \/ CommandFails(x) BY <1>4
  <2>2. PICK r \in {1, 2}, v \in Verdicts : ReadStep(r, x, v) BY <2>1, ReadSteps DEF Grounded
  <2> QED BY <2>2, ReadCarried
<1>5. CASE FirstUnits \/ FirstProcesses BY <1>5, FirstNotAsked
<1>6. CASE SecondUnits \/ SecondProcesses BY <1>6, UnitsCarried
<1>7. CASE InventoryDiffers \/ InventoryFails BY <1>7, GiveUpSteps, GiveUpCarried
<1>8. CASE HostLives BY <1>8, WorldCarried
<1> QED BY <1>1, <1>2, <1>3, <1>4, <1>5, <1>6, <1>7, <1>8 DEF HealthSteps, HostLives

LEMMA AccountedStep ==
  ASSUME HealthInv, HealthNext
  PROVE  Accounted'
<1>1. Grounded /\ Grounded' /\ sound \subseteq sound' /\ HealthSteps
  BY GroundedStep DEF HealthInv, HealthNext
<1>2. CASE AllAsked
  <2>1. Carried BY <1>1, <1>2, StepCarried
  <2>2. Inventory.boot \in sound \/ Inventory.boot = 0 \/ BootLost \/ Condemned
    BY <1>2 DEF HealthInv, Accounted
  <2> QED BY <1>1, <2>1, <2>2 DEF Carried, Accounted
<1>3. CASE ~ AllAsked /\ AllAsked'
  <2>1. AtOnce' BY <1>1, <1>3, AskedNow
  <2>2. /\ AskedOnce' /\ todo' # <<>> /\ Inventory' = task'
        /\ Healthy' \/ onBoot' = 0 \/ Condemned'
    BY <1>1, <2>1, ReckoningNext
  <2>3. Healthy' => onBoot' \in sound' BY <2>2 DEF HealthNext
  <2>4. onBoot' # Inventory'.boot => BootLost' BY <2>2 DEF BootLost
  <2> QED BY <2>2, <2>3, <2>4 DEF Accounted
<1>4. CASE ~ AllAsked' BY <1>4 DEF Accounted
<1> QED BY <1>2, <1>3, <1>4

\* A pass is of a boot that was not lost, and nothing of it was found wrong.
LEMMA PassesAtOnce ==
  ASSUME HealthInv, todo = <<>>, Passes
  PROVE  reports["before"].boot \in sound
<1>1. AllAsked BY DEF AllAsked
<1>2. /\ reports["before"] = reports["after"]
      /\ reports["managers"].boot = reports["before"].boot
      /\ BootPasses(reports["before"]) /\ ManagersPass(reports["managers"])
      /\ endpoints => NetworkPasses(reports["network"])
  BY DEF Passes, Bracketed
<1>3. /\ Inventory = reports["managers"] /\ \A x : ~ Left(x)
      /\ \A t : Known(t) = reports[t]
      /\ \A x : ~ Ahead(x)
  BY DEF Inventory, Known, Left, Ahead
<1>4. ~ BootLost
  <2>1. reports["after"].boot = Inventory.boot BY <1>2, <1>3
  <2> QED BY <2>1 DEF BootLost
<1>5. Inventory.boot # 0
  <2>1. reports["before"].boot # 0 BY <1>2 DEF BootPasses
  <2> QED BY <1>2, <1>3, <2>1
<1>6. ASSUME NEW x \in Gates PROVE ~ GateWrong(x)
  <2> SUFFICES ASSUME x \in {"network", "answer"} => endpoints
               PROVE  reports[Judges(x)].seen[x] = "clean"
    BY <1>3 DEF GateWrong
  <2>1. CASE x \in {"kernel", "mounts", "storage"}
    <3>1. Judges(x) = "after" BY <2>1 DEF Judges
    <3>2. reports["before"].seen[x] = "clean" BY <1>2, <2>1 DEF BootPasses, Clean
    <3> QED BY <1>2, <3>1, <3>2
  <2>2. CASE x \in {"network", "answer"}
    <3>1. Judges(x) = "network" BY <2>2 DEF Judges
    <3>2. reports["network"].seen[x] = "clean" BY <1>2, <2>2 DEF NetworkPasses, Clean
    <3> QED BY <3>1, <3>2
  <2>3. CASE x = "system"
    <3>1. Judges(x) = "managers" BY <2>3 DEF Judges
    <3>2. reports["managers"].seen[x] = "clean" BY <1>2, <2>3 DEF ManagersPass, Clean
    <3> QED BY <3>1, <3>2
  <2> QED BY <2>1, <2>2, <2>3 DEF Gates
<1>7. ASSUME NEW u \in Users PROVE ~ UserWrong(u)
  <2> SUFFICES ASSUME Inventory.running[u] # 0 PROVE Inventory.seen[u] = "clean"
    BY <1>3 DEF UserWrong
  <2>1. reports["managers"].running[u] # 0 BY <1>3
  <2>2. reports["managers"].seen[u] = "clean" BY <1>2, <2>1 DEF ManagersPass, Clean
  <2> QED BY <1>3, <2>2
<1>8. ~ InventoryWrong
  <2>1. reports["managers"].seen["managers"] = "clean" BY <1>2 DEF ManagersPass, Clean
  <2>2. Inventory.seen["managers"] = "clean" BY <1>3, <2>1
  <2> QED BY <2>2 DEF InventoryWrong
<1>9. ~ Condemned BY <1>6, <1>7, <1>8 DEF Condemned
<1>10. Inventory.boot \in sound BY <1>1, <1>4, <1>5, <1>9 DEF HealthInv, Accounted
<1> QED BY <1>2, <1>3, <1>10

LEMMA PassStep ==
  ASSUME HealthInv, HealthNext
  PROVE  PassWasHealthyAtOnce'
<1>1. sound \subseteq sound' /\ HealthSteps BY GroundedStep DEF HealthInv, HealthNext
<1>2. CASE Retain
  <2>1. reports' = reports /\ outcome \in {"pass", "fail"} /\ (retained' = "pass" => Passes)
    BY <1>2 DEF Retain, collection
  <2>2. todo = <<>> BY <2>1 DEF HealthInv, Grounded, PlanOK
  <2>3. Passes => reports["before"].boot \in sound BY <2>2, PassesAtOnce
  <2> QED BY <1>1, <2>1, <2>3 DEF PassWasHealthyAtOnce
<1>3. CASE ~ Retain
  <2>1. outcome = "open" /\ retained' = retained
    BY <1>1, <1>3 DEF HealthSteps, Open, ReportTask, Error, Decide, FirstRead, SecondRead,
         CommandFails, FirstUnits, FirstProcesses, SecondUnits, SecondProcesses,
         InventoryDiffers, InventoryFails, GiveUp, Other, Reading, Break, StartManager,
         StopManager, HostReboots, Happens
  <2>2. retained = "none" BY <2>1 DEF HealthInv, Grounded, PlanOK
  <2> QED BY <2>1, <2>2 DEF PassWasHealthyAtOnce
<1> QED BY <1>2, <1>3

LEMMA HealthStart == HealthInit => HealthInv
<1> SUFFICES ASSUME HealthInit PROVE HealthInv OBVIOUS
<1>1. Grounded BY GroundedStart
<1>2. ~ AllAsked
  <2>1. todo # <<>> /\ Head(todo) = "before" BY DEF HealthInit
  <2> QED BY <2>1 DEF AllAsked
<1>3. PassWasHealthyAtOnce BY DEF HealthInit, PassWasHealthyAtOnce
<1> QED BY <1>1, <1>2, <1>3 DEF HealthInv, Accounted

LEMMA HealthStep == HealthInv /\ [HealthNext]_healthVars => HealthInv'
<1> SUFFICES ASSUME HealthInv, [HealthNext]_healthVars PROVE HealthInv' OBVIOUS
<1>1. CASE HealthNext
  <2>1. Grounded' BY <1>1, GroundedStep DEF HealthInv
  <2> QED BY <1>1, <2>1, AccountedStep, PassStep DEF HealthInv
<1>2. CASE UNCHANGED healthVars
  <2>1. /\ onBoot' = onBoot /\ bad' = bad /\ manager' = manager /\ events' = events
        /\ endpoints' = endpoints /\ todo' = todo /\ reads' = reads /\ task' = task
        /\ reports' = reports /\ outcome' = outcome /\ retained' = retained /\ sound' = sound
    BY <1>2 DEF healthVars, host, collection
  <2>2. Grounded'
    <3>1. HealthTypeOK' BY <2>1 DEF HealthInv, Grounded, HealthTypeOK
    <3>2. PlanOK' BY <2>1 DEF HealthInv, Grounded, PlanOK, Plans
    <3>3. ProgramOK' BY <2>1 DEF HealthInv, Grounded, ProgramOK, Named
    <3>4. BootsOK' BY <2>1 DEF HealthInv, Grounded, BootsOK
    <3> QED BY <3>1, <3>2, <3>3, <3>4 DEF Grounded
  <2>3. Accounted'
    BY <2>1, Zenon DEF HealthInv, Accounted, AllAsked, Inventory, Known, BootLost, Condemned,
       GateWrong, UserWrong, InventoryWrong, Ahead, Left
  <2>4. PassWasHealthyAtOnce' BY <2>1 DEF HealthInv, PassWasHealthyAtOnce
  <2> QED BY <2>2, <2>3, <2>4 DEF HealthInv
<1> QED BY <1>1, <1>2

\* For any users, any happenings on the host and any reads that fail: who is retained
\* as healthy was so at one instant of the boot that was judged
\* (update_health.pp:40-62, retain_update_health.py).
THEOREM HealthSafety == HealthSpec => [](HealthTypeOK /\ PassWasHealthyAtOnce)
<1>1. HealthInv => HealthTypeOK /\ PassWasHealthyAtOnce BY DEF HealthInv, Grounded
<1> QED BY <1>1, HealthStart, HealthStep, PTL DEF HealthSpec

-----------------------------------------------------------------------------
(***************************************************************************)
(* The suite.  Each of the six parts behaves by its own specification, for *)
(* the others leave its variables alone; so what is proved of a part holds *)
(* of the suite.                                                           *)
(***************************************************************************)
LEMMA SuiteParts ==
  ASSUME SuiteNext
  PROVE  /\ [Next]_vars /\ [HealthNext]_healthVars /\ [CatalogNext]_catalogVars
         /\ [MigrationNext]_migrationVars /\ [SignInNext]_signInVars /\ [DigestNext]_digestVars
BY DEF SuiteNext

\* A behaviour of the suite is one of the lifecycle (update_lifecycle.rb), of the
\* health (update_health.pp), of the catalog (update_catalog_apply.rb), of the
\* migration (migrate_embeddings.py), of signing in (auth proxy) and of the digest
\* (release_digest.py): that they share one run of the checker restricts none.
THEOREM SuiteRunsParts ==
  SuiteSpec => Spec /\ HealthSpec /\ CatalogSpec /\ MigrationSpec /\ SignInSpec /\ DigestSpec
<1>1. SuiteInit =>
        Init /\ HealthInit /\ CatalogInit /\ MigrationInit /\ SignInInit /\ DigestInit
  BY DEF SuiteInit, OverlapInit, ObservationInit, DatabaseInit
<1> DEFINE all == <<part, vars, healthVars, catalogVars, migrationVars, signInVars, digestVars>>
<1>2. UNCHANGED all =>
        UNCHANGED <<vars, healthVars, catalogVars, migrationVars, signInVars, digestVars>>
  OBVIOUS
<1>3. [SuiteNext]_all => [Next]_vars BY <1>2, SuiteParts
<1>4. [SuiteNext]_all => [HealthNext]_healthVars BY <1>2, SuiteParts
<1>5. [SuiteNext]_all => [CatalogNext]_catalogVars BY <1>2, SuiteParts
<1>6. [SuiteNext]_all => [MigrationNext]_migrationVars BY <1>2, SuiteParts
<1>7. [SuiteNext]_all => [SignInNext]_signInVars BY <1>2, SuiteParts
<1>8. [SuiteNext]_all => [DigestNext]_digestVars BY <1>2, SuiteParts
<1> QED
  BY <1>1, <1>3, <1>4, <1>5, <1>6, <1>7, <1>8, PTL
     DEF SuiteSpec, Spec, HealthSpec, CatalogSpec, MigrationSpec, SignInSpec, DigestSpec

\* What is retained of a host's health and of its catalog was so, and what a digest
\* is silent about was told.
THEOREM RecordedSafety == SuiteSpec => []RecordedWasTrue
<1>1. PassWasHealthyAtOnce /\ PassWasConverged /\ SilenceWasTold => RecordedWasTrue
  BY DEF RecordedWasTrue
<1>2. HealthTypeOK /\ PassWasHealthyAtOnce => PassWasHealthyAtOnce OBVIOUS
<1> QED BY <1>1, <1>2, SuiteRunsParts, HealthSafety, CatalogSafety, DigestSafety, PTL

\* The variables of every part keep their types, also while another part runs.
THEOREM SuiteTypes == SuiteSpec => []TypesOK
<1>1. DigestInv => DigestTypeOK
  <2> SUFFICES ASSUME DigestInv PROVE DigestTypeOK OBVIOUS
  <2>1. ASSUME NEW r \in Runners
        PROVE  /\ runAt[r] \in {"idle", "watch", "load", "decide", "open", "write", "replace",
                                "exit"}
               /\ watched[r] \in 0 .. Len(WATCHERS)
               /\ [items |-> items[r], errors |-> errors[r]] \in Digests
               /\ noted[r] \in Digests /\ buffer[r] \in Digests
    <3>1. Len(WATCHERS) = 5 BY DEF WATCHERS
    <3>2. /\ runAt[r] \in Places /\ watched[r] \in 0 .. 5
          /\ items[r] \in SUBSET Drifts /\ errors[r] \in SUBSET Stacks
          /\ noted[r] \in Digests /\ buffer[r] \in Digests
      BY DEF DigestInv, DigestShape
    <3> QED BY <3>1, <3>2 DEF Places, Digests, Drifts
  <2>2. \A i \in Inodes : disk[i] = Cut \/ disk[i] \in Digests BY DEF DigestInv, DigestShape
  <2>3. \A d \in delivered \cup lost \cup silenced : d \in Digests
    BY DEF DigestInv, DigestShape
  <2> QED BY <2>1, <2>2, <2>3 DEF DigestInv, DigestShape, DigestTypeOK
<1>2. CatalogInv => CatalogTypeOK BY DEF CatalogInv
<1>3. MigrationInv => MigrationTypeOK BY DEF MigrationInv
<1>4. SignInInv => SignInTypeOK BY DEF SignInInv
<1>5. /\ TypeOK /\ HealthTypeOK /\ CatalogTypeOK /\ MigrationTypeOK /\ SignInTypeOK /\ DigestTypeOK
      => TypesOK
  BY DEF TypesOK
<1> QED
  BY <1>1, <1>2, <1>3, <1>4, <1>5, SuiteRunsParts, TypeCorrect, HealthSafety, CatalogInvariant,
     MigrationInvariant, SignInInvariant, DigestInvariant, PTL
==============================================================================
