--------------------------- MODULE Sessions_proofs ---------------------------
(* Proofs about Sessions, for any servers, browsers, users and identifiers and  *)
(* however many requests are on their way; about Answers, for any               *)
(* configurations, requests and files; about ScriptAnswer, for any scripts; and *)
(* about Reading, for any requests and pieces.                                  *)
EXTENDS Sessions, Sequences, WellFoundedInduction, TLAPS

-----------------------------------------------------------------------------
(* The inductive invariant.                                                    *)

Requests == [browser : Browsers, server : Servers, page : Pages, who : Users \cup {None}, session_id : Sids \cup {None}]
Records  == [server : Servers, sid : Sids, user : Users, at : Nat]

\* What a store holds of a session.
Entry(m) == [username |-> m.user, expires_at |-> m.at + TTL]

TypeOK ==
  /\ now \in Nat
  /\ sent \subseteq Requests /\ made \subseteq Records
  /\ \A b \in Browsers : jar[b].sid \in Sids \cup {None}
  /\ DOMAIN store = Servers /\ DOMAIN jar = Browsers

\* An identifier was given to one, and only one that was given is logged out.
GivenOnce ==
  /\ \A m, n \in made : m.sid = n.sid => m = n
  /\ \A sid \in ended : \E m \in made : m.sid = sid

\* A store has sessions that were made there and not logged out since.
NoneInvented ==
  \A s \in Servers : \A sid \in DOMAIN store[s] :
    sid \notin ended /\ \E m \in made : m.server = s /\ m.sid = sid /\ store[s][sid] = Entry(m)

\* A session that lives is in the store of its server.
NoneForgotten ==
  \A m \in made : m.sid \notin ended /\ now =< m.at + TTL => m.sid \in DOMAIN store[m.server]

IInv == TypeOK /\ GivenOnce /\ NoneInvented /\ NoneForgotten

-----------------------------------------------------------------------------
(* What the operations make of a store.                                        *)

\* create_session() enters one session at one server.
LEMMA CreatedAt ==
  ASSUME NEW s \in Servers, NEW sid, NEW name, DOMAIN store = Servers, create_session(s, sid, name)
  PROVE  /\ DOMAIN store' = Servers
         /\ \A t \in Servers : t # s => store'[t] = store[t]
         /\ DOMAIN store'[s] = {sid} \cup DOMAIN store[s]
         /\ \A k \in DOMAIN store'[s] :
              store'[s][k] = IF k = sid THEN [username |-> name, expires_at |-> now + TTL] ELSE store[s][k]
  BY DEF create_session

\* destroy_session() and an expiry take one session out at one server.
LEMMA WithoutAt ==
  ASSUME NEW s \in Servers, NEW sid, DOMAIN store = Servers
  PROVE  /\ DOMAIN Without(s, sid) = Servers
         /\ \A t \in Servers : t # s => Without(s, sid)[t] = store[t]
         /\ DOMAIN Without(s, sid)[s] = DOMAIN store[s] \ {sid}
         /\ \A k \in DOMAIN store[s] \ {sid} : Without(s, sid)[s][k] = store[s][k]
  BY DEF Without

\* Before anybody has signed in nothing is in a store.
LEMMA InvInit == Init => IInv
  BY DEF Init, IInv, TypeOK, GivenOnce, NoneInvented, NoneForgotten, Empty

\* Asking changes no session.
LEMMA AskKeeps ==
  ASSUME IInv, NEW b \in Browsers, NEW s \in Servers, NEW page \in Pages, NEW who \in Users \cup {None},
         Ask(b, s, page, who)
  PROVE  IInv'
<1>1. UNCHANGED <<store, now, jar, made, ended>>
  BY DEF Ask
<1>2. PICK sid \in {jar[b].sid, IF jar[b].until > now THEN jar[b].sid ELSE None} :
        sent' = sent \cup {[browser |-> b, server |-> s, page |-> page, who |-> who, session_id |-> sid]}
  BY DEF Ask
<1>3. sid \in Sids \cup {None}
  BY <1>2 DEF IInv, TypeOK
<1>4. sent' \subseteq Requests
  BY <1>2, <1>3 DEF IInv, TypeOK, Requests
<1>5. TypeOK'
  BY <1>1, <1>4 DEF IInv, TypeOK
<1> QED BY <1>1, <1>5 DEF IInv, GivenOnce, NoneInvented, NoneForgotten, Entry

\* A login makes one session, whose identifier is new.
LEMMA LoginKeeps ==
  ASSUME IInv, NEW r \in sent, Login(r)
  PROVE  IInv'
<1>1. r \in Requests /\ r.server \in Servers /\ r.browser \in Browsers
  BY DEF IInv, TypeOK, Requests
<1>2. sent' \subseteq Requests /\ UNCHANGED <<now, ended>>
  BY DEF Login, Answers, IInv, TypeOK
<1>3. CASE UNCHANGED <<store, made, jar>>
  <2>1. TypeOK'
    BY <1>2, <1>3 DEF IInv, TypeOK
  <2> QED BY <1>2, <1>3, <2>1 DEF IInv, GivenOnce, NoneInvented, NoneForgotten, Entry
<1>4. CASE r.who \in Users /\ \E sid \in Sids \ {m.sid : m \in made} :
                /\ create_session(r.server, sid, r.who)
                /\ made' = made \cup {[server |-> r.server, sid |-> sid, user |-> r.who, at |-> now]}
                /\ jar' = [jar EXCEPT ![r.browser] = [sid |-> sid, until |-> now + TTL]]
  <2>1. PICK sid \in Sids \ {m.sid : m \in made} :
          /\ create_session(r.server, sid, r.who)
          /\ made' = made \cup {[server |-> r.server, sid |-> sid, user |-> r.who, at |-> now]}
          /\ jar' = [jar EXCEPT ![r.browser] = [sid |-> sid, until |-> now + TTL]]
    BY <1>4
  <2> DEFINE new == [server |-> r.server, sid |-> sid, user |-> r.who, at |-> now]
  <2>2. /\ new.server = r.server /\ new.sid = sid /\ new.user = r.who /\ new.at = now
        /\ new \in Records /\ made' = made \cup {new} /\ new \notin made
    BY <1>1, <1>4, <2>1 DEF IInv, TypeOK, Records
  <2> HIDE DEF new
  <2>3. DOMAIN store = Servers
    BY DEF IInv, TypeOK
  <2>4. /\ DOMAIN store' = Servers
        /\ \A t \in Servers : t # r.server => store'[t] = store[t]
        /\ DOMAIN store'[r.server] = {sid} \cup DOMAIN store[r.server]
        /\ \A k \in DOMAIN store'[r.server] :
             store'[r.server][k] = IF k = sid THEN [username |-> r.who, expires_at |-> now + TTL] ELSE store[r.server][k]
    BY <1>1, <2>1, <2>3, CreatedAt
  <2>5. \A m \in made : m.sid # sid /\ m \in Records
    BY <2>1 DEF IInv, TypeOK
  <2>6. sid \notin ended
    BY <2>5 DEF IInv, GivenOnce
  <2>7. TypeOK'
    <3>1. DOMAIN jar' = Browsers /\ \A b \in Browsers : jar'[b].sid \in Sids \cup {None}
      BY <1>1, <2>1 DEF IInv, TypeOK
    <3> QED BY <1>2, <2>2, <2>4, <3>1 DEF IInv, TypeOK
  <2>8. GivenOnce'
    BY <1>2, <2>2, <2>5 DEF IInv, GivenOnce
  <2>9. NoneInvented'
    <3> SUFFICES ASSUME NEW s \in Servers, NEW k \in DOMAIN store'[s]
                 PROVE  k \notin ended /\ \E m \in made' : m.server = s /\ m.sid = k /\ store'[s][k] = Entry(m)
      BY <1>2 DEF NoneInvented, Entry
    <3>1. CASE s = r.server /\ k = sid
      BY <2>2, <2>4, <2>6, <3>1 DEF Entry
    <3>2. CASE ~(s = r.server /\ k = sid)
      <4>1. k \in DOMAIN store[s] /\ store'[s][k] = store[s][k]
        BY <1>1, <2>4, <3>2
      <4> QED BY <2>2, <4>1 DEF IInv, NoneInvented
    <3> QED BY <3>1, <3>2
  <2>10. NoneForgotten'
    <3> SUFFICES ASSUME NEW m \in made', m.sid \notin ended, now =< m.at + TTL
                 PROVE  m.sid \in DOMAIN store'[m.server]
      BY <1>2 DEF NoneForgotten
    <3>1. CASE m = new
      BY <2>2, <2>4, <3>1
    <3>2. CASE m # new
      <4>1. m \in made /\ m.sid \in DOMAIN store[m.server] /\ m.server \in Servers
        BY <2>2, <2>5, <3>2 DEF IInv, NoneForgotten, Records
      <4> QED BY <2>4, <4>1
    <3> QED BY <3>1, <3>2
  <2> QED BY <2>7, <2>8, <2>9, <2>10 DEF IInv
<1> QED BY <1>3, <1>4 DEF Login

\* An expired session that is asked for is erased: it did not live any more.
LEMMA SessionKeeps ==
  ASSUME IInv, NEW r \in sent, Session(r)
  PROVE  IInv'
<1>1. r \in Requests /\ r.server \in Servers
  BY DEF IInv, TypeOK, Requests
<1>2. sent' \subseteq Requests /\ UNCHANGED <<now, jar, made, ended>>
  BY DEF Session, Answers, IInv, TypeOK
<1> DEFINE s   == r.server
           sid == r.session_id
<1>3. CASE store' = store
  BY <1>2, <1>3 DEF IInv, TypeOK, GivenOnce, NoneInvented, NoneForgotten, Entry
<1>4. CASE sid \in DOMAIN store[s] /\ Expired(store[s][sid]) /\ store' = Without(s, sid)
  <2>1. DOMAIN store = Servers
    BY DEF IInv, TypeOK
  <2>2. /\ DOMAIN store' = Servers
        /\ \A t \in Servers : t # s => store'[t] = store[t]
        /\ DOMAIN store'[s] = DOMAIN store[s] \ {sid}
        /\ \A k \in DOMAIN store[s] \ {sid} : store'[s][k] = store[s][k]
    BY <1>1, <1>4, <2>1, WithoutAt
  <2>3. PICK m \in made : m.server = s /\ m.sid = sid /\ store[s][sid] = Entry(m)
    BY <1>1, <1>4 DEF IInv, NoneInvented
  <2>4. m \in Records /\ m.at + TTL < now
    BY <1>4, <2>3 DEF IInv, TypeOK, Expired, Entry
  <2>5. TypeOK' /\ GivenOnce'
    BY <1>2, <2>2 DEF IInv, TypeOK, GivenOnce
  <2>6. NoneInvented'
    <3> SUFFICES ASSUME NEW t \in Servers, NEW k \in DOMAIN store'[t]
                 PROVE  k \notin ended /\ \E n \in made : n.server = t /\ n.sid = k /\ store'[t][k] = Entry(n)
      BY <1>2 DEF NoneInvented, Entry
    <3>1. k \in DOMAIN store[t] /\ store'[t][k] = store[t][k]
      BY <2>2
    <3> QED BY <3>1 DEF IInv, NoneInvented
  <2>7. NoneForgotten'
    <3> SUFFICES ASSUME NEW n \in made, n.sid \notin ended, now =< n.at + TTL
                 PROVE  n.sid \in DOMAIN store'[n.server]
      BY <1>2 DEF NoneForgotten
    <3>1. n.sid \in DOMAIN store[n.server] /\ n \in Records /\ n.server \in Servers
      BY DEF IInv, TypeOK, NoneForgotten, Records
    <3>2. n # m
      BY <2>4, <1>1, TTLAssumption DEF IInv, TypeOK, Records
    <3>3. n.sid # sid
      BY <2>3, <3>2 DEF IInv, GivenOnce
    <3> QED BY <2>2, <3>1, <3>3
  <2> QED BY <2>5, <2>6, <2>7 DEF IInv
<1> QED BY <1>3, <1>4 DEF Session

\* What is logged out is taken out where it is, and nowhere else was it.
LEMMA LogoutKeeps ==
  ASSUME IInv, NEW r \in sent, Logout(r)
  PROVE  IInv'
<1>1. r \in Requests /\ r.server \in Servers /\ r.browser \in Browsers
  BY DEF IInv, TypeOK, Requests
<1>2. sent' \subseteq Requests /\ UNCHANGED <<now, made>>
  BY DEF Logout, Answers, IInv, TypeOK
<1> DEFINE s   == r.server
           sid == r.session_id
<1>3. CASE UNCHANGED <<store, jar, ended>>
  BY <1>2, <1>3 DEF IInv, TypeOK, GivenOnce, NoneInvented, NoneForgotten, Entry
<1>4. CASE sid # None
  <2>1. DOMAIN store = Servers
    BY DEF IInv, TypeOK
  <2>2. /\ DOMAIN store' = Servers
        /\ \A t \in Servers : t # s => store'[t] = store[t]
        /\ DOMAIN store'[s] = DOMAIN store[s] \ {sid}
        /\ \A k \in DOMAIN store[s] \ {sid} : store'[s][k] = store[s][k]
    BY <1>1, <1>4, <2>1, WithoutAt DEF Logout
  <2>3. /\ jar' = [jar EXCEPT ![r.browser] = [sid |-> None, until |-> 0]]
        /\ ended' = IF sid \in DOMAIN store[s] THEN ended \cup {sid} ELSE ended
    BY <1>4 DEF Logout
  <2>4. sid \in DOMAIN store[s] => \E m \in made : m.server = s /\ m.sid = sid
    BY <1>1 DEF IInv, NoneInvented
  <2>5. TypeOK'
    <3>1. DOMAIN jar' = Browsers /\ \A b \in Browsers : jar'[b].sid \in Sids \cup {None}
      BY <1>1, <2>3 DEF IInv, TypeOK
    <3> QED BY <1>2, <2>2, <3>1 DEF IInv, TypeOK
  <2>6. GivenOnce'
    BY <1>2, <2>3, <2>4 DEF IInv, GivenOnce
  <2>7. NoneInvented'
    <3> SUFFICES ASSUME NEW t \in Servers, NEW k \in DOMAIN store'[t]
                 PROVE  k \notin ended' /\ \E n \in made : n.server = t /\ n.sid = k /\ store'[t][k] = Entry(n)
      BY <1>2 DEF NoneInvented, Entry
    <3>1. k \in DOMAIN store[t] /\ store'[t][k] = store[t][k] /\ (t = s => k # sid)
      BY <2>2
    <3>2. k \notin ended
      BY <3>1 DEF IInv, NoneInvented
    <3>3. PICK n \in made : n.server = t /\ n.sid = k /\ store[t][k] = Entry(n)
      BY <3>1 DEF IInv, NoneInvented
    <3>4. k = sid /\ sid \in DOMAIN store[s] => FALSE
      <4> SUFFICES ASSUME k = sid, sid \in DOMAIN store[s] PROVE FALSE
        OBVIOUS
      <4>1. PICK m \in made : m.server = s /\ m.sid = sid
        BY <2>4
      <4>2. m = n
        BY <3>3, <4>1 DEF IInv, GivenOnce
      <4> QED BY <3>1, <3>3, <4>1, <4>2
    <3> QED BY <2>3, <3>1, <3>2, <3>3, <3>4
  <2>8. NoneForgotten'
    <3> SUFFICES ASSUME NEW n \in made, n.sid \notin ended', now =< n.at + TTL
                 PROVE  n.sid \in DOMAIN store'[n.server]
      BY <1>2 DEF NoneForgotten
    <3>1. n.sid \notin ended /\ (n.sid = sid => sid \notin DOMAIN store[s])
      BY <2>3
    <3>2. n.sid \in DOMAIN store[n.server] /\ n \in Records /\ n.server \in Servers
      BY <3>1 DEF IInv, TypeOK, NoneForgotten, Records
    <3> QED BY <2>2, <3>1, <3>2
  <2> QED BY <2>5, <2>6, <2>7, <2>8 DEF IInv
<1> QED BY <1>3, <1>4 DEF Logout

\* Time only makes sessions expire.
LEMMA TickKeeps ==
  ASSUME IInv, Tick
  PROVE  IInv'
<1>1. now' = now + 1 /\ now \in Nat /\ UNCHANGED <<store, jar, sent, made, ended>>
  BY DEF Tick, IInv, TypeOK
<1>2. TypeOK' /\ GivenOnce' /\ NoneInvented'
  BY <1>1 DEF IInv, TypeOK, GivenOnce, NoneInvented, Entry
<1>3. NoneForgotten'
  <2> SUFFICES ASSUME NEW m \in made, m.sid \notin ended, now + 1 =< m.at + TTL
               PROVE  m.sid \in DOMAIN store[m.server]
    BY <1>1 DEF NoneForgotten
  <2>1. m \in Records
    BY DEF IInv, TypeOK
  <2>2. now =< m.at + TTL
    BY <1>1, <2>1, TTLAssumption DEF Records
  <2> QED BY <2>2 DEF IInv, NoneForgotten
<1> QED BY <1>2, <1>3 DEF IInv

\* No request, in whatever order they are handled, and no passing of time leaves the invariant.
LEMMA InvNext == IInv /\ [Next]_vars => IInv'
<1> SUFFICES ASSUME IInv, [Next]_vars PROVE IInv'
  OBVIOUS
<1>1. CASE UNCHANGED vars
  BY <1>1 DEF vars, IInv, TypeOK, GivenOnce, NoneInvented, NoneForgotten, Entry
<1>2. ASSUME NEW b \in Browsers, NEW s \in Servers, NEW page \in Pages, NEW who \in Users \cup {None}, Ask(b, s, page, who)
      PROVE  IInv'
  BY <1>2, AskKeeps
<1>3. ASSUME NEW r \in sent, Login(r) \/ Session(r) \/ Logout(r) PROVE IInv'
  BY <1>3, LoginKeeps, SessionKeeps, LogoutKeeps
<1>4. CASE Tick
  BY <1>4, TickKeeps
<1> QED BY <1>1, <1>2, <1>3, <1>4 DEF Next

-----------------------------------------------------------------------------
\* A look-up finds what its session is worth at this moment.
LEMMA LookUp ==
  ASSUME IInv, NEW r \in sent, Session(r)
  PROVE  RightlyAnswered(r)
<1> DEFINE s   == r.server
           sid == r.session_id
<1>1. s \in Servers
  BY DEF IInv, TypeOK, Requests
<1>2. CASE sid \in DOMAIN store[s]
  <2>1. PICK m \in made : m.server = s /\ m.sid = sid /\ store[s][sid] = Entry(m)
    BY <1>1, <1>2 DEF IInv, NoneInvented
  <2>2. m \in Records /\ sid \notin ended /\ \A n \in made : n.sid = sid => n = m
    BY <1>1, <1>2, <2>1 DEF IInv, TypeOK, NoneInvented, GivenOnce
  <2>3. Lives(r) = IF now =< m.at + TTL THEN {m} ELSE {}
    BY <2>1, <2>2 DEF Lives
  <2>4. Expired(store[s][sid]) <=> ~(now =< m.at + TTL)
    BY <2>1, <2>2, TTLAssumption DEF Expired, Entry, Records, IInv, TypeOK
  <2>5. store[s][sid].username = m.user
    BY <2>1 DEF Entry
  <2>6. CASE now =< m.at + TTL
    <3>1. answer' = [code |-> 200, username |-> m.user]
      BY <1>2, <2>4, <2>5, <2>6 DEF Session, Answers
    <3> QED BY <2>3, <2>6, <3>1 DEF RightlyAnswered
  <2>7. CASE ~(now =< m.at + TTL)
    <3>1. answer' = [code |-> 401, username |-> None]
      BY <1>2, <2>4, <2>7 DEF Session, Answers
    <3> QED BY <2>3, <2>7, <3>1 DEF RightlyAnswered
  <2> QED BY <2>6, <2>7
<1>3. CASE sid \notin DOMAIN store[s]
  <2>1. Lives(r) = {}
    <3> SUFFICES ASSUME NEW m \in made, m.server = s, m.sid = sid, now =< m.at + TTL, m.sid \notin ended PROVE FALSE
      BY DEF Lives
    <3> QED BY <1>3 DEF IInv, NoneForgotten
  <2>2. answer' = [code |-> 401, username |-> None]
    BY <1>3 DEF Session, Answers
  <2> QED BY <2>1, <2>2 DEF RightlyAnswered
<1> QED BY <1>2, <1>3

\* What was handled in a step was answered rightly.
LEMMA StepAnswers ==
  ASSUME IInv, [Next]_vars, NEW r \in sent \ sent'
  PROVE  RightlyAnswered(r)
<1>1. CASE UNCHANGED vars
  BY <1>1 DEF vars
<1>2. ASSUME NEW b \in Browsers, NEW s \in Servers, NEW page \in Pages, NEW who \in Users \cup {None}, Ask(b, s, page, who)
      PROVE  FALSE
  BY <1>2 DEF Ask
<1>3. CASE Tick
  BY <1>3 DEF Tick
<1>4. ASSUME NEW q \in sent, Login(q) \/ Session(q) \/ Logout(q) PROVE RightlyAnswered(r)
  <2>1. r = q
    BY <1>4 DEF Login, Session, Logout, Answers
  <2>2. CASE Session(q)
    BY <2>1, <2>2, LookUp
  <2>3. CASE Login(q) \/ Logout(q)
    BY <2>1, <2>3 DEF Login, Logout, RightlyAnswered
  <2> QED BY <1>4, <2>2, <2>3
<1> QED BY <1>1, <1>2, <1>3, <1>4 DEF Next

\* /session answers with the one who logged in with this identifier at this server, exactly
\* as long as the session lives: for any servers, browsers, users and identifiers and in
\* whatever order the requests are handled (SessionStore, handle_auth_session()).
THEOREM AnsweredRightly == Spec => SessionIsTheUsers
<1>1. Init => IInv
  BY InvInit
<1>2. IInv /\ [Next]_vars => IInv'
  BY InvNext
<1>3. IInv /\ [Next]_vars => [\A r \in sent \ sent' : RightlyAnswered(r)]_vars
  BY StepAnswers
<1> QED BY <1>1, <1>2, <1>3, PTL DEF Spec, SessionIsTheUsers

-----------------------------------------------------------------------------
(* Answers.  Its variables are its own, as the requests that the model is given. *)

CONSTANTS Characters, Configs, Asked, Dirs, Files, Locked, REWRITES
VARIABLES config, files, asks, says

An == INSTANCE Answers WITH Requests <- Asked, request <- asks, answer <- says

-----------------------------------------------------------------------------
(* Numbers.                                                                    *)

\* Every set of numbers has a least one.
LEMMA LeastOf ==
  ASSUME NEW T \in SUBSET Nat, T # {}
  PROVE  \E n \in T : \A m \in T : n =< m
<1>1. PICK n \in T : \A m \in T : ~(<<m, n>> \in OpToRel(<, Nat))
  BY NatLessThanWellFounded, WFMin
<1>2. ASSUME NEW m \in T PROVE ~(m < n)
  <2>1. n \in Nat /\ m \in Nat /\ ~(<<m, n>> \in OpToRel(<, Nat))
    BY <1>1
  <2> QED BY <2>1, Zenon DEF OpToRel
<1>3. \A m \in T : n =< m
  BY <1>2
<1> QED BY <1>3

\* Induction, for a set in the place of a predicate.
LEMMA AllNumbers ==
  ASSUME NEW T, 0 \in T, \A n \in Nat : n \in T => n + 1 \in T
  PROVE  Nat \subseteq T
<1> SUFFICES ASSUME Nat \ T # {} PROVE FALSE
  OBVIOUS
<1>1. PICK n \in Nat \ T : \A m \in Nat \ T : n =< m
  BY LeastOf
<1>2. n - 1 \in Nat /\ n - 1 \in T
  BY <1>1
<1>3. n - 1 + 1 \in T
  BY <1>2
<1> QED BY <1>1, <1>3

-----------------------------------------------------------------------------
(* Answers: the returns, one after the other.                                  *)

First(uri) == [uri |-> uri, at |-> An!find_best_location_match(uri), path |-> uri, done |-> FALSE]

\* One return.
Turn(s) == An!Rewritten(s, 0)

Folded(g, uri, S) == g = [s \in SUBSET S |-> IF s = {} THEN First(uri) ELSE Turn(g[s \ {An!Max(s)}])]

\* The returns are a fold over their numbers, from the last on.
LEMMA ChosenFolds ==
  ASSUME NEW uri, REWRITES \in Nat
  PROVE  An!Chosen(uri) = (CHOOSE g : Folded(g, uri, 1 .. REWRITES))[1 .. REWRITES]
<1>1. PICK ks : ks = [k \in 1 .. REWRITES |-> k]
  OBVIOUS
<1>2. DOMAIN ks = 1 .. REWRITES
  BY <1>1
<1>3. An!Chosen(uri) = An!FoldLeft(An!Rewritten, First(uri), ks)
  BY <1>1, Zenon DEF An!Chosen, First
<1>4. An!Chosen(uri) = (CHOOSE g : g = [s \in SUBSET (1 .. REWRITES) |-> IF s = {} THEN First(uri) ELSE Turn(g[s \ {An!Max(s)}])])[1 .. REWRITES]
  BY <1>2, <1>3, Zenon DEF An!FoldLeft, An!MapThenFoldSet, Turn, An!Rewritten
<1> QED BY <1>4, Zenon DEF Folded

\* The largest of some numbers.
LEMMA MaxIs ==
  ASSUME NEW m \in Nat, NEW S \in SUBSET (1 .. m), S # {}
  PROVE  An!Max(S) \in S /\ (m \in S => An!Max(S) = m)
<1> DEFINE T == {m - x : x \in S}
<1>1. T \in SUBSET Nat /\ T # {}
  <2>1. \A x \in S : m - x \in Nat
    OBVIOUS
  <2> QED BY <2>1
<1> HIDE DEF T
<1>2. PICK z \in T : \A y \in T : z =< y
  BY <1>1, LeastOf
<1>3. PICK x \in S : \A y \in S : x >= y
  <2>1. PICK x \in S : z = m - x
    BY <1>2 DEF T
  <2>2. ASSUME NEW y \in S PROVE x >= y
    <3>1. m - x =< m - y
      BY <1>2, <2>1 DEF T
    <3>2. x \in Int /\ y \in Int
      OBVIOUS
    <3> QED BY <3>1, <3>2
  <2> QED BY <2>2
<1>4. PICK w : w = An!Max(S)
  OBVIOUS
<1>5. w \in S /\ \A y \in S : w >= y
  BY <1>3, <1>4, Zenon DEF An!Max
<1>6. w \in 1 .. m
  BY <1>5
<1>7. m \in S => w = m
  BY <1>5, <1>6
<1> QED BY <1>4, <1>5, <1>7

\* The recursion of the fold has a solution.
LEMMA FoldExists ==
  ASSUME NEW uri
  PROVE  \A m \in Nat : \E g : Folded(g, uri, 1 .. m)
<1> DEFINE T == {m \in Nat : \E g : Folded(g, uri, 1 .. m)}
<1>0. PICK b : b = First(uri)
  OBVIOUS
<1>1. 0 \in T
  <2>1. PICK g : g = [s \in SUBSET (1 .. 0) |-> b]
    OBVIOUS
  <2>2. \A s \in SUBSET (1 .. 0) : s = {}
    OBVIOUS
  <2>3. g = [s \in SUBSET (1 .. 0) |-> IF s = {} THEN b ELSE Turn(g[s \ {An!Max(s)}])]
    BY <2>1, <2>2
  <2>4. Folded(g, uri, 1 .. 0)
    BY <1>0, <2>3 DEF Folded
  <2> QED BY <2>4
<1>2. ASSUME NEW m \in Nat, m \in T PROVE m + 1 \in T
  <2>1. PICK f : Folded(f, uri, 1 .. m)
    BY <1>2
  <2>2. PICK q : q = m + 1 /\ q \in Nat /\ q \notin 1 .. m /\ 1 .. q = (1 .. m) \cup {q}
    OBVIOUS
  <2>3. PICK g : g = [s \in SUBSET (1 .. q) |-> IF q \in s THEN Turn(f[s \ {q}]) ELSE f[s]]
    OBVIOUS
  <2>4. ASSUME NEW s \in SUBSET (1 .. q)
        PROVE  g[s] = IF s = {} THEN b ELSE Turn(g[s \ {An!Max(s)}])
    <3>1. CASE q \in s
      <4>1. An!Max(s) = q /\ s # {}
        BY <2>2, <3>1, MaxIs
      <4>2. PICK r : r = s \ {q}
        OBVIOUS
      <4>3. r \in SUBSET (1 .. q) /\ q \notin r
        BY <4>2
      <4>4. g[r] = f[r] /\ g[s] = Turn(f[r])
        BY <2>3, <3>1, <4>2, <4>3
      <4> QED BY <4>1, <4>2, <4>4
    <3>2. CASE q \notin s /\ s = {}
      <4>1. g[s] = f[s]
        BY <2>3, <3>2
      <4>2. s \in SUBSET (1 .. m)
        BY <3>2
      <4>3. f[s] = b
        BY <1>0, <2>1, <3>2, <4>2 DEF Folded
      <4> QED BY <3>2, <4>1, <4>3
    <3>3. CASE q \notin s /\ s # {}
      <4>1. s \in SUBSET (1 .. m)
        BY <2>2, <3>3
      <4>2. PICK w : w = An!Max(s)
        OBVIOUS
      <4>3. PICK r : r = s \ {w}
        OBVIOUS
      <4>4. r \in SUBSET (1 .. m) /\ q \notin r /\ r \in SUBSET (1 .. q)
        BY <2>2, <3>3, <4>1, <4>3
      <4>5. g[r] = f[r] /\ g[s] = f[s]
        BY <2>3, <3>3, <4>4
      <4>6. f[s] = Turn(f[r])
        BY <2>1, <3>3, <4>1, <4>2, <4>3 DEF Folded
      <4> QED BY <3>3, <4>2, <4>3, <4>5, <4>6
    <3> QED BY <3>1, <3>2, <3>3
  <2>5. g = [s \in SUBSET (1 .. q) |-> IF s = {} THEN b ELSE Turn(g[s \ {An!Max(s)}])]
    <3>1. PICK h : h = [s \in SUBSET (1 .. q) |-> IF s = {} THEN b ELSE Turn(g[s \ {An!Max(s)}])]
      OBVIOUS
    <3>2. \A s \in SUBSET (1 .. q) : g[s] = h[s]
      BY <2>4, <3>1
    <3>3. DOMAIN g = SUBSET (1 .. q) /\ DOMAIN h = SUBSET (1 .. q) /\ g = [s \in DOMAIN g |-> g[s]] /\ h = [s \in DOMAIN h |-> h[s]]
      BY <2>3, <3>1
    <3>4. g = h
      BY <3>2, <3>3
    <3> QED BY <3>1, <3>4
  <2>6. Folded(g, uri, 1 .. q)
    BY <1>0, <2>5 DEF Folded
  <2> QED BY <2>2, <2>6
<1>3. Nat \subseteq T
  <2> HIDE DEF T
  <2> QED BY <1>1, <1>2, AllNumbers
<1> QED BY <1>3

\* f[k] is what there is after k returns.
Turns(f, uri, n) == f[0] = First(uri) /\ \A k \in 1 .. n : f[k] = Turn(f[k - 1])

\* What is chosen is what there is after as many returns as there may be.
LEMMA ChosenIs ==
  ASSUME NEW uri, REWRITES \in Nat
  PROVE  \E f : Turns(f, uri, REWRITES) /\ An!Chosen(uri) = f[REWRITES]
<1> DEFINE n == REWRITES
<1>1. PICK g : g = CHOOSE h : Folded(h, uri, 1 .. n)
  OBVIOUS
<1>2. Folded(g, uri, 1 .. n)
  <2>1. \E h : Folded(h, uri, 1 .. n)
    BY FoldExists
  <2> QED BY <1>1, <2>1, Zenon
<1>3. An!Chosen(uri) = g[1 .. n]
  BY <1>1, ChosenFolds
<1>4. PICK f : f = [k \in 0 .. n |-> g[1 .. k]]
  OBVIOUS
<1>5. f[0] = First(uri)
  <2>1. 1 .. 0 = {} /\ {} \in SUBSET (1 .. n) /\ 0 \in 0 .. n
    OBVIOUS
  <2>2. g[{}] = First(uri)
    BY <1>2, <2>1 DEF Folded
  <2> QED BY <1>4, <2>1, <2>2
<1>6. ASSUME NEW k \in 1 .. n PROVE f[k] = Turn(f[k - 1])
  <2>1. PICK s, r : s = 1 .. k /\ r = 1 .. k - 1
    OBVIOUS
  <2>2. s \in SUBSET (1 .. n) /\ s # {} /\ k \in s /\ s \ {k} = r /\ k \in 0 .. n /\ k - 1 \in 0 .. n
    BY <2>1
  <2>3. An!Max(s) = k
    <3>1. s \in SUBSET (1 .. k) /\ k \in Nat
      BY <2>1
    <3> QED BY <2>2, <3>1, MaxIs
  <2>4. g[s] = Turn(g[r])
    BY <1>2, <2>2, <2>3 DEF Folded
  <2>5. f[k] = g[s] /\ f[k - 1] = g[r]
    BY <1>4, <2>1, <2>2
  <2> QED BY <2>4, <2>5
<1>7. An!Chosen(uri) = f[n]
  BY <1>3, <1>4
<1>8. Turns(f, uri, n)
  BY <1>5, <1>6 DEF Turns
<1> QED BY <1>7, <1>8

-----------------------------------------------------------------------------
(* Answers: locations.                                                         *)

Match(uri) == An!find_best_location_match(uri)

\* A match is a location or none.
LEMMA MatchIs ==
  ASSUME An!ConfigOK(config), NEW uri
  PROVE  Match(uri) = 0 \/ Match(uri) \in DOMAIN config.locations
<1>1. PICK S : S = {i \in DOMAIN config.locations : An!Location(i).path # <<>> /\ An!IsPrefix(An!Location(i).path, uri)}
  OBVIOUS
<1>2. PICK long : long = {i \in S : \A j \in S : Len(An!Location(j).path) =< Len(An!Location(i).path)}
  OBVIOUS
<1>3. Match(uri) = An!LeastOf(long)
  BY <1>1, <1>2, Zenon DEF Match, An!find_best_location_match
<1>4. long \subseteq DOMAIN config.locations
  BY <1>1, <1>2
<1>5. long \in SUBSET Nat
  BY <1>4 DEF An!ConfigOK
<1>6. ASSUME long # {} PROVE An!Min(long) \in long
  <2>1. \E n \in long : \A m \in long : n =< m
    BY <1>5, <1>6, LeastOf
  <2> QED BY <2>1, Zenon DEF An!Min
<1>7. Match(uri) = IF long = {} THEN 0 ELSE An!Min(long)
  BY <1>3, Zenon DEF An!LeastOf
<1> QED BY <1>4, <1>6, <1>7

\* A state of the returns.
State(s) ==
  \E u, p \in An!Text, i \in DOMAIN config.locations, d \in BOOLEAN : s = [uri |-> u, at |-> i, path |-> p, done |-> d]

\* A return changes the address to one that has a location, or is the last.
LEMMA TurnIs ==
  ASSUME An!ConfigOK(config), NEW s, State(s)
  PROVE  /\ State(Turn(s)) /\ (s.done => Turn(s) = s)
         /\ LET to == config.locations[s.at].returnPath
            IN  ~s.done /\ to # <<>> /\ to # s.uri /\ Match(to) # 0 => Turn(s) = First(to)
<1>1. PICK u \in An!Text, p \in An!Text, i \in DOMAIN config.locations, d \in BOOLEAN : s = [uri |-> u, at |-> i, path |-> p, done |-> d]
  BY DEF State
<1>2. PICK to : to = config.locations[i].returnPath
  OBVIOUS
<1>3. to \in An!Text
  BY <1>2 DEF An!ConfigOK, An!LocationOK
<1>4. Turn(s) = IF d \/ to = <<>> \/ to = u THEN [s EXCEPT !.done = TRUE]
                ELSE IF Match(to) = 0 THEN [s EXCEPT !.uri = to, !.done = TRUE]
                ELSE [s EXCEPT !.uri = to, !.at = Match(to), !.path = to]
  <2>1. s.at = i /\ s.uri = u
    BY <1>1
  <2>2. s.done <=> d
    BY <1>1, Zenon
  <2> QED BY <1>2, <2>1, <2>2, Zenon DEF Turn, An!Rewritten, An!Location, Match
<1>5. CASE d \/ to = <<>> \/ to = u
  <2>1. Turn(s) = [s EXCEPT !.done = TRUE]
    BY <1>4, <1>5, Zenon
  <2>2. Turn(s) = [uri |-> u, at |-> i, path |-> p, done |-> TRUE]
    BY <1>1, <2>1
  <2>3. s.done => Turn(s) = s
    BY <1>1, <2>2
  <2>4. State(Turn(s))
    BY <2>2 DEF State
  <2>5. s.at = i /\ s.uri = u /\ (s.done <=> d)
    BY <1>1, Zenon
  <2> QED BY <1>2, <1>5, <2>3, <2>4, <2>5
<1>6. CASE ~(d \/ to = <<>> \/ to = u) /\ Match(to) = 0
  <2>1. Turn(s) = [s EXCEPT !.uri = to, !.done = TRUE]
    BY <1>4, <1>6, Zenon
  <2>2. Turn(s) = [uri |-> to, at |-> i, path |-> p, done |-> TRUE]
    BY <1>1, <2>1
  <2>3. State(Turn(s))
    BY <1>3, <2>2 DEF State
  <2>4. s.at = i /\ s.uri = u /\ (s.done <=> d)
    BY <1>1, Zenon
  <2> QED BY <1>2, <1>6, <2>3, <2>4
<1>7. CASE ~(d \/ to = <<>> \/ to = u) /\ Match(to) # 0
  <2>1. Turn(s) = [s EXCEPT !.uri = to, !.at = Match(to), !.path = to]
    BY <1>4, <1>7, Zenon
  <2>2. PICK m \in DOMAIN config.locations : m = Match(to)
    BY <1>7, MatchIs
  <2>3. d = FALSE
    BY <1>7
  <2>4. Turn(s) = [uri |-> to, at |-> m, path |-> to, done |-> FALSE]
    BY <1>1, <2>1, <2>2, <2>3
  <2>5. State(Turn(s))
    BY <1>3, <2>4 DEF State
  <2>6. Turn(s) = First(to)
    BY <2>2, <2>4, Zenon DEF First, Match
  <2>7. s.at = i /\ s.uri = u /\ (s.done <=> d)
    BY <1>1, Zenon
  <2> QED BY <1>2, <1>7, <2>5, <2>6, <2>7
<1> QED BY <1>5, <1>6, <1>7

\* The first state of an address with a location.
LEMMA FirstIs ==
  ASSUME An!ConfigOK(config), NEW uri \in An!Text, Match(uri) # 0
  PROVE  State(First(uri))
<1>1. PICK m \in DOMAIN config.locations : m = Match(uri)
  BY MatchIs
<1>2. First(uri) = [uri |-> uri, at |-> m, path |-> uri, done |-> FALSE]
  BY <1>1, Zenon DEF First, Match
<1> QED BY <1>1, <1>2 DEF State

\* What is chosen has a location.
LEMMA TurnsAre ==
  ASSUME An!ConfigOK(config), NEW uri \in An!Text, Match(uri) # 0, NEW n \in Nat, NEW f, Turns(f, uri, n)
  PROVE  \A k \in 0 .. n : State(f[k])
<1> DEFINE T == {k \in Nat : k \in 0 .. n => State(f[k])}
<1>1. 0 \in T
  BY FirstIs DEF Turns
<1>2. ASSUME NEW k \in Nat, k \in T PROVE k + 1 \in T
  <2>1. ASSUME k + 1 \in 0 .. n PROVE State(f[k + 1])
    <3>1. k + 1 \in 1 .. n /\ k \in 0 .. n /\ (k + 1) - 1 = k
      BY <2>1
    <3>2. State(f[k]) /\ f[k + 1] = Turn(f[k])
      BY <1>2, <3>1 DEF Turns
    <3> QED BY <3>2, TurnIs
  <2> QED BY <2>1
<1>3. Nat \subseteq T
  <2> HIDE DEF T
  <2> QED BY <1>1, <1>2, AllNumbers
<1> QED BY <1>3

\* What is chosen for an address is what is chosen for the one it returns to.
LEMMA ChosenReturns ==
  ASSUME An!ConfigOK(config), REWRITES \in Nat, REWRITES > 0, NEW uri \in An!Text, NEW to \in An!Text,
         Match(uri) # 0, to = config.locations[Match(uri)].returnPath, to # <<>>, Match(to) # 0, An!Chosen(uri).done
  PROVE  An!Chosen(to) = An!Chosen(uri)
<1>0. CASE to = uri
  BY <1>0
<1>1. CASE to # uri
  <2> DEFINE n == REWRITES
  <2>1. PICK f : Turns(f, uri, n) /\ An!Chosen(uri) = f[n]
    BY ChosenIs
  <2>2. PICK h : Turns(h, to, n) /\ An!Chosen(to) = h[n]
    BY ChosenIs
  <2>3. \A k \in 0 .. n : State(f[k])
    BY <2>1, TurnsAre
  <2>4. f[1] = First(to)
    <3>1. f[1] = Turn(f[0]) /\ f[0] = First(uri)
      BY <2>1 DEF Turns
    <3>2. ~First(uri).done /\ First(uri).at = Match(uri) /\ First(uri).uri = uri
      BY Zenon DEF First, Match
    <3>3. State(First(uri))
      BY FirstIs
    <3> QED BY <1>1, <3>1, <3>2, <3>3, TurnIs
  <2> DEFINE T == {k \in Nat : k + 1 \in 1 .. n => h[k] = f[k + 1]}
  <2>5. 0 \in T
    BY <2>2, <2>4 DEF Turns
  <2>6. ASSUME NEW k \in Nat, k \in T PROVE k + 1 \in T
    <3>1. ASSUME (k + 1) + 1 \in 1 .. n PROVE h[k + 1] = f[(k + 1) + 1]
      <4>1. k + 1 \in 1 .. n /\ (k + 1) - 1 = k /\ ((k + 1) + 1) - 1 = k + 1
        BY <3>1
      <4>2. h[k] = f[k + 1]
        BY <2>6, <4>1
      <4>3. h[k + 1] = Turn(h[k])
        BY <2>2, <4>1 DEF Turns
      <4>4. f[(k + 1) + 1] = Turn(f[k + 1])
        BY <2>1, <3>1, <4>1 DEF Turns
      <4> QED BY <4>2, <4>3, <4>4
    <3> QED BY <3>1
  <2>7. Nat \subseteq T
    <3> HIDE DEF T
    <3> QED BY <2>5, <2>6, AllNumbers
  <2>8. h[n - 1] = f[n]
    <3>1. n - 1 \in Nat /\ (n - 1) + 1 = n /\ n \in 1 .. n
      OBVIOUS
    <3> QED BY <2>7, <3>1
  <2>9. h[n] = Turn(f[n])
    <3>1. n \in 1 .. n
      OBVIOUS
    <3>2. h[n] = Turn(h[n - 1])
      BY <2>2, <3>1 DEF Turns
    <3> QED BY <2>8, <3>2
  <2>10. Turn(f[n]) = f[n]
    <3>1. State(f[n]) /\ f[n].done
      <4>1. n \in 0 .. n
        OBVIOUS
      <4> QED BY <2>1, <2>3, <4>1
    <3> QED BY <3>1, TurnIs
  <2> QED BY <2>1, <2>2, <2>9, <2>10
<1> QED BY <1>0, <1>1

-----------------------------------------------------------------------------
(* Answers: paths.                                                             *)

\* The directory of a location or of the server.
RootOf(l) == An!Slashed(IF l.root = <<>> THEN config.root ELSE l.root)

\* With and without a slash it is a text.
LEMMA SlashedIs ==
  ASSUME "/" \in Characters, NEW p \in An!Text
  PROVE  An!Slashed(p) \in An!Text /\ \E t \in An!Text : An!Slashed(p) = p \o t
<1>1. CASE An!Slashed(p) = p
  <2>1. p = p \o <<>> /\ <<>> \in An!Text
    BY DEF An!Text
  <2> QED BY <1>1, <2>1
<1>2. CASE An!Slashed(p) = Append(p, "/")
  <2>1. PICK e \in Characters : e = "/"
    OBVIOUS
  <2>2. <<e>> \in An!Text
    BY DEF An!Text
  <2>3. Append(p, e) = p \o <<e>> /\ Append(p, e) \in An!Text
    BY DEF An!Text
  <2> QED BY <1>2, <2>1, <2>2, <2>3
<1> QED BY <1>1, <1>2 DEF An!Slashed

\* What is put behind a path begins with it.
LEMMA PrefixOf ==
  ASSUME NEW p \in An!Text, NEW t \in An!Text
  PROVE  An!IsPrefix(p, p \o t) /\ p \o t \in An!Text
<1>1. p \o t \in An!Text
  BY DEF An!Text
<1>2. Len(p) =< Len(p \o t)
  BY DEF An!Text
<1>3. PICK q \in An!Text : q = p \o t
  BY <1>1
<1>4. PICK n \in Nat : n = Len(p) /\ n =< Len(q)
  BY <1>2, <1>3 DEF An!Text
<1>5. \A i \in 1 .. n : q[i] = p[i]
  BY <1>3, <1>4 DEF An!Text
<1>6. SubSeq(p, 1, n) = SubSeq(q, 1, n)
  BY <1>3, <1>4, <1>5 DEF An!Text
<1> QED BY <1>1, <1>3, <1>4, <1>6 DEF An!IsPrefix

\* A path begins with what the beginning of it begins with.
LEMMA PrefixOn ==
  ASSUME NEW p \in An!Text, NEW t \in An!Text, NEW u \in An!Text
  PROVE  An!IsPrefix(p, (p \o t) \o u) /\ (p \o t) \o u \in An!Text
<1>1. (p \o t) \o u = p \o (t \o u) /\ t \o u \in An!Text
  BY DEF An!Text
<1> QED BY <1>1, PrefixOf

\* A path in a location begins with its directory.
LEMMA PathIs ==
  ASSUME "/" \in Characters, An!ConfigOK(config), NEW i \in DOMAIN config.locations, NEW uri \in An!Text
  PROVE  LET l == config.locations[i] IN
         /\ RootOf(l) \in An!Text /\ An!resolve_file_path(l, <<>>) = RootOf(l)
         /\ \E t \in An!Text : An!resolve_file_path(l, uri) = RootOf(l) \o t
<1>1. PICK l : l = config.locations[i]
  OBVIOUS
<1>2. PICK x \in An!Text : x = RootOf(l)
  <2>1. (IF l.root = <<>> THEN config.root ELSE l.root) \in An!Text
    BY <1>1 DEF An!ConfigOK, An!LocationOK
  <2> QED BY <2>1, SlashedIs DEF RootOf
<1>3. PICK t \in An!Text : t = IF uri # <<>> /\ uri[1] = "/" THEN Tail(uri) ELSE uri
  <2>1. uri # <<>> => Tail(uri) \in An!Text
    BY DEF An!Text
  <2> QED BY <2>1
<1>4. An!resolve_file_path(l, uri) = x \o t
  BY <1>2, <1>3, Zenon DEF An!resolve_file_path, RootOf
<1>5. An!resolve_file_path(l, <<>>) = x \o <<>>
  <2>1. (IF <<>> # <<>> /\ <<>>[1] = "/" THEN Tail(<<>>) ELSE <<>>) = <<>>
    OBVIOUS
  <2> QED BY <1>2, <2>1, Zenon DEF An!resolve_file_path, RootOf
<1>6. x \o <<>> = x
  BY DEF An!Text
<1> QED BY <1>1, <1>2, <1>4, <1>5, <1>6

\* What is given is a file that is there, with a name that begins with x.
Given(a, x) ==
  a.body # <<>> /\ a.body[1] = "file" => a.body[2] \in files \ Locked /\ An!IsPrefix(x, a.body[2])

\* A file that is served is there.
LEMMA FileGiven ==
  ASSUME NEW x, NEW path, An!IsPrefix(x, path)
  PROVE  Given(An!serve_file(path), x)
<1>1. CASE path \in files \ Locked
  <2>1. An!serve_file(path) = [code |-> 200, body |-> <<"file", path>>]
    BY <1>1, Zenon DEF An!serve_file
  <2>2. PICK b : b = <<"file", path>>
    OBVIOUS
  <2>3. An!serve_file(path).body = b /\ b[2] = path
    BY <2>1, <2>2
  <2> QED BY <1>1, <2>3 DEF Given
<1>2. CASE path \notin files \ Locked
  <2>1. An!serve_file(path).body = <<>>
    BY <1>2 DEF An!serve_file, An!Plain, An!Nothing
  <2> QED BY <2>1 DEF Given
<1> QED BY <1>1, <1>2

\* So is what is served for a directory, or it is a list.
LEMMA PlaceGiven ==
  ASSUME {"/", "index"} \subseteq Characters, NEW x \in An!Text, NEW t \in An!Text, NEW l, l.index \in Seq(An!Text), NEW mime
  PROVE  Given(An!handle_get_method(l, x \o t, mime), x)
<1>1. PICK path \in An!Text : path = x \o t
  BY PrefixOf
<1>2. CASE An!is_directory(path)
  <2>1. PICK u \in An!Text : An!Slashed(path) = path \o u
    BY SlashedIs
  <2>2. PICK i \in An!Text : i = An!IndexOf(l.index)
    <3>1. l.index # <<>> => l.index[1] \in An!Text
      OBVIOUS
    <3>2. PICK e \in Characters : e = "index"
      OBVIOUS
    <3>3. <<e>> \in An!Text
      BY DEF An!Text
    <3> QED BY <3>1, <3>2, <3>3 DEF An!IndexOf
  <2>3. PICK index : index = An!Slashed(path) \o i
    OBVIOUS
  <2>4. An!IsPrefix(x, index)
    <3>1. t \o u \in An!Text
      BY DEF An!Text
    <3>2. (x \o t) \o u = x \o (t \o u)
      BY DEF An!Text
    <3>3. index = (x \o (t \o u)) \o i
      BY <1>1, <2>1, <2>3, <3>2
    <3> QED BY <3>1, <3>3, PrefixOn
  <2>5. PICK a : a = An!handle_get_method(l, path, mime)
    OBVIOUS
  <2>6. a = IF index \in files /\ mime # <<".", "json">> THEN An!serve_file(index)
            ELSE IF l.auto_index THEN [code |-> 200, body |-> <<"list", An!Slashed(path)>>] ELSE An!Plain(403)
    BY <1>2, <2>2, <2>3, <2>5, Zenon DEF An!handle_get_method, An!handle_directory
  <2>7. Given(An!serve_file(index), x)
    BY <2>4, FileGiven
  <2>8. Given([code |-> 200, body |-> <<"list", An!Slashed(path)>>], x)
    <3>1. <<"list", An!Slashed(path)>>[1] # "file"
      OBVIOUS
    <3> QED BY <3>1 DEF Given
  <2>9. Given(An!Plain(403), x)
    BY DEF Given, An!Plain, An!Nothing
  <2> QED BY <1>1, <2>5, <2>6, <2>7, <2>8, <2>9, Zenon
<1>3. CASE ~An!is_directory(path)
  <2>1. An!handle_get_method(l, path, mime) = An!serve_file(path)
    BY <1>3, Zenon DEF An!handle_get_method
  <2> QED BY <1>1, <2>1, PrefixOf, FileGiven
<1> QED BY <1>2, <1>3

-----------------------------------------------------------------------------
(* Answers: one request.                                                       *)

\* The location i answers for the path x \o t, x its directory.
Serves(r, i, x, t) ==
  /\ i \in DOMAIN config.locations /\ x \in An!Text /\ t \in An!Text
  /\ x = An!resolve_file_path(config.locations[i], <<>>)
  /\ An!resolve_file_path(An!Location(An!Chosen(r.uri).at), An!Chosen(r.uri).path) = x \o t
  /\ An!choose_method(r) =
       IF r.method \notin config.locations[i].methods THEN An!Plain(405)
       ELSE CASE r.method = "DELETE" -> An!handle_file_delete(x \o t)
              [] r.method = "GET"    -> An!handle_get_method(config.locations[i], x \o t, r.mime)
              [] r.method = "POST"   -> An!handle_file_upload(r)

\* There is always one.
LEMMA SomebodyServes ==
  ASSUME An!ConstantsAssumption, An!ConfigOK(config), NEW r, An!RequestOK(r), Match(r.uri) # 0
  PROVE  \E i, x, t : Serves(r, i, x, t)
<1>1. r.uri \in An!Text
  BY DEF An!RequestOK
<1>2. REWRITES \in Nat /\ "/" \in Characters
  BY DEF An!ConstantsAssumption
<1>3. PICK f : Turns(f, r.uri, REWRITES) /\ An!Chosen(r.uri) = f[REWRITES]
  BY <1>2, ChosenIs
<1>4. State(An!Chosen(r.uri))
  <2>1. REWRITES \in 0 .. REWRITES
    BY <1>2
  <2> QED BY <1>1, <1>2, <1>3, <2>1, TurnsAre
<1>5. PICK u \in An!Text, p \in An!Text, i \in DOMAIN config.locations, d \in BOOLEAN :
        An!Chosen(r.uri) = [uri |-> u, at |-> i, path |-> p, done |-> d]
  BY <1>4 DEF State
<1>6. An!Chosen(r.uri).at = i /\ An!Chosen(r.uri).path = p
  BY <1>5
<1>7. PICK x \in An!Text, t \in An!Text :
        /\ x = An!resolve_file_path(config.locations[i], <<>>)
        /\ An!resolve_file_path(config.locations[i], p) = x \o t
  BY <1>2, PathIs
<1>8. An!choose_method(r) =
       IF r.method \notin config.locations[i].methods THEN An!Plain(405)
       ELSE CASE r.method = "DELETE" -> An!handle_file_delete(x \o t)
              [] r.method = "GET"    -> An!handle_get_method(config.locations[i], x \o t, r.mime)
              [] r.method = "POST"   -> An!handle_file_upload(r)
  <2> DEFINE By(l, path) ==
           IF r.method \notin l.methods THEN An!Plain(405)
           ELSE CASE r.method = "DELETE" -> An!handle_file_delete(path)
                  [] r.method = "GET"    -> An!handle_get_method(l, path, r.mime)
                  [] r.method = "POST"   -> An!handle_file_upload(r)
  <2>1. An!choose_method(r) =
          By(An!Location(An!Chosen(r.uri).at), An!resolve_file_path(An!Location(An!Chosen(r.uri).at), An!Chosen(r.uri).path))
    BY Zenon DEF An!choose_method
  <2>2. An!Location(An!Chosen(r.uri).at) = config.locations[i] /\ An!resolve_file_path(config.locations[i], An!Chosen(r.uri).path) = x \o t
    BY <1>6, <1>7 DEF An!Location
  <2>3. An!choose_method(r) = By(config.locations[i], x \o t)
    <3> HIDE DEF By
    <3> QED BY <2>1, <2>2
  <2> QED BY <2>3, Zenon
<1>9. Serves(r, i, x, t)
  BY <1>6, <1>7, <1>8, Zenon DEF Serves, An!Location
<1> QED BY <1>9

\* What a method says when it gives no file.
LEMMA NothingGiven ==
  ASSUME NEW r, NEW path, NEW x
  PROVE  /\ Given(An!handle_file_delete(path), x) /\ Given(An!handle_file_upload(r), x)
         /\ An!handle_file_delete(path).code = 200 => path \in files
         /\ \A c : Given(An!Plain(c), x)
BY DEF Given, An!handle_file_delete, An!handle_file_upload, An!Plain, An!Nothing

\* The three methods, told apart.
LEMMA ChosenMethod ==
  ASSUME NEW r, An!RequestOK(r), NEW i, NEW x, NEW t, Serves(r, i, x, t), NEW a, a = An!choose_method(r)
  PROVE  \/ a = An!Plain(405) /\ r.method \notin config.locations[i].methods
         \/ r.method = "DELETE" /\ a = An!handle_file_delete(x \o t) /\ r.method \in config.locations[i].methods
         \/ r.method = "GET" /\ a = An!handle_get_method(config.locations[i], x \o t, r.mime) /\ r.method \in config.locations[i].methods
         \/ r.method = "POST" /\ a = An!handle_file_upload(r) /\ r.method \in config.locations[i].methods
<1>1. PICK del, get, post : del = An!handle_file_delete(x \o t) /\ get = An!handle_get_method(config.locations[i], x \o t, r.mime) /\ post = An!handle_file_upload(r)
  OBVIOUS
<1>2. a = IF r.method \notin config.locations[i].methods THEN An!Plain(405)
          ELSE CASE r.method = "DELETE" -> del [] r.method = "GET" -> get [] r.method = "POST" -> post
  BY <1>1, Zenon DEF Serves
<1>3. r.method \in {"GET", "POST", "DELETE"}
  BY DEF An!RequestOK
<1>4. CASE r.method = "GET"
  BY <1>1, <1>2, <1>4
<1>5. CASE r.method = "POST"
  BY <1>1, <1>2, <1>5
<1>6. CASE r.method = "DELETE"
  BY <1>1, <1>2, <1>6
<1> QED BY <1>3, <1>4, <1>5, <1>6

\* The whole answer, by whether there is a location.
LEMMA GenerateIs ==
  ASSUME NEW r, NEW wild
  PROVE  /\ Match(r.uri) = 0 => An!generate_response(r, wild) = An!serve_default_root(r, wild)
         /\ Match(r.uri) # 0 => \/ An!generate_response(r, wild) = An!Plain(413) /\ An!Location(Match(r.uri)).max # 0 /\ r.data > An!Location(Match(r.uri)).max
                                \/ An!generate_response(r, wild) = An!choose_method(r) /\ ~(An!Location(Match(r.uri)).max # 0 /\ r.data > An!Location(Match(r.uri)).max)
BY Zenon DEF An!generate_response, Match

\* A file that is given lies in a location that allows GET, or is the first page of all.
LEMMA FilesAreThere ==
  ASSUME An!ConstantsAssumption, An!ConfigOK(config), NEW r, An!RequestOK(r), NEW wild, NEW a, a = An!generate_response(r, wild)
  PROVE  An!FileIsThere(r, a)
<1>0. {"/", "index"} \subseteq Characters /\ "/" \in Characters
  BY DEF An!ConstantsAssumption
<1>1. CASE Match(r.uri) = 0
  <2>1. a = An!serve_default_root(r, wild)
    BY <1>1, GenerateIs
  <2>2. CASE r.uri = <<"/">>
    <3>1. PICK l : l = [index |-> config.index, auto_index |-> wild]
      OBVIOUS
    <3>2. PICK x \in An!Text : x = An!Slashed(config.root)
      BY <1>0, SlashedIs DEF An!ConfigOK
    <3>3. a = An!handle_get_method(l, x, r.mime)
      BY <2>1, <2>2, <3>1, <3>2, Zenon DEF An!serve_default_root
    <3>4. x = x \o <<>> /\ <<>> \in An!Text
      BY DEF An!Text
    <3>5. l.index \in Seq(An!Text)
      BY <3>1 DEF An!ConfigOK
    <3>6. Given(a, x)
      <4>1. Given(An!handle_get_method(l, x \o <<>>, r.mime), x)
        BY <1>0, <3>4, <3>5, PlaceGiven
      <4> QED BY <3>3, <3>4, <4>1
    <3>7. An!HomePage(r)
      BY <1>1, <2>2 DEF An!HomePage, Match
    <3> QED BY <3>6, <3>7 DEF Given, An!FileIsThere, An!Nothing
  <2>3. CASE r.uri # <<"/">>
    <3>1. a = An!Plain(404)
      BY <2>1, <2>3, Zenon DEF An!serve_default_root
    <3> QED BY <3>1 DEF An!FileIsThere, An!Plain
  <2> QED BY <2>2, <2>3
<1>2. CASE Match(r.uri) # 0
  <2>1. PICK i, x, t : Serves(r, i, x, t)
    BY <1>2, SomebodyServes
  <2>2. i \in DOMAIN config.locations /\ x \in An!Text /\ t \in An!Text /\ x = An!resolve_file_path(config.locations[i], <<>>)
    BY <2>1 DEF Serves
  <2>3. CASE r.method = "GET" /\ a = An!handle_get_method(config.locations[i], x \o t, r.mime) /\ r.method \in config.locations[i].methods
    <3>1. config.locations[i].index \in Seq(An!Text)
      BY <2>2 DEF An!ConfigOK, An!LocationOK
    <3>2. Given(a, x)
      BY <1>0, <2>2, <2>3, <3>1, PlaceGiven
    <3>3. ASSUME NEW path, An!IsPrefix(x, path) PROVE An!Under(path, "GET")
      BY <2>2, <2>3, <3>3 DEF An!Under, An!Location
    <3> QED BY <3>2, <3>3 DEF Given, An!FileIsThere, An!Nothing
  <2>4. CASE ~(r.method = "GET" /\ a = An!handle_get_method(config.locations[i], x \o t, r.mime) /\ r.method \in config.locations[i].methods)
    <3>1. \/ \E c : a = An!Plain(c)
          \/ a = An!handle_file_delete(x \o t)
          \/ a = An!handle_file_upload(r)
      <4>1. a = An!choose_method(r) \/ a = An!Plain(413)
        BY <1>2, GenerateIs
      <4>2. CASE a = An!choose_method(r)
        BY <2>1, <2>4, <4>2, ChosenMethod
      <4> QED BY <4>1, <4>2
    <3>2. a.body = <<>>
      BY <3>1 DEF An!handle_file_delete, An!handle_file_upload, An!Plain, An!Nothing
    <3> QED BY <3>2 DEF An!FileIsThere, An!Nothing
  <2> QED BY <2>3, <2>4
<1> QED BY <1>1, <1>2

\* An address that returns to another one is answered as that one.
LEMMA ReturnsAreAsked ==
  ASSUME An!ConstantsAssumption, An!ConfigOK(config), NEW r, An!RequestOK(r), NEW wild, NEW a, a = An!generate_response(r, wild)
  PROVE  An!RewrittenIsAsked(r, a)
<1>1. PICK at : at = Match(r.uri)
  OBVIOUS
<1>2. CASE at = 0
  BY <1>1, <1>2 DEF An!RewrittenIsAsked, Match
<1>3. CASE at # 0
  <2>1. at \in DOMAIN config.locations
    BY <1>1, <1>3, MatchIs
  <2>2. PICK to : to = config.locations[at].returnPath
    OBVIOUS
  <2>3. to \in An!Text /\ config.locations[at].max \in Nat
    BY <2>1, <2>2 DEF An!ConfigOK, An!LocationOK
  <2>4. ASSUME to # <<>>, Match(to) # 0, An!Chosen(r.uri).done, r.data = -1
        PROVE  a = An!generate_response([r EXCEPT !.uri = to], FALSE)
    <3>1. PICK q : q = [r EXCEPT !.uri = to]
      OBVIOUS
    <3>2. q.uri = to /\ q.method = r.method /\ q.mime = r.mime /\ q.plain = r.plain /\ q.data = -1
      BY <2>4, <3>1 DEF An!RequestOK
    <3>3. An!Chosen(to) = An!Chosen(r.uri)
      BY <1>1, <1>3, <2>2, <2>3, <2>4, ChosenReturns DEF An!ConstantsAssumption, An!RequestOK
    <3>4. An!choose_method(q) = An!choose_method(r)
      <4>1. An!handle_file_upload(q) = An!handle_file_upload(r)
        BY <3>2 DEF An!handle_file_upload
      <4> QED BY <3>2, <3>3, <4>1 DEF An!choose_method
    <3>5. a = An!choose_method(r)
      <4>1. ~(r.data > config.locations[at].max)
        BY <2>3, <2>4
      <4> QED BY <1>1, <1>3, <4>1, GenerateIs DEF An!Location
    <3>6. An!generate_response(q, FALSE) = An!choose_method(q)
      <4>1. Match(to) \in DOMAIN config.locations
        BY <2>4, MatchIs
      <4>2. config.locations[Match(to)].max \in Nat
        BY <4>1 DEF An!ConfigOK, An!LocationOK
      <4>3. ~(q.data > config.locations[Match(to)].max)
        BY <3>2, <4>2
      <4> QED BY <2>4, <3>2, <4>3, GenerateIs DEF An!Location
    <3> QED BY <3>1, <3>4, <3>5, <3>6
  <2> QED BY <1>1, <1>3, <2>2, <2>4 DEF An!RewrittenIsAsked, Match, An!Location
<1> QED BY <1>2, <1>3

\* What the request r leaves when it is answered with a.
Leaves(r, a) == files' = IF r.method = "DELETE" /\ a.code = 200 THEN files \ An!Deleted(r) ELSE files

\* What disappears was asked for, and lies in a location that allows DELETE.
LEMMA DeletedIsAsked ==
  ASSUME An!ConstantsAssumption, An!ConfigOK(config), NEW r, An!RequestOK(r), NEW wild, NEW a, a = An!generate_response(r, wild), Leaves(r, a)
  PROVE  An!OnlyAskedDeleted(r)
<1>1. CASE ~(r.method = "DELETE" /\ a.code = 200)
  BY <1>1 DEF Leaves, An!OnlyAskedDeleted
<1>2. CASE r.method = "DELETE" /\ a.code = 200 /\ Match(r.uri) = 0
  <2>1. An!Deleted(r) = {}
    BY <1>2, Zenon DEF An!Deleted, Match
  <2> QED BY <1>2, <2>1 DEF Leaves, An!OnlyAskedDeleted
<1>3. CASE r.method = "DELETE" /\ a.code = 200 /\ Match(r.uri) # 0
  <2>1. PICK i, x, t : Serves(r, i, x, t)
    BY <1>3, SomebodyServes
  <2>2. i \in DOMAIN config.locations /\ x \in An!Text /\ t \in An!Text /\ x = An!resolve_file_path(config.locations[i], <<>>)
    BY <2>1 DEF Serves
  <2>3. An!Plain(405).code # 200 /\ An!Plain(413).code # 200
    BY DEF An!Plain
  <2>4. a = An!handle_file_delete(x \o t) /\ r.method \in config.locations[i].methods
    <3>1. a = An!choose_method(r)
      BY <1>3, <2>3, GenerateIs
    <3> QED BY <1>3, <2>1, <2>3, <3>1, ChosenMethod
  <2>5. PICK path : path = x \o t
    OBVIOUS
  <2>6. path \in files
    BY <1>3, <2>4, <2>5, NothingGiven
  <2>7. An!Deleted(r) = {path}
    BY <1>3, <2>1, <2>5, Zenon DEF An!Deleted, Match, Serves
  <2>8. An!Under(path, "DELETE")
    <3>1. An!IsPrefix(x, path)
      BY <2>2, <2>5, PrefixOf
    <3> QED BY <1>3, <2>2, <2>4, <3>1 DEF An!Under, An!Location
  <2>9. files' = files \ {path}
    BY <1>3, <2>7 DEF Leaves
  <2> QED BY <1>3, <2>6, <2>8, <2>9 DEF An!OnlyAskedDeleted
<1> QED BY <1>1, <1>2, <1>3

\* However locations lie in each other and return to each other, what is given or deleted
\* is what they allow, and was asked for: AnsweredByItsLocation of Answers, for any
\* configurations, requests and files (ServerResponse::generate_response()).
THEOREM ServedByItsLocation ==
  ASSUME An!ConstantsAssumption
  PROVE  An!Spec => An!AnsweredByItsLocation
<1>1. An!Init => config \in Configs
  BY DEF An!Init
<1>2. ASSUME config \in Configs, [An!Next]_An!vars PROVE (config \in Configs)'
  BY <1>2 DEF An!Next, An!vars, An!Answer, An!Appear
<1>3. ASSUME config \in Configs, [An!Next]_An!vars
      PROVE  [asks' # asks \/ says' # says => An!AnsweredRightly]_An!vars
  <2>1. An!ConfigOK(config)
    BY <1>3 DEF An!ConstantsAssumption
  <2>2. ASSUME NEW r \in Asked, An!Answer(r) PROVE An!AnsweredRightly
    <3>1. An!RequestOK(r)
      BY DEF An!ConstantsAssumption
    <3>2. PICK wild \in BOOLEAN : says' = An!generate_response(r, wild)
      BY <2>2 DEF An!Answer
    <3>3. asks' = r /\ Leaves(r, says')
      BY <2>2, Zenon DEF An!Answer, Leaves
    <3>4. An!FileIsThere(r, says') /\ An!RewrittenIsAsked(r, says')
      BY <2>1, <3>1, <3>2, FilesAreThere, ReturnsAreAsked
    <3>5. An!OnlyAskedDeleted(r)
      BY <2>1, <3>1, <3>2, <3>3, DeletedIsAsked
    <3> QED BY <3>3, <3>4, <3>5 DEF An!AnsweredRightly
  <2>3. ASSUME NEW f \in Files, An!Appear(f) PROVE UNCHANGED <<asks, says>>
    BY <2>3 DEF An!Appear
  <2> QED BY <1>3, <2>2, <2>3 DEF An!Next, An!vars
<1> QED BY <1>1, <1>2, <1>3, PTL DEF An!Spec, An!AnsweredByItsLocation

-----------------------------------------------------------------------------
(* ScriptAnswer: one script and its answer.                                    *)

CONSTANTS Scripts, Parts, MaxLength
VARIABLES script, life, wrote, got, parser, step, finished, expired, told

Sa == INSTANCE ScriptAnswer WITH answer <- told

\* How much the script and the handler have got to.
ScriptTyped ==
  /\ script \in Scripts /\ Sa!ScriptOK(script)
  /\ wrote \in 0 .. Len(script.text) /\ got \in 0 .. wrote
  /\ script.ends = "well" /\ life # "runs" /\ finished # "timeout" => wrote = Len(script.text)

\* The handler is in the middle of something only before it has finished; it knows that the
\* pipe is closed only when it is, and then it reads all there is.
HandlerAt ==
  /\ DOMAIN step = {"at", "hup"}
  /\ step # Sa!Idle => finished = "no" /\ told = Sa!Pending
  /\ step.hup => life # "runs"
  /\ step.hup /\ step.at = "wait" /\ script.ends = "well" => got = Len(script.text)

\* What the parser has been given.
ParserHas ==
  /\ finished = "no" => parser = Sa!Fresh
  /\ finished \in {"closed", "ended"} => parser = Sa!parse(Sa!Fresh, Sa!WhatItWrote)
  /\ finished = "closed" /\ script.ends = "well" => got = Len(script.text)
  /\ finished \in {"cut", "timeout"} => expired
  /\ finished \in {"no", "timeout", "closed", "ended", "cut"}

ScriptInv == ScriptTyped /\ HandlerAt /\ ParserHas /\ Sa!ScriptIsHeard

\* What the clock and the script do leaves the rest as it is.
LEMMA ScriptGoesOn ==
  ASSUME ScriptInv, UNCHANGED <<script, got, parser, step, finished, told>>,
         wrote' \in 0 .. Len(script.text), wrote =< wrote', life # "runs" => life' # "runs", expired => expired',
         script.ends = "well" /\ life' # "runs" /\ finished # "timeout" => wrote' = Len(script.text)
  PROVE  ScriptInv'
<1>1. ScriptTyped'
  BY DEF ScriptInv, ScriptTyped
<1>2. HandlerAt'
  BY DEF ScriptInv, HandlerAt, Sa!Idle
<1>3. ParserHas'
  <2>1. Sa!WhatItWrote' = Sa!WhatItWrote
    BY DEF Sa!WhatItWrote, Sa!Text500
  <2>2. PICK p : p = Sa!parse(Sa!Fresh, Sa!WhatItWrote)
    OBVIOUS
  <2>3. Sa!parse(Sa!Fresh, Sa!WhatItWrote)' = p
    BY <2>1, <2>2
  <2> QED BY <2>2, <2>3 DEF ScriptInv, ParserHas, Sa!Fresh
<1>4. Sa!ScriptIsHeard'
  BY Zenon DEF ScriptInv, Sa!ScriptIsHeard, Sa!Whole, Sa!Beginning, Sa!Says, Sa!Pending
<1> QED BY <1>1, <1>2, <1>3, <1>4 DEF ScriptInv

\* The script writes, closes the pipe or ends, or time is up.
LEMMA ScriptSteps ==
  ASSUME ScriptInv, (\E n \in Parts \cup {Len(script.text) - wrote} : Sa!Write(n)) \/ Sa!Leave \/ Sa!End \/ Sa!Expire, Parts \subseteq Nat
  PROVE  ScriptInv'
<1>1. Len(script.text) \in Nat /\ wrote \in 0 .. Len(script.text)
  BY DEF ScriptInv, ScriptTyped, Sa!ScriptOK
<1>2. ASSUME NEW n \in Parts \cup {Len(script.text) - wrote}, Sa!Write(n) PROVE ScriptInv'
  <2>1. n \in Nat
    BY <1>1, <1>2 DEF Sa!Write
  <2>2. UNCHANGED <<script, got, parser, step, finished, told, life, expired>> /\ wrote' = wrote + n /\ life = "runs" /\ wrote + n =< Len(script.text)
    BY <1>2 DEF Sa!Write, Sa!Server
  <2> QED BY <1>1, <2>1, <2>2, ScriptGoesOn
<1>3. ASSUME Sa!Leave PROVE ScriptInv'
  <2>1. UNCHANGED <<script, got, parser, step, finished, told, wrote, expired>> /\ life' = "leaves"
    BY <1>3 DEF Sa!Leave, Sa!Server
  <2>2. script.ends = "well" => wrote = Len(script.text)
    BY <1>3 DEF Sa!Leave
  <2> QED BY <1>1, <2>1, <2>2, ScriptGoesOn
<1>4. ASSUME Sa!End PROVE ScriptInv'
  <2>1. UNCHANGED <<script, got, parser, step, finished, told, wrote, expired>> /\ life' = "zombie" /\ life = "leaves"
    BY <1>4 DEF Sa!End, Sa!Server
  <2> QED BY <1>1, <2>1, ScriptGoesOn DEF ScriptInv, ScriptTyped
<1>5. ASSUME Sa!Expire PROVE ScriptInv'
  <2>1. UNCHANGED <<script, got, parser, step, finished, told, wrote, life>> /\ expired'
    BY <1>5 DEF Sa!Expire, Sa!Server
  <2> QED BY <1>1, <2>1, ScriptGoesOn DEF ScriptInv, ScriptTyped
<1> QED BY <1>2, <1>3, <1>4, <1>5

\* An answer that is pending says nothing.
LEMMA NotYetHeard == told' = Sa!Pending => Sa!ScriptIsHeard'
BY Zenon DEF Sa!ScriptIsHeard

\* The handler wakes up.
LEMMA HandlerWakes ==
  ASSUME ScriptInv, told = Sa!Pending, Sa!Woken
  PROVE  ScriptInv'
<1>1. UNCHANGED <<script, wrote, got, expired, told>> /\ finished = "no" /\ step = Sa!Idle
  BY DEF Sa!Woken
<1>2. ScriptInv => ScriptTyped /\ HandlerAt /\ ParserHas
  BY DEF ScriptInv
<1>3. CASE expired
  <2>1. UNCHANGED step /\ finished' = "timeout"
    BY <1>3 DEF Sa!Woken, Sa!Timeout
  <2>2. ScriptTyped'
    BY <1>1, <1>2, <2>1 DEF ScriptTyped
  <2>3. HandlerAt'
    BY <1>1, <2>1 DEF HandlerAt, Sa!Idle
  <2>4. ParserHas'
    BY <1>1, <1>3, <2>1 DEF ParserHas
  <2>5. told' = Sa!Pending
    BY <1>1
  <2> QED BY <2>2, <2>3, <2>4, <2>5, NotYetHeard DEF ScriptInv
<1>4. CASE ~expired
  <2>1. step' = [at |-> "read", hup |-> life # "runs"] /\ UNCHANGED <<life, parser, finished>>
    BY <1>4 DEF Sa!Woken
  <2>2. ScriptTyped'
    BY <1>1, <1>2, <2>1 DEF ScriptTyped
  <2>3. step'.hup <=> life # "runs"
    BY <2>1, Zenon
  <2>4. step'.at = "read"
    BY <2>1
  <2>5. HandlerAt'
    BY <1>1, <2>1, <2>3, <2>4 DEF HandlerAt, Sa!Pending
  <2>6. ParserHas'
    BY <1>1, <1>2, <2>1 DEF ParserHas, Sa!Fresh
  <2>7. told' = Sa!Pending
    BY <1>1
  <2> QED BY <2>2, <2>5, <2>6, <2>7, NotYetHeard DEF ScriptInv
<1> QED BY <1>3, <1>4

\* It reads the pipe.
LEMMA PipeIsRead ==
  ASSUME ScriptInv, told = Sa!Pending, Sa!ReadPipe
  PROVE  ScriptInv'
<1>1. UNCHANGED <<script, life, wrote, parser, finished, expired, told>> /\ got' = wrote /\ step.at = "read" /\ step' = [step EXCEPT !.at = "wait"]
  BY DEF Sa!ReadPipe
<1>2. ScriptTyped /\ HandlerAt /\ ParserHas
  BY DEF ScriptInv
<1>3. finished = "no"
  <2>1. step # Sa!Idle
    BY <1>1 DEF Sa!Idle
  <2> QED BY <1>2, <2>1 DEF HandlerAt
<1>4. ScriptTyped'
  <2>1. wrote \in 0 .. wrote
    BY <1>2 DEF ScriptTyped
  <2> QED BY <1>1, <1>2, <2>1 DEF ScriptTyped
<1>5. DOMAIN step' = {"at", "hup"} /\ step'.hup = step.hup
  BY <1>1, <1>2 DEF HandlerAt
<1>6. HandlerAt'
  BY <1>1, <1>2, <1>3, <1>5 DEF HandlerAt, ScriptTyped, Sa!Pending
<1>7. ParserHas'
  BY <1>1, <1>2, <1>3 DEF ParserHas, Sa!Fresh
<1>8. told' = Sa!Pending
  BY <1>1
<1> QED BY <1>4, <1>6, <1>7, <1>8, NotYetHeard DEF ScriptInv

\* It looks whether the script has ended.
LEMMA ScriptIsWaitedFor ==
  ASSUME ScriptInv, told = Sa!Pending, Sa!Wait
  PROVE  ScriptInv'
<1>1. UNCHANGED <<script, wrote, got, expired, told>> /\ step.at = "wait" /\ step' = Sa!Idle
  BY DEF Sa!Wait
<1>2. ScriptTyped /\ HandlerAt /\ ParserHas
  BY DEF ScriptInv
<1>3. finished = "no" /\ parser = Sa!Fresh
  <2>1. step # Sa!Idle
    BY <1>1 DEF Sa!Idle
  <2> QED BY <1>2, <2>1 DEF HandlerAt, ParserHas
<1>4. HandlerAt'
  <2>1. DOMAIN Sa!Idle = {"at", "hup"} /\ ~Sa!Idle.hup
    BY DEF Sa!Idle
  <2>2. step' = Sa!Idle /\ Sa!Idle' = Sa!Idle
    BY <1>1 DEF Sa!Idle
  <2> QED BY <2>1, <2>2 DEF HandlerAt
<1>5. told' = Sa!Pending
  BY <1>1
<1>6. CASE life = "zombie"
  <2>1. life' = "reaped" /\ parser' = Sa!parse(Sa!Fresh, Sa!WhatItWrote) /\ finished' \in {"closed", "ended"} /\ (finished' = "closed" => step.hup)
    BY <1>3, <1>6 DEF Sa!Wait
  <2>2. ScriptTyped'
    BY <1>1, <1>2, <1>3, <1>6, <2>1 DEF ScriptTyped
  <2>3. parser' = Sa!parse(Sa!Fresh, Sa!WhatItWrote)'
    <3>1. Sa!WhatItWrote' = Sa!WhatItWrote
      BY <1>1 DEF Sa!WhatItWrote, Sa!Text500
    <3>2. PICK p : p = Sa!parse(Sa!Fresh, Sa!WhatItWrote)
      OBVIOUS
    <3>3. Sa!parse(Sa!Fresh, Sa!WhatItWrote)' = p
      BY <3>1, <3>2
    <3> QED BY <2>1, <3>2, <3>3
  <2>4. finished' = "closed" /\ script.ends = "well" => got = Len(script.text)
    BY <1>1, <1>2, <2>1 DEF HandlerAt
  <2>5. ParserHas'
    BY <1>1, <2>1, <2>3, <2>4 DEF ParserHas
  <2> QED BY <1>4, <1>5, <2>2, <2>5, NotYetHeard DEF ScriptInv
<1>7. CASE life # "zombie" /\ expired
  <2>1. finished' = "cut" /\ UNCHANGED life
    BY <1>7 DEF Sa!Wait
  <2>2. ScriptTyped'
    BY <1>1, <1>2, <1>3, <2>1 DEF ScriptTyped
  <2>3. ParserHas'
    BY <1>1, <1>7, <2>1 DEF ParserHas
  <2> QED BY <1>4, <1>5, <2>2, <2>3, NotYetHeard DEF ScriptInv
<1>8. CASE life # "zombie" /\ ~expired
  <2>1. UNCHANGED <<life, parser, finished>>
    BY <1>8 DEF Sa!Wait
  <2>2. ScriptTyped'
    BY <1>1, <1>2, <2>1 DEF ScriptTyped
  <2>3. ParserHas'
    BY <1>3, <2>1 DEF ParserHas, Sa!Fresh
  <2> QED BY <1>4, <1>5, <2>2, <2>3, NotYetHeard DEF ScriptInv
<1> QED BY <1>6, <1>7, <1>8

\* What is answered in time is what was meant.
LEMMA AnsweredInTime ==
  ASSUME Sa!ConstantsAssumption, ScriptTyped, ParserHas, NEW a, ~a.late,
         \/ finished = "timeout" /\ a.status = Sa!Answered(Sa!Text504).status /\ a.body = Sa!Answered(Sa!Text504).body
         \/ finished \in {"closed", "ended"} /\ a.status = Sa!Answered(Sa!WhatItWrote).status /\ a.body = Sa!Answered(Sa!WhatItWrote).body
  PROVE  CASE finished = "timeout" -> Sa!Says(a, "504", "timeout")
           [] script.ends = "badly" /\ finished \notin {"timeout", "cut"} -> Sa!Says(a, "500", "error")
           [] finished = "closed" /\ script.ends = "well" -> Sa!Whole(a, script)
           [] OTHER -> Sa!Beginning(a, script)
<1>1. CASE finished = "timeout"
  <2>1. Sa!Says(a, "504", "timeout")
    BY <1>1 DEF Sa!ConstantsAssumption, Sa!Says
  <2> QED BY <1>1, <2>1
<1>2. CASE finished # "timeout" /\ script.ends = "badly"
  <2>1. Sa!WhatItWrote = Sa!Text500
    BY <1>2 DEF Sa!WhatItWrote
  <2>2. Sa!Says(a, "500", "error")
    BY <1>2, <2>1 DEF Sa!ConstantsAssumption, Sa!Says
  <2>3. finished \notin {"timeout", "cut"}
    BY <1>2
  <2> QED BY <1>2, <2>2, <2>3
<1>3. CASE finished # "timeout" /\ script.ends # "badly"
  <2>1. Sa!WhatItWrote = SubSeq(script.text, 1, got)
    BY <1>3 DEF Sa!WhatItWrote
  <2>2. PICK b : b = Sa!Answered(SubSeq(script.text, 1, got))
    OBVIOUS
  <2>3. a.status = b.status /\ a.body = b.body
    BY <1>3, <2>1, <2>2
  <2>4. CASE finished = "closed" /\ script.ends = "well"
    <3>1. got = Len(script.text)
      BY <2>4 DEF ParserHas
    <3>2. SubSeq(script.text, 1, got) = script.text
      BY <3>1 DEF ScriptTyped, Sa!ScriptOK
    <3>3. Sa!Whole(b, script)
      BY <2>2, <2>4, <3>2, Zenon DEF ScriptTyped, Sa!ScriptOK
    <3>4. Sa!Whole(a, script)
      BY <2>3, <3>3, Zenon DEF Sa!Whole
    <3> QED BY <2>4, <3>4
  <2>5. CASE ~(finished = "closed" /\ script.ends = "well")
    <3>1. got \in 0 .. Len(script.text)
      BY DEF ScriptTyped, Sa!ScriptOK
    <3>2. Sa!Beginning(b, script)
      BY <2>2, <3>1, Zenon DEF ScriptTyped, Sa!ScriptOK
    <3>3. Sa!Beginning(a, script)
      BY <2>3, <3>2, Zenon DEF Sa!Beginning
    <3> QED BY <1>3, <2>5, <3>3
  <2> QED BY <2>4, <2>5
<1> QED BY <1>1, <1>2, <1>3

\* The client is answered.
LEMMA ClientIsTold ==
  ASSUME Sa!ConstantsAssumption, ScriptInv, Sa!ClientTurn
  PROVE  ScriptInv'
<1>1. UNCHANGED <<script, wrote, got, step, expired>> /\ told = Sa!Pending /\ step = Sa!Idle
  BY DEF Sa!ClientTurn
<1>2. ScriptTyped /\ HandlerAt /\ ParserHas
  BY DEF ScriptInv
<1>3. told' = [status |-> parser'.status, body |-> parser'.data, late |-> expired /\ finished # "no"]
  BY DEF Sa!ClientTurn
<1>4. told'.status = parser'.status /\ told'.body = parser'.data /\ (told'.late <=> expired /\ finished # "no")
  BY <1>3, Zenon
<1>5. HandlerAt'
  <2>1. step' = Sa!Idle /\ Sa!Idle' = Sa!Idle /\ DOMAIN Sa!Idle = {"at", "hup"} /\ ~Sa!Idle.hup
    BY <1>1 DEF Sa!Idle
  <2> QED BY <2>1 DEF HandlerAt
<1>6. CASE expired
  <2>1. parser' = Sa!parse(parser, Sa!Text504) /\ finished' = "timeout"
    BY <1>6 DEF Sa!ClientTurn, Sa!Timeout
  <2>2. ScriptTyped'
    BY <1>1, <1>2, <2>1 DEF ScriptTyped
  <2>3. ParserHas'
    BY <1>1, <1>6, <2>1 DEF ParserHas
  <2>4. Sa!ScriptIsHeard'
    <3>1. CASE finished = "no"
      <4>1. parser' = Sa!parse(Sa!Fresh, Sa!Text504)
        BY <1>2, <2>1, <3>1 DEF ParserHas
      <4>2. told'.status = Sa!Answered(Sa!Text504).status /\ told'.body = Sa!Answered(Sa!Text504).body
        BY <1>4, <4>1 DEF Sa!Answered
      <4>3. Sa!Says(told', "504", "timeout")
        BY <4>2 DEF Sa!ConstantsAssumption, Sa!Says
      <4> QED BY <2>1, <4>3 DEF Sa!ScriptIsHeard, Sa!Says
    <3>2. CASE finished # "no"
      <4>1. told'.late
        BY <1>4, <1>6, <3>2, Zenon
      <4> QED BY <4>1, Zenon DEF Sa!ScriptIsHeard
    <3> QED BY <3>1, <3>2
  <2> QED BY <1>5, <2>2, <2>3, <2>4 DEF ScriptInv
<1>7. CASE ~expired
  <2>1. UNCHANGED <<life, parser, finished>> /\ finished # "no"
    BY <1>7 DEF Sa!ClientTurn
  <2>2. ScriptTyped'
    BY <1>1, <1>2, <2>1 DEF ScriptTyped
  <2>3. finished \in {"closed", "ended"} /\ parser = Sa!parse(Sa!Fresh, Sa!WhatItWrote)
    BY <1>2, <1>7, <2>1 DEF ParserHas
  <2>4. Sa!WhatItWrote' = Sa!WhatItWrote
    BY <1>1 DEF Sa!WhatItWrote, Sa!Text500
  <2>5. ParserHas'
    <3>1. PICK p : p = Sa!parse(Sa!Fresh, Sa!WhatItWrote)
      OBVIOUS
    <3>2. Sa!parse(Sa!Fresh, Sa!WhatItWrote)' = p
      BY <2>4, <3>1
    <3> QED BY <1>1, <1>2, <2>1, <3>1, <3>2 DEF ParserHas, Sa!Fresh
  <2>6. Sa!ScriptIsHeard'
    <3>1. told'.status = Sa!Answered(Sa!WhatItWrote).status /\ told'.body = Sa!Answered(Sa!WhatItWrote).body
      BY <1>4, <2>1, <2>3 DEF Sa!Answered
    <3>2. ~told'.late
      BY <1>4, <1>7, Zenon
    <3>3. PICK a : a = told'
      OBVIOUS
    <3>4. (CASE finished = "timeout" -> Sa!Says(a, "504", "timeout")
           [] script.ends = "badly" /\ finished \notin {"timeout", "cut"} -> Sa!Says(a, "500", "error")
           [] finished = "closed" /\ script.ends = "well" -> Sa!Whole(a, script)
           [] OTHER -> Sa!Beginning(a, script))
      BY <1>2, <2>3, <3>1, <3>2, <3>3, AnsweredInTime
    <3> QED BY <1>1, <2>1, <3>3, <3>4, Zenon DEF Sa!ScriptIsHeard, Sa!Says, Sa!Whole, Sa!Beginning
  <2> QED BY <1>5, <2>2, <2>5, <2>6 DEF ScriptInv
<1> QED BY <1>6, <1>7

\* However the script, the clock and the server's events fall together, a client that can
\* be written to in time is told what the script said, that it failed or that time was up:
\* ScriptIsHeard of ScriptAnswer, for any scripts that the parser understands one by one
\* (IOCGIHandler::handle()).
THEOREM ScriptsAreHeard ==
  ASSUME Sa!ConstantsAssumption
  PROVE  Sa!Spec => []Sa!ScriptIsHeard
<1>1. Sa!Init => ScriptInv
  <2> SUFFICES ASSUME Sa!Init PROVE ScriptInv
    OBVIOUS
  <2>1. script \in Scripts /\ life = "runs" /\ wrote = 0 /\ got = 0 /\ parser = Sa!Fresh /\ step = Sa!Idle /\ finished = "no" /\ told = Sa!Pending
    BY DEF Sa!Init
  <2>2. Sa!ScriptOK(script)
    BY <2>1 DEF Sa!ConstantsAssumption
  <2>3. ScriptTyped
    BY <2>1, <2>2 DEF ScriptTyped, Sa!ScriptOK
  <2>4. HandlerAt
    <3>1. DOMAIN Sa!Idle = {"at", "hup"} /\ ~Sa!Idle.hup
      BY DEF Sa!Idle
    <3> QED BY <2>1, <3>1 DEF HandlerAt
  <2>5. ParserHas
    BY <2>1 DEF ParserHas
  <2>6. Sa!ScriptIsHeard
    BY <2>1, Zenon DEF Sa!ScriptIsHeard
  <2> QED BY <2>3, <2>4, <2>5, <2>6 DEF ScriptInv
<1>2. ScriptInv /\ [Sa!Next]_Sa!vars => ScriptInv'
  <2> SUFFICES ASSUME ScriptInv, [Sa!Next]_Sa!vars PROVE ScriptInv'
    OBVIOUS
  <2>0. Parts \subseteq Nat
    BY DEF Sa!ConstantsAssumption
  <2>1. CASE Sa!Next
    BY <2>1, <2>0, ScriptSteps, HandlerWakes, PipeIsRead, ScriptIsWaitedFor, ClientIsTold, Zenon DEF Sa!Next
  <2>2. CASE UNCHANGED Sa!vars
    <3>1. UNCHANGED <<script, got, parser, step, finished, told, wrote, life, expired>>
      BY <2>2 DEF Sa!vars
    <3> QED BY <3>1, ScriptGoesOn DEF ScriptInv, ScriptTyped, Sa!ScriptOK
  <2> QED BY <2>1, <2>2
<1>3. ScriptInv => Sa!ScriptIsHeard
  BY DEF ScriptInv
<1> QED BY <1>1, <1>2, <1>3, PTL DEF Sa!Spec

-----------------------------------------------------------------------------
(* Reading: where the text of a client lies in what it sends.                  *)

CONSTANTS Dialogues, Config, Pieces, INT_MAX
VARIABLES asked, patient, taken, c, status, answers, phase

Rd == INSTANCE Reading

\* Where each request ends, and the text up to there.
Ended(f, n)  == f = [k \in 0 .. n |-> IF k = 0 THEN 0 ELSE f[k - 1] + Len(Rd!Text(asked[k]))]
Joined(f, n) == f = [k \in 1 .. n |-> IF k = 1 THEN Rd!Text(asked[k]) ELSE f[k - 1] \o Rd!Text(asked[k])]

\* The requests are texts.
Texts ==
  /\ Len(asked) \in Nat /\ Len(asked) > 0 /\ DOMAIN asked = 1 .. Len(asked)
  /\ \A k \in 1 .. Len(asked) : Rd!HeaderOK(asked[k])

\* All their characters.
Alphabet == UNION {Rd!Chars(asked[k].head) \cup Rd!Chars(asked[k].body) : k \in 1 .. Len(asked)}

\* The recursion has a solution for each number of requests.
LEMMA EndedExists == \A n \in Nat : \E f : Ended(f, n)
<1> DEFINE T == {n \in Nat : \E f : Ended(f, n)}
<1>1. 0 \in T
  <2>1. PICK f : f = [k \in 0 .. 0 |-> 0]
    OBVIOUS
  <2>2. Ended(f, 0)
    BY <2>1 DEF Ended
  <2> QED BY <2>2
<1>2. ASSUME NEW n \in Nat, n \in T PROVE n + 1 \in T
  <2>1. PICK f : Ended(f, n)
    BY <1>2
  <2>2. PICK t : t = [k \in 0 .. n + 1 |-> Len(Rd!Text(asked[k]))]
    OBVIOUS
  <2>3. PICK g : g = [k \in 0 .. n + 1 |-> IF k = n + 1 THEN f[n] + t[n + 1] ELSE f[k]]
    OBVIOUS
  <2>4. \A k \in 0 .. n : f[k] = IF k = 0 THEN 0 ELSE f[k - 1] + t[k]
    BY <2>1, <2>2 DEF Ended
  <2>5. \A k \in 0 .. n + 1 : g[k] = IF k = 0 THEN 0 ELSE g[k - 1] + t[k]
    BY <2>3, <2>4
  <2>6. g = [k \in 0 .. n + 1 |-> IF k = 0 THEN 0 ELSE g[k - 1] + t[k]]
    BY <2>3, <2>5
  <2>7. Ended(g, n + 1)
    BY <2>2, <2>6 DEF Ended
  <2> QED BY <2>7
<1>3. Nat \subseteq T
  <2> HIDE DEF T
  <2> QED BY <1>1, <1>2, AllNumbers
<1> QED BY <1>3

\* And so has that of the text.
LEMMA JoinedExists == \A n \in Nat : \E f : Joined(f, n)
<1> DEFINE T == {n \in Nat : \E f : Joined(f, n)}
<1>1. 0 \in T
  <2>1. PICK f : f = [k \in 1 .. 0 |-> 0]
    OBVIOUS
  <2>2. Joined(f, 0)
    BY <2>1 DEF Joined
  <2> QED BY <2>2
<1>2. ASSUME NEW n \in Nat, n \in T PROVE n + 1 \in T
  <2>1. PICK f : Joined(f, n)
    BY <1>2
  <2>3. PICK g : g = [k \in 1 .. n + 1 |-> IF k = n + 1 THEN (IF n = 0 THEN Rd!Text(asked[1]) ELSE f[n] \o Rd!Text(asked[n + 1])) ELSE f[k]]
    OBVIOUS
  <2>4. \A k \in 1 .. n : f[k] = IF k = 1 THEN Rd!Text(asked[k]) ELSE f[k - 1] \o Rd!Text(asked[k])
    BY <2>1 DEF Joined
  <2>5. \A k \in 1 .. n + 1 : g[k] = IF k = 1 THEN Rd!Text(asked[k]) ELSE g[k - 1] \o Rd!Text(asked[k])
    <3>1. ASSUME NEW k \in 1 .. n PROVE g[k] = IF k = 1 THEN Rd!Text(asked[k]) ELSE g[k - 1] \o Rd!Text(asked[k])
      <4>1. g[k] = f[k] /\ (k # 1 => g[k - 1] = f[k - 1])
        BY <2>3
      <4> QED BY <2>4, <4>1
    <3>2. g[n + 1] = IF n + 1 = 1 THEN Rd!Text(asked[n + 1]) ELSE g[n] \o Rd!Text(asked[n + 1])
      <4>1. n # 0 => g[n] = f[n]
        BY <2>3
      <4> QED BY <2>3, <4>1
    <3> QED BY <3>1, <3>2
  <2>6. g = [k \in 1 .. n + 1 |-> IF k = 1 THEN Rd!Text(asked[k]) ELSE g[k - 1] \o Rd!Text(asked[k])]
    <3>1. PICK h : h = [k \in 1 .. n + 1 |-> IF k = 1 THEN Rd!Text(asked[k]) ELSE g[k - 1] \o Rd!Text(asked[k])]
      OBVIOUS
    <3>2. \A k \in 1 .. n + 1 : g[k] = h[k]
      BY <2>5, <3>1
    <3>3. DOMAIN g = 1 .. n + 1 /\ DOMAIN h = 1 .. n + 1 /\ g = [k \in DOMAIN g |-> g[k]] /\ h = [k \in DOMAIN h |-> h[k]]
      BY <2>3, <3>1
    <3>4. g = h
      BY <3>2, <3>3
    <3> QED BY <3>1, <3>4
  <2>7. Joined(g, n + 1)
    BY <2>6 DEF Joined
  <2> QED BY <2>7
<1>3. Nat \subseteq T
  <2> HIDE DEF T
  <2> QED BY <1>1, <1>2, AllNumbers
<1> QED BY <1>3

\* The ends of the requests.
LEMMA EndsAre ==
  ASSUME Len(asked) \in Nat
  PROVE  Ended(Rd!Lengths, Len(asked))
<1>1. PICK n \in Nat : n = Len(asked)
  OBVIOUS
<1>2. Rd!Lengths = CHOOSE f : f = [k \in 0 .. n |-> IF k = 0 THEN 0 ELSE f[k - 1] + Len(Rd!Text(asked[k]))]
  BY <1>1, Zenon DEF Rd!Lengths
<1>3. Rd!Lengths = CHOOSE f : Ended(f, n)
  BY <1>2, Zenon DEF Ended
<1>4. \E f : Ended(f, n)
  BY <1>1, EndedExists
<1>5. Ended(Rd!Lengths, n)
  BY <1>3, <1>4, Zenon
<1> QED BY <1>1, <1>5

\* The text of the client.
LEMMA TextIs ==
  ASSUME Len(asked) \in Nat, Len(asked) > 0, DOMAIN asked = 1 .. Len(asked)
  PROVE  \E f : Joined(f, Len(asked)) /\ Rd!Stream = f[Len(asked)]
<1>1. PICK n \in Nat : n = Len(asked) /\ n > 0
  OBVIOUS
<1>2. PICK ts : ts = [k \in 1 .. n |-> Rd!Text(asked[k])]
  OBVIOUS
<1>3. Rd!Stream = Rd!FlattenSeq(ts)
  BY <1>1, <1>2 DEF Rd!Stream
<1>4. Len(ts) = n /\ n # 0
  BY <1>1, <1>2
<1>5. Rd!Stream = (CHOOSE f : f = [k \in 1 .. n |-> IF k = 1 THEN ts[k] ELSE f[k - 1] \o ts[k]])[n]
  BY <1>3, <1>4, Zenon DEF Rd!FlattenSeq
<1>6. PICK f : Joined(f, n)
  BY JoinedExists
<1>7. f = [k \in 1 .. n |-> IF k = 1 THEN ts[k] ELSE f[k - 1] \o ts[k]]
  BY <1>2, <1>6 DEF Joined
<1>8. PICK h : h = CHOOSE g : g = [k \in 1 .. n |-> IF k = 1 THEN ts[k] ELSE g[k - 1] \o ts[k]]
  OBVIOUS
<1>9. h = [k \in 1 .. n |-> IF k = 1 THEN ts[k] ELSE h[k - 1] \o ts[k]]
  BY <1>7, <1>8, Zenon
<1>10. Joined(h, n)
  BY <1>2, <1>9 DEF Joined
<1>11. Rd!Stream = h[n]
  BY <1>5, <1>8, Zenon
<1> QED BY <1>1, <1>10, <1>11

\* A text over some characters is one over more.
LEMMA Widened ==
  ASSUME NEW S, NEW T, S \subseteq T, NEW s \in Seq(S)
  PROVE  s \in Seq(T)
OBVIOUS

\* What one request sends.
LEMMA TextOf ==
  ASSUME Texts, NEW k \in 1 .. Len(asked)
  PROVE  /\ asked[k].head \in Seq(Alphabet) /\ asked[k].body \in Seq(Alphabet)
         /\ Rd!Text(asked[k]) \in Seq(Alphabet)
         /\ Rd!Text(asked[k]) = asked[k].head \o asked[k].body
         /\ Len(Rd!Text(asked[k])) \in Nat /\ Len(Rd!Text(asked[k])) = Len(asked[k].head) + Len(asked[k].body)
         /\ Len(asked[k].head) \in Nat /\ Len(asked[k].body) \in Nat /\ Len(asked[k].head) >= 4
<1>1. PICK h, b : h = asked[k].head /\ b = asked[k].body
  OBVIOUS
<1>2. h \in Seq(Rd!Chars(h)) /\ b \in Seq(Rd!Chars(b)) /\ Len(h) >= Len(Rd!HeadEnd)
  BY <1>1 DEF Texts, Rd!HeaderOK
<1>3. Rd!Chars(h) \subseteq Alphabet /\ Rd!Chars(b) \subseteq Alphabet
  BY <1>1 DEF Alphabet
<1>4. h \in Seq(Alphabet) /\ b \in Seq(Alphabet)
  BY <1>2, <1>3, Widened
<1>5. Len(Rd!HeadEnd) = 4
  BY DEF Rd!HeadEnd, Rd!CRLF
<1>6. PICK t : t = h \o b /\ Rd!Text(asked[k]) = t
  BY <1>1 DEF Rd!Text
<1>7. Len(h) \in Nat /\ Len(b) \in Nat /\ Len(h) >= 4
  BY <1>2, <1>5
<1>8. t \in Seq(Alphabet) /\ Len(t) \in Nat /\ Len(t) = Len(h) + Len(b)
  BY <1>4, <1>6, <1>7
<1> QED BY <1>1, <1>4, <1>6, <1>7, <1>8

\* The ends of the requests are numbers, one behind the other.
LEMMA EndsGrow ==
  ASSUME Texts
  PROVE  /\ Rd!Lengths[0] = 0
         /\ \A k \in 0 .. Len(asked) : Rd!Lengths[k] \in Nat
         /\ \A k \in 1 .. Len(asked) : Rd!Lengths[k] = Rd!Lengths[k - 1] + Len(Rd!Text(asked[k]))
         /\ \A m \in 0 .. Len(asked) : \A k \in 0 .. m : Rd!Lengths[k] =< Rd!Lengths[m]
<1>1. PICK n \in Nat : n = Len(asked)
  BY DEF Texts
<1>2. PICK e : e = Rd!Lengths
  OBVIOUS
<1>3. PICK t : t = [k \in 0 .. n |-> Len(Rd!Text(asked[k]))]
  OBVIOUS
<1>4. \A k \in 1 .. n : t[k] \in Nat
  BY <1>1, <1>3, TextOf
<1>5. e[0] = 0 /\ \A k \in 1 .. n : e[k] = e[k - 1] + t[k]
  <2>1. Ended(e, n)
    BY <1>1, <1>2, EndsAre DEF Texts
  <2>2. \A k \in 0 .. n : e[k] = IF k = 0 THEN 0 ELSE e[k - 1] + t[k]
    BY <2>1, <1>3 DEF Ended
  <2> QED BY <1>1, <2>2
<1> DEFINE T == {m \in Nat : m \in 0 .. n => \A k \in 0 .. m : e[k] \in Nat /\ e[k] =< e[m]}
<1>6. 0 \in T
  BY <1>5
<1>7. ASSUME NEW m \in Nat, m \in T PROVE m + 1 \in T
  <2>1. CASE m + 1 \in 0 .. n
    <3>1. e[m] \in Nat /\ \A k \in 0 .. m : e[k] \in Nat /\ e[k] =< e[m]
      BY <1>1, <1>7, <2>1
    <3>2. e[m + 1] = e[m] + t[m + 1] /\ t[m + 1] \in Nat
      <4>1. m + 1 \in 1 .. n /\ m + 1 - 1 = m
        BY <1>1, <2>1
      <4> QED BY <1>4, <1>5, <4>1
    <3>3. \A k \in 0 .. m + 1 : k \in 0 .. m \/ k = m + 1
      BY <1>7
    <3>4. \A k \in 0 .. m : e[k] =< e[m + 1]
      BY <3>1, <3>2
    <3> QED BY <3>1, <3>2, <3>3, <3>4
  <2>2. CASE m + 1 \notin 0 .. n
    BY <2>2
  <2> QED BY <2>1, <2>2
<1>8. Nat \subseteq T
  <2> HIDE DEF T
  <2> QED BY <1>6, <1>7, AllNumbers
<1>9. \A m \in 0 .. n : e[m] \in Nat /\ \A k \in 0 .. m : e[k] =< e[m]
  BY <1>1, <1>8
<1>10. ASSUME NEW k \in 1 .. n PROVE e[k] = e[k - 1] + Len(Rd!Text(asked[k]))
  <2>1. t[k] = Len(Rd!Text(asked[k]))
    BY <1>3
  <2> QED BY <1>5, <2>1
<1> QED BY <1>1, <1>2, <1>5, <1>9, <1>10

\* A text that has the requests up to the m-th, and where they are in it.
Has(s, m) ==
  /\ s \in Seq(Alphabet) /\ Len(s) = Rd!Lengths[m]
  /\ \A k \in 1 .. m : \A i \in 1 .. Len(Rd!Text(asked[k])) : s[Rd!Lengths[k - 1] + i] = Rd!Text(asked[k])[i]

\* One more request.
LEMMA HasMore ==
  ASSUME Texts, NEW m \in 1 .. Len(asked), m + 1 \in 1 .. Len(asked), NEW s, Has(s, m)
  PROVE  Has(s \o Rd!Text(asked[m + 1]), m + 1)
<1>1. PICK t : t = Rd!Text(asked[m + 1])
  OBVIOUS
<1>2. PICK e : e = Rd!Lengths
  OBVIOUS
<1>3. t \in Seq(Alphabet) /\ Len(t) \in Nat
  <2>1. PICK q \in 1 .. Len(asked) : q = m + 1
    OBVIOUS
  <2>2. t = Rd!Text(asked[q])
    BY <1>1, <2>1
  <2> QED BY <2>2, TextOf
<1>4. s \in Seq(Alphabet) /\ Len(s) = e[m] /\ Len(asked) \in Nat
  BY <1>2 DEF Has, Texts
<1>5. PICK u : u = s \o t
  OBVIOUS
<1>6. u \in Seq(Alphabet) /\ Len(u) = Len(s) + Len(t) /\ (\A i \in 1 .. Len(s) : u[i] = s[i]) /\ \A i \in 1 .. Len(t) : u[Len(s) + i] = t[i]
  <2>1. PICK A : A = Alphabet
    OBVIOUS
  <2>2. s \in Seq(A) /\ t \in Seq(A)
    BY <1>3, <1>4, <2>1
  <2>3. u \in Seq(A) /\ Len(u) = Len(s) + Len(t) /\ (\A i \in 1 .. Len(s) : u[i] = s[i]) /\ \A i \in 1 .. Len(t) : u[Len(s) + i] = t[i]
    BY <1>5, <2>2
  <2> QED BY <2>1, <2>3
<1>7. e[m] \in Nat /\ e[m + 1] = e[m] + Len(t)
  <2>1. m + 1 - 1 = m /\ m \in 0 .. Len(asked)
    BY <1>4
  <2> QED BY <1>1, <1>2, <2>1, EndsGrow
<1>8. ASSUME NEW k \in 1 .. m, NEW i \in 1 .. Len(Rd!Text(asked[k])) PROVE u[e[k - 1] + i] = Rd!Text(asked[k])[i]
  <2>1. k \in 1 .. Len(asked) /\ m \in 0 .. Len(asked) /\ k \in 0 .. m /\ k - 1 \in 0 .. Len(asked) /\ k \in 0 .. Len(asked)
    BY <1>4
  <2>2. e[k] = e[k - 1] + Len(Rd!Text(asked[k])) /\ e[k] =< e[m] /\ e[k - 1] \in Nat /\ Len(Rd!Text(asked[k])) \in Nat
    BY <1>2, <2>1, EndsGrow, TextOf
  <2>3. e[k - 1] + i \in 1 .. Len(s)
    BY <1>4, <1>7, <2>2
  <2>4. s[e[k - 1] + i] = Rd!Text(asked[k])[i]
    BY <1>2 DEF Has
  <2> QED BY <1>6, <2>3, <2>4
<1>9. ASSUME NEW i \in 1 .. Len(t) PROVE u[e[m] + i] = t[i]
  BY <1>4, <1>6
<1>10. ASSUME NEW k \in 1 .. m + 1, NEW i \in 1 .. Len(Rd!Text(asked[k])) PROVE u[e[k - 1] + i] = Rd!Text(asked[k])[i]
  <2>1. CASE k = m + 1
    <3>1. k - 1 = m
      BY <1>4, <2>1
    <3> QED BY <1>1, <1>9, <2>1, <3>1
  <2>2. CASE k # m + 1
    <3>1. k \in 1 .. m
      BY <1>4, <2>2
    <3> QED BY <1>8, <3>1
  <2> QED BY <2>1, <2>2
<1>11. Has(u, m + 1)
  BY <1>2, <1>4, <1>6, <1>7, <1>10 DEF Has
<1> QED BY <1>1, <1>5, <1>11

\* The text of the client has all of them.
LEMMA StreamHas ==
  ASSUME Texts
  PROVE  Has(Rd!Stream, Len(asked))
<1>1. PICK n \in Nat : n = Len(asked) /\ n > 0
  BY DEF Texts
<1>2. PICK f : Joined(f, n) /\ Rd!Stream = f[n]
  BY <1>1, TextIs DEF Texts
<1>3. \A k \in 1 .. n : f[k] = IF k = 1 THEN Rd!Text(asked[k]) ELSE f[k - 1] \o Rd!Text(asked[k])
  BY <1>2 DEF Joined
<1> DEFINE T == {m \in Nat : m + 1 \in 1 .. n => Has(f[m + 1], m + 1)}
<1>4. 0 \in T
  <2>1. PICK t : t = Rd!Text(asked[1])
    OBVIOUS
  <2>2. f[1] = t
    BY <1>1, <1>3, <2>1
  <2>3. t \in Seq(Alphabet) /\ Len(t) \in Nat
    <3>1. 1 \in 1 .. Len(asked)
      BY <1>1
    <3> QED BY <2>1, <3>1, TextOf
  <2>4. PICK e : e = Rd!Lengths
    OBVIOUS
  <2>5. e[0] = 0 /\ e[1] = Len(t)
    <3>1. e[0] = 0 /\ e[1] = e[1 - 1] + Len(t)
      BY <1>1, <2>1, <2>4, EndsGrow
    <3> QED BY <2>3, <3>1
  <2>6. \A k \in 1 .. 1 : \A i \in 1 .. Len(Rd!Text(asked[k])) : t[e[k - 1] + i] = Rd!Text(asked[k])[i]
    BY <2>1, <2>5
  <2>7. Has(t, 1)
    BY <2>3, <2>4, <2>5, <2>6 DEF Has
  <2> QED BY <2>2, <2>7
<1>5. ASSUME NEW m \in Nat, m \in T PROVE m + 1 \in T
  <2>1. ASSUME m + 1 + 1 \in 1 .. n PROVE Has(f[m + 1 + 1], m + 1 + 1)
    <3>1. m + 1 \in 1 .. n /\ m + 1 + 1 # 1 /\ m + 1 + 1 - 1 = m + 1
      BY <1>1, <2>1
    <3>2. Has(f[m + 1], m + 1)
      BY <1>5, <3>1
    <3>3. f[m + 1 + 1] = f[m + 1] \o Rd!Text(asked[m + 1 + 1])
      <4>1. PICK q \in 1 .. n : q = m + 1 + 1 /\ q # 1 /\ q - 1 = m + 1
        BY <2>1, <3>1
      <4>2. f[q] = f[q - 1] \o Rd!Text(asked[q])
        BY <1>3, <4>1
      <4> QED BY <4>1, <4>2
    <3> QED BY <1>1, <2>1, <3>1, <3>2, <3>3, HasMore
  <2> QED BY <2>1
<1>6. Nat \subseteq T
  <2> HIDE DEF T
  <2> QED BY <1>4, <1>5, AllNumbers
<1>7. n - 1 \in Nat /\ n - 1 + 1 = n /\ n \in 1 .. n
  BY <1>1
<1>8. Has(f[n], n)
  <2>1. n - 1 \in T
    BY <1>6, <1>7
  <2> QED BY <1>7, <2>1
<1> QED BY <1>1, <1>2, <1>8

\* Where a header may end in a text.
Ends(s) == {j \in 1 .. Len(s) - 4 + 1 : SubSeq(s, j, j + 4 - 1) = Rd!HeadEnd}

\* The first of these places, or none.
LEMMA FindIs ==
  ASSUME NEW S, NEW s \in Seq(S)
  PROVE  /\ Ends(s) = {} => Rd!Find(s, Rd!HeadEnd, 1) = 0
         /\ Ends(s) # {} => Rd!Find(s, Rd!HeadEnd, 1) \in Ends(s) /\ \A j \in Ends(s) : Rd!Find(s, Rd!HeadEnd, 1) =< j
<1>1. Len(Rd!HeadEnd) = 4
  BY DEF Rd!HeadEnd, Rd!CRLF
<1>2. PICK T : T = Ends(s)
  OBVIOUS
<1>3. T \in SUBSET Nat
  BY <1>2 DEF Ends
<1>4. Rd!Find(s, Rd!HeadEnd, 1) = Rd!LeastOf(T)
  BY <1>1, <1>2, Zenon DEF Rd!Find, Ends
<1>5. T = {} => Rd!LeastOf(T) = 0
  BY Zenon DEF Rd!LeastOf
<1>6. ASSUME T # {} PROVE Rd!LeastOf(T) \in T /\ \A j \in T : Rd!LeastOf(T) =< j
  <2>1. \E j \in T : \A i \in T : j =< i
    BY <1>3, <1>6, LeastOf
  <2>2. Rd!LeastOf(T) = CHOOSE j \in T : \A i \in T : j =< i
    BY <1>6, Zenon DEF Rd!LeastOf, Rd!Min
  <2> QED BY <2>1, <2>2, Zenon
<1> QED BY <1>2, <1>4, <1>5, <1>6

\* A part of a text.
LEMMA PartIs ==
  ASSUME NEW S, NEW s \in Seq(S), NEW i \in Nat, NEW j \in Nat, 1 =< i, i =< j + 1, j =< Len(s), NEW u, u = SubSeq(s, i, j)
  PROVE  u \in Seq(S) /\ Len(u) \in Nat /\ Len(u) = j - i + 1 /\ \A x \in 1 .. Len(u) : u[x] = s[i + x - 1]
<1>1. CASE i = j + 1
  <2>1. u = << >>
    BY <1>1
  <2> QED BY <1>1, <2>1
<1>2. CASE i =< j
  <2>1. u \in Seq(S) /\ Len(u) = j - i + 1
    BY <1>2
  <2>2. \A x \in 1 .. Len(u) : u[x] = s[i + x - 1]
    BY <1>2, <2>1
  <2> QED BY <1>2, <2>1, <2>2
<1> QED BY <1>1, <1>2

\* Two texts that are the same at some places are so there.
LEMMA SameParts ==
  ASSUME NEW S, NEW s \in Seq(S), NEW t \in Seq(S), NEW i \in 1 .. Len(s), NEW j \in i .. Len(s), j \in 1 .. Len(t),
         \A x \in i .. j : s[x] = t[x]
  PROVE  SubSeq(s, i, j) = SubSeq(t, i, j)
<1>1. PICK u, v : u = SubSeq(s, i, j) /\ v = SubSeq(t, i, j)
  OBVIOUS
<1>2. u \in Seq(S) /\ v \in Seq(S) /\ Len(u) = j - i + 1 /\ Len(v) = j - i + 1
  BY <1>1
<1>3. \A x \in 1 .. Len(u) : u[x] = v[x]
  <2>1. ASSUME NEW x \in 1 .. Len(u) PROVE u[x] = v[x]
    <3>1. u[x] = s[i + x - 1] /\ v[x] = t[i + x - 1]
      BY <1>1, <1>2
    <3>2. i + x - 1 \in i .. j
      BY <1>2
    <3> QED BY <3>1, <3>2
  <2> QED BY <2>1
<1>4. u = v
  BY <1>2, <1>3
<1> QED BY <1>1, <1>4

\* The end of a header is found as soon as it is there, and in no place before.
LEMMA EndFound ==
  ASSUME NEW S, NEW h \in Seq(S), NEW a \in Seq(S), Len(h) >= 4, Rd!Find(h, Rd!HeadEnd, 1) = Len(h) - 4 + 1,
         \A i \in 1 .. Len(h) : i \in 1 .. Len(a) => a[i] = h[i]
  PROVE  /\ Len(a) < Len(h) => Rd!Find(a, Rd!HeadEnd, 1) = 0
         /\ Len(a) >= Len(h) => Rd!Find(a, Rd!HeadEnd, 1) = Len(h) - 4 + 1 /\ SubSeq(a, 1, Len(h) - 4) = SubSeq(h, 1, Len(h) - 4)
<1>1. PICK e : e = Len(h) - 4 + 1
  OBVIOUS
<1>2. Len(h) \in Nat /\ Len(a) \in Nat /\ e \in Nat /\ e > 0
  BY <1>1
<1>3. Ends(h) # {} /\ e \in Ends(h) /\ \A j \in Ends(h) : e =< j
  BY <1>1, <1>2, FindIs
<1>4. ASSUME NEW j \in 1 .. Len(h), j + 3 =< Len(h), j + 3 =< Len(a) PROVE SubSeq(a, j, j + 4 - 1) = SubSeq(h, j, j + 4 - 1)
  <2>1. PICK k : k = j + 4 - 1
    OBVIOUS
  <2>2. j \in 1 .. Len(a) /\ k \in j .. Len(a) /\ k \in 1 .. Len(h) /\ \A x \in j .. k : a[x] = h[x]
    BY <1>2, <1>4, <2>1
  <2>3. SubSeq(a, j, k) = SubSeq(h, j, k)
    BY <2>2, SameParts
  <2> QED BY <2>1, <2>3
<1>5. ASSUME NEW j \in Ends(a), j + 3 =< Len(h) PROVE j = e
  <2>1. j \in 1 .. Len(h) /\ j + 3 =< Len(a) /\ j \in 1 .. Len(h) - 4 + 1 /\ SubSeq(a, j, j + 4 - 1) = Rd!HeadEnd
    BY <1>2, <1>5 DEF Ends
  <2>2. j \in Ends(h)
    BY <1>4, <1>5, <2>1 DEF Ends
  <2>3. e =< j /\ j =< e
    BY <1>1, <1>2, <1>3, <2>1, <2>2
  <2> QED BY <1>2, <2>1, <2>3
<1>6. ASSUME Len(a) < Len(h) PROVE Ends(a) = {}
  <2>1. ASSUME NEW j \in Ends(a) PROVE FALSE
    <3>1. j \in Nat /\ j + 3 =< Len(a)
      BY <1>2, <2>1 DEF Ends
    <3>2. j = e
      BY <1>2, <1>5, <1>6, <2>1, <3>1
    <3> QED BY <1>1, <1>2, <1>6, <3>1, <3>2
  <2> QED BY <2>1
<1>7. ASSUME Len(a) >= Len(h) PROVE e \in Ends(a) /\ \A j \in Ends(a) : e =< j
  <2>1. e \in Ends(a)
    <3>1. e \in 1 .. Len(h) /\ e + 3 =< Len(h) /\ e + 3 =< Len(a) /\ e \in 1 .. Len(a) - 4 + 1
      BY <1>1, <1>2, <1>7
    <3>2. SubSeq(h, e, e + 4 - 1) = Rd!HeadEnd
      BY <1>3 DEF Ends
    <3>3. SubSeq(a, e, e + 4 - 1) = Rd!HeadEnd
      BY <1>4, <3>1, <3>2
    <3> QED BY <3>1, <3>3 DEF Ends
  <2>2. ASSUME NEW j \in Ends(a) PROVE e =< j
    <3>1. j \in Nat
      BY <1>2, <2>2 DEF Ends
    <3>2. CASE j + 3 =< Len(h)
      BY <1>2, <1>5, <2>2, <3>2
    <3>3. CASE j + 3 > Len(h)
      BY <1>1, <1>2, <3>1, <3>3
    <3> QED BY <1>2, <3>1, <3>2, <3>3
  <2> QED BY <2>1, <2>2
<1>8. ASSUME Len(a) >= Len(h) PROVE Rd!Find(a, Rd!HeadEnd, 1) = e
  <2>1. PICK f : f = Rd!Find(a, Rd!HeadEnd, 1)
    OBVIOUS
  <2>2. f \in Ends(a) /\ f =< e
    BY <1>7, <1>8, <2>1, FindIs
  <2>3. f \in Nat /\ e =< f
    BY <1>2, <1>7, <1>8, <2>2 DEF Ends
  <2> QED BY <1>2, <2>1, <2>2, <2>3
<1>9. ASSUME Len(a) >= Len(h) PROVE SubSeq(a, 1, Len(h) - 4) = SubSeq(h, 1, Len(h) - 4)
  <2>1. CASE Len(h) = 4
    <3>1. SubSeq(a, 1, 0) = << >> /\ SubSeq(h, 1, 0) = << >> /\ Len(h) - 4 = 0
      BY <2>1
    <3> QED BY <3>1
  <2>2. CASE Len(h) > 4
    <3>1. PICK j : j = Len(h) - 4
      OBVIOUS
    <3>2. 1 \in 1 .. Len(a) /\ j \in 1 .. Len(a) /\ j \in 1 .. Len(h) /\ \A x \in 1 .. j : a[x] = h[x]
      BY <1>2, <1>9, <2>2, <3>1
    <3>3. SubSeq(a, 1, j) = SubSeq(h, 1, j)
      BY <3>2, SameParts
    <3> QED BY <3>1, <3>3
  <2> QED BY <1>2, <2>1, <2>2
<1> QED BY <1>1, <1>6, <1>8, <1>9, FindIs

\* Two texts, one behind the other.
AreJoined(u, s, t) ==
  /\ Len(u) = Len(s) + Len(t)
  /\ \A i \in 1 .. Len(s) : u[i] = s[i]
  /\ \A i \in 1 .. Len(t) : u[Len(s) + i] = t[i]

\* Joined, they are so.
LEMMA Joining ==
  ASSUME NEW S, NEW s \in Seq(S), NEW t \in Seq(S)
  PROVE  s \o t \in Seq(S) /\ AreJoined(s \o t, s, t)
BY DEF AreJoined

\* Two texts of the same characters.
LEMMA SameTexts ==
  ASSUME NEW S, NEW s \in Seq(S), NEW t \in Seq(S), Len(s) = Len(t), \A i \in 1 .. Len(s) : s[i] = t[i]
  PROVE  s = t
OBVIOUS

\* The piece of a text that is behind t and goes up to r.
IsPiece(v, s, t, r) == Len(v) = r - t /\ \A i \in 1 .. Len(v) : v[i] = s[t + i]

\* A part of the text is one.
LEMMA PieceIs ==
  ASSUME NEW S, NEW s \in Seq(S), NEW t \in Nat, NEW r \in Nat, t =< r, r =< Len(s)
  PROVE  SubSeq(s, t + 1, r) \in Seq(S) /\ IsPiece(SubSeq(s, t + 1, r), s, t, r)
<1>1. PICK u : u = SubSeq(s, t + 1, r)
  OBVIOUS
<1>2. u \in Seq(S) /\ Len(u) = r - t /\ \A i \in 1 .. Len(u) : u[i] = s[t + 1 + i - 1]
  BY <1>1, PartIs
<1>3. \A i \in 1 .. Len(u) : t + 1 + i - 1 = t + i
  BY <1>2
<1> QED BY <1>1, <1>2, <1>3 DEF IsPiece

\* Two pieces of a text, one behind the other.
LEMMA PieceBehind ==
  ASSUME NEW S, NEW s \in Seq(S), NEW o \in Nat, NEW t \in Nat, NEW r \in Nat, o =< t, t =< r, r =< Len(s)
  PROVE  SubSeq(s, o + 1, t) \o SubSeq(s, t + 1, r) = SubSeq(s, o + 1, r)
<1>0. PICK u, v, w : u = SubSeq(s, o + 1, t) /\ v = SubSeq(s, t + 1, r) /\ w = SubSeq(s, o + 1, r)
  OBVIOUS
<1>1. Len(s) \in Nat /\ t =< Len(s) /\ o =< r
  OBVIOUS
<1>2. u \in Seq(S) /\ Len(u) = t - o /\ \A i \in 1 .. Len(u) : u[i] = s[o + i]
  BY <1>0, <1>1, PieceIs DEF IsPiece
<1>3. v \in Seq(S) /\ Len(v) = r - t /\ \A i \in 1 .. Len(v) : v[i] = s[t + i]
  BY <1>0, <1>1, PieceIs DEF IsPiece
<1>4. w \in Seq(S) /\ Len(w) = r - o /\ \A i \in 1 .. Len(w) : w[i] = s[o + i]
  BY <1>0, <1>1, PieceIs DEF IsPiece
<1>5. PICK z : z = u \o v
  OBVIOUS
<1>6. z \in Seq(S) /\ Len(z) = Len(u) + Len(v) /\ (\A i \in 1 .. Len(u) : z[i] = u[i]) /\ \A i \in 1 .. Len(v) : z[Len(u) + i] = v[i]
  <2>1. u \o v \in Seq(S) /\ AreJoined(u \o v, u, v)
    BY <1>2, <1>3, Joining
  <2> QED BY <1>5, <2>1 DEF AreJoined
<1>7. Len(z) = Len(w)
  BY <1>2, <1>3, <1>4, <1>6
<1>8. ASSUME NEW i \in 1 .. Len(z) PROVE z[i] = w[i]
  <2>1. i \in Nat /\ i \in 1 .. Len(w)
    BY <1>4, <1>7
  <2>2. CASE i =< Len(u)
    <3>1. i \in 1 .. Len(u)
      BY <1>2, <2>1, <2>2
    <3> QED BY <1>2, <1>4, <1>6, <2>1, <3>1
  <2>3. CASE i > Len(u)
    <3>1. PICK x : x = i - Len(u)
      OBVIOUS
    <3>2. x \in 1 .. Len(v) /\ Len(u) + x = i /\ t + x = o + i
      BY <1>2, <1>3, <1>6, <2>1, <2>3, <3>1
    <3>3. z[i] = v[x] /\ v[x] = s[o + i]
      BY <1>3, <1>6, <3>2
    <3> QED BY <1>4, <2>1, <3>3
  <2> QED BY <1>2, <2>1, <2>2, <2>3
<1>9. z = w
  BY <1>4, <1>6, <1>7, <1>8, SameTexts
<1> QED BY <1>0, <1>5, <1>9

\* Behind o a text goes on with another one.
GoesOn(s, o, h) == \A i \in 1 .. Len(h) : s[o + i] = h[i]

\* The head ends at e in the text a, which begins at o and goes up to r, and y is behind it.
IsCut(h, d, o, r, a, e, y) ==
  /\ r < o + Len(h) => e = 0
  /\ r >= o + Len(h) => /\ e # 0 /\ SubSeq(a, 1, e - 1) = SubSeq(h, 1, Len(h) - 4) /\ Len(y) = r - o - Len(h)
                        /\ r =< o + Len(h) + Len(d) => y = SubSeq(d, 1, Len(y))

\* What there is of a text from o on, when its last piece has come: whether the head that
\* begins there is whole, and if so, that it is the one and that what is behind it is of
\* the body.
LEMMA PieceOf ==
  ASSUME NEW S, NEW s \in Seq(S), NEW h \in Seq(S), NEW d \in Seq(S), NEW o \in Nat, NEW t \in Nat, NEW r \in Nat,
         Len(h) >= 4, Rd!Find(h, Rd!HeadEnd, 1) = Len(h) - 4 + 1,
         GoesOn(s, o, h), GoesOn(s, o + Len(h), d),
         o =< t, t < o + Len(h), t < r, r =< Len(s),
         NEW b \in Seq(S), NEW x \in Seq(S), NEW a \in Seq(S), IsPiece(b, s, o, t), IsPiece(x, s, t, r), IsPiece(a, s, o, r),
         NEW e, e = Rd!Find(a, Rd!HeadEnd, 1), NEW y, y = Rd!From(x, Rd!BodyStart(b, e))
  PROVE  IsCut(h, d, o, r, a, e, y)
<1>1. Len(h) \in Nat /\ Len(d) \in Nat /\ t =< r
  OBVIOUS
<1>21. Len(b) = t - o /\ Len(x) = r - t /\ Len(a) = r - o
  BY DEF IsPiece
<1>3. \A i \in 1 .. Len(h) : i \in 1 .. Len(a) => a[i] = h[i]
  BY DEF IsPiece, GoesOn
<1>4. Len(Rd!HeadEnd) = 4
  BY DEF Rd!HeadEnd, Rd!CRLF
<1>6. ASSUME r < o + Len(h) PROVE e = 0
  <2>1. Len(a) < Len(h)
    BY <1>1, <1>21, <1>6
  <2> QED BY <1>3, <2>1, EndFound
<1>7. ASSUME r >= o + Len(h)
      PROVE  /\ e # 0 /\ SubSeq(a, 1, e - 1) = SubSeq(h, 1, Len(h) - 4) /\ Len(y) = r - o - Len(h)
             /\ r =< o + Len(h) + Len(d) => y = SubSeq(d, 1, Len(y))
  <2>1. Len(a) >= Len(h)
    BY <1>1, <1>21, <1>7
  <2>2. e = Len(h) - 4 + 1 /\ SubSeq(a, 1, Len(h) - 4) = SubSeq(h, 1, Len(h) - 4)
    BY <1>3, <2>1, EndFound
  <2>3. e - 1 = Len(h) - 4 /\ e # 0
    BY <1>1, <2>2
  <2>4. PICK i : i = Rd!BodyStart(b, e)
    OBVIOUS
  <2>5. i = Len(h) - 4 + 1 + 4 - (t - o)
    BY <1>21, <1>4, <2>2, <2>4 DEF Rd!BodyStart
  <2>6. PICK p : p = i - 1
    OBVIOUS
  <2>7. i = p + 1 /\ p \in Nat /\ Len(x) \in Nat /\ p =< Len(x) /\ Len(x) - p = r - o - Len(h) /\ t + p = o + Len(h)
    BY <1>1, <1>21, <1>7, <2>5, <2>6
  <2>8. y = SubSeq(x, p + 1, Len(x))
    BY <2>4, <2>7 DEF Rd!From
  <2>9. y \in Seq(S) /\ IsPiece(y, x, p, Len(x))
    <3>1. PICK n \in Nat : n = Len(x) /\ n =< Len(x)
      BY <2>7
    <3> QED BY <2>7, <2>8, <3>1, PieceIs
  <2>10. Len(y) = r - o - Len(h) /\ Len(y) \in Nat
    <3>1. Len(y) = Len(x) - p
      BY <2>9 DEF IsPiece
    <3>2. PICK n : n = Len(x)
      OBVIOUS
    <3>3. n - p \in Nat
      BY <2>7, <3>2
    <3> QED BY <2>7, <3>1, <3>2, <3>3
  <2>11. ASSUME r =< o + Len(h) + Len(d) PROVE y = SubSeq(d, 1, Len(y))
    <3>1. Len(y) =< Len(d)
      BY <1>1, <2>10, <2>11
    <3>2. PICK z, n : z = SubSeq(d, 0 + 1, n) /\ n = Len(y) /\ n \in Nat /\ n =< Len(d)
      BY <2>10, <3>1
    <3>3. z \in Seq(S) /\ IsPiece(z, d, 0, n)
      BY <3>2, PieceIs
    <3>4. Len(z) = Len(y) /\ \A j \in 1 .. Len(z) : z[j] = d[j]
      <4>1. Len(z) = n - 0 /\ \A j \in 1 .. Len(z) : z[j] = d[0 + j]
        BY <3>3 DEF IsPiece
      <4>2. Len(z) = n /\ n \in Nat
        BY <3>2, <4>1
      <4>3. \A j \in 1 .. Len(z) : 0 + j = j
        BY <4>2
      <4> QED BY <3>2, <4>1, <4>2, <4>3
    <3>5. ASSUME NEW j \in 1 .. Len(y) PROVE y[j] = d[j]
      <4>1. p + j \in 1 .. Len(x) /\ t + (p + j) = o + Len(h) + j /\ j \in 1 .. Len(d)
        <5>5. Len(y) = Len(x) - p
          BY <2>7, <2>10, Zenon
        <5>6. j \in Nat /\ 1 =< j /\ j =< Len(y)
          BY <2>10
        <5>1. Len(y) = Len(x) - p /\ j \in Nat /\ 1 =< j /\ j =< Len(y)
          BY <5>5, <5>6
        <5>2. p + j \in 1 .. Len(x)
          BY <2>7, <5>1
        <5>3. t + (p + j) = o + Len(h) + j
          <6>1. PICK m \in Nat : m = Len(h)
            BY <1>1
          <6>2. t + p = o + m
            BY <2>7, <6>1
          <6>3. t + (p + j) = o + m + j
            BY <2>7, <5>1, <6>2
          <6> QED BY <6>1, <6>3
        <5>4. j \in 1 .. Len(d)
          BY <1>1, <2>10, <3>1, <5>1
        <5> QED BY <5>2, <5>3, <5>4
      <4>2. y[j] = x[p + j]
        BY <2>9 DEF IsPiece
      <4>3. x[p + j] = s[t + (p + j)]
        BY <4>1 DEF IsPiece
      <4>4. s[o + Len(h) + j] = d[j]
        BY <4>1 DEF GoesOn
      <4> QED BY <4>1, <4>2, <4>3, <4>4
    <3>6. y = z
      <4>1. y \in Seq(S) /\ z \in Seq(S) /\ Len(y) = Len(z)
        BY <2>9, <3>3, <3>4
      <4>2. \A j \in 1 .. Len(y) : y[j] = z[j]
        <5>1. \A j \in 1 .. Len(z) : z[j] = d[j]
          BY <3>4
        <5> QED BY <3>5, <4>1, <5>1
      <4> QED BY <4>1, <4>2, SameTexts
    <3> QED BY <3>2, <3>6
  <2> QED BY <2>2, <2>3, <2>10, <2>11
<1> QED BY <1>6, <1>7 DEF IsCut

\* What has come of the k-th request when the first t characters have.
Come(k, t) == SubSeq(Rd!Stream, Rd!Lengths[k - 1] + 1, t)

\* Where the header of the k-th request ends.
HeadAt(k) == Rd!Lengths[k - 1] + Len(asked[k].head)

\* The k-th request has come up to r, b before and x now: e is the end of its header, when
\* it is there, and y is what is behind it.
HasCome(k, r, b, x, e, y) ==
  /\ b \o x = Come(k, r)
  /\ r < HeadAt(k) => e = 0
  /\ r >= HeadAt(k) =>
       /\ e # 0 /\ SubSeq(Come(k, r), 1, e - 1) = SubSeq(asked[k].head, 1, Len(asked[k].head) - Len(Rd!HeadEnd))
       /\ Len(y) = r - HeadAt(k)
       /\ r =< Rd!Lengths[k] => y = SubSeq(asked[k].body, 1, Len(y))

\* The request of the parser, with its next piece: whether its header is whole, and if so,
\* that it is the one that was sent and that what is behind it is of its body.
LEMMA Arrived ==
  ASSUME Texts, NEW k \in 1 .. Len(asked), NEW t \in Nat, NEW r \in Nat, t < r,
         Rd!Lengths[k - 1] =< t, t < HeadAt(k), r =< Rd!Lengths[Len(asked)],
         NEW b, b = Come(k, t), NEW x, x = SubSeq(Rd!Stream, t + 1, r),
         NEW e, e = Rd!EndIn(b, x), NEW y, y = Rd!From(x, Rd!BodyStart(b, e))
  PROVE  HasCome(k, r, b, x, e, y)
<1>1. PICK o, h, d, q : o = Rd!Lengths[k - 1] /\ h = asked[k].head /\ d = asked[k].body /\ q = Rd!Text(asked[k])
  OBVIOUS
<1>2. PICK A, s : A = Alphabet /\ s = Rd!Stream
  OBVIOUS
<1>3. h \in Seq(A) /\ d \in Seq(A) /\ q = h \o d /\ Len(h) \in Nat /\ Len(d) \in Nat /\ Len(h) >= 4 /\ Len(q) = Len(h) + Len(d)
  BY <1>1, <1>2, TextOf
<1>4. o \in Nat /\ Rd!Lengths[k] = o + Len(q)
  <2>1. k - 1 \in 0 .. Len(asked) /\ k \in 0 .. Len(asked)
    BY DEF Texts
  <2> QED BY <1>1, <2>1, EndsGrow
<1>5. s \in Seq(A) /\ Len(s) = Rd!Lengths[Len(asked)] /\ \A i \in 1 .. Len(q) : s[o + i] = q[i]
  <2>1. k \in 1 .. Len(asked)
    OBVIOUS
  <2> QED BY <1>1, <1>2, <2>1, StreamHas DEF Has
<1>6. AreJoined(q, h, d)
  BY <1>3, Joining
<1>7. GoesOn(s, o, h)
  <2>1. ASSUME NEW i \in 1 .. Len(h) PROVE s[o + i] = h[i]
    <3>1. q[i] = h[i]
      BY <1>6 DEF AreJoined
    <3>2. i \in 1 .. Len(q)
      BY <1>3
    <3> QED BY <1>5, <3>1, <3>2
  <2> QED BY <2>1 DEF GoesOn
<1>8. GoesOn(s, o + Len(h), d)
  <2>1. ASSUME NEW i \in 1 .. Len(d) PROVE s[o + Len(h) + i] = d[i]
    <3>1. q[Len(h) + i] = d[i]
      BY <1>6 DEF AreJoined
    <3>2. Len(h) + i \in 1 .. Len(q) /\ o + (Len(h) + i) = o + Len(h) + i
      BY <1>3, <1>4
    <3>3. s[o + (Len(h) + i)] = q[Len(h) + i]
      BY <1>5, <3>2
    <3> QED BY <3>1, <3>2, <3>3
  <2> QED BY <2>1 DEF GoesOn
<1>9. PICK a : a = SubSeq(s, o + 1, r)
  OBVIOUS
<1>10. b = SubSeq(s, o + 1, t) /\ x = SubSeq(s, t + 1, r) /\ Come(k, r) = a
  BY <1>1, <1>2, <1>9 DEF Come
<1>11. o =< t /\ t =< r /\ o =< r /\ r =< Len(s) /\ t =< Len(s) /\ t < o + Len(h)
  <2>1. o =< t /\ r =< Len(s)
    BY <1>1, <1>5
  <2>2. t < o + Len(h)
    BY <1>1 DEF HeadAt
  <2>3. Len(s) \in Nat
    BY <1>5
  <2> QED BY <1>4, <2>1, <2>2, <2>3
<1>12. b \in Seq(A) /\ IsPiece(b, s, o, t) /\ x \in Seq(A) /\ IsPiece(x, s, t, r) /\ a \in Seq(A) /\ IsPiece(a, s, o, r)
  BY <1>4, <1>5, <1>9, <1>10, <1>11, PieceIs
<1>13. b \o x = a
  <2>1. SubSeq(s, o + 1, t) \o SubSeq(s, t + 1, r) = SubSeq(s, o + 1, r)
    BY <1>4, <1>5, <1>11, PieceBehind
  <2> QED BY <1>9, <1>10, <2>1, Zenon
<1>14. e = Rd!Find(a, Rd!HeadEnd, 1)
  BY <1>13 DEF Rd!EndIn
<1>15. Len(Rd!HeadEnd) = 4
  BY DEF Rd!HeadEnd, Rd!CRLF
<1>16. Rd!Find(h, Rd!HeadEnd, 1) = Len(h) - 4 + 1
  BY <1>1, <1>15 DEF Texts, Rd!HeaderOK
<1>17. IsCut(h, d, o, r, a, e, y)
  <2>1. s \in Seq(A) /\ h \in Seq(A) /\ d \in Seq(A) /\ o \in Nat /\ Len(h) >= 4
    BY <1>3, <1>4, <1>5
  <2> QED BY <1>7, <1>8, <1>11, <1>12, <1>14, <1>16, <2>1, PieceOf
<1>18. HeadAt(k) = o + Len(h) /\ Rd!Lengths[k] = o + Len(h) + Len(d) /\ r - (o + Len(h)) = r - o - Len(h)
  <2>1. HeadAt(k) = o + Len(h)
    BY <1>1 DEF HeadAt
  <2>2. Rd!Lengths[k] = o + (Len(h) + Len(d))
    BY <1>3, <1>4
  <2>3. PICK m, n : m = Len(h) /\ n = Len(d) /\ m \in Nat /\ n \in Nat
    BY <1>3
  <2>4. o + (m + n) = o + m + n /\ r - (o + m) = r - o - m
    BY <1>4, <2>3
  <2> QED BY <2>1, <2>2, <2>3, <2>4
<1> QED BY <1>1, <1>10, <1>13, <1>15, <1>17, <1>18 DEF IsCut, HasCome

-----------------------------------------------------------------------------
(* Reading: what the parsers make of a piece.                                  *)

\* The fields of a connection.
IsConnection(w) ==
  /\ DOMAIN w = {"buffer", "headed", "request", "raw", "size", "moved", "form"}
  /\ w = [x \in DOMAIN w |-> w[x]]

\* One that has read b, in which no header has ended.
Waiting(w, b) ==
  /\ IsConnection(w)
  /\ w.buffer = b /\ w.request = Rd!Request /\ w.size = 0 /\ w.moved = 0
  /\ w.headed = FALSE /\ w.raw = FALSE /\ w.form = FALSE

\* One that has a header, and no body or one with n characters so far or a form.
Headed(w, req, raw, form, n) ==
  /\ w.request = req /\ w.moved = n
  /\ w.headed = TRUE /\ w.raw = raw /\ w.form = form

\* How much of the body is counted.
Counted(req, y) == IF Len(y) > req.length THEN req.length ELSE Len(y)

\* An int is no wider than a length, and a length that a script is given is one.
IntOK     == MaxLength \in Nat /\ INT_MAX \in Nat /\ INT_MAX =< MaxLength
Fits(req) == req.cgi => req.length \in Nat /\ req.length =< INT_MAX

\* What is less than the divisor is its own rest.
LEMMA RestIs ==
  ASSUME NEW n \in Nat, NEW m \in Nat, n < m
  PROVE  n % m = n
OBVIOUS

\* What fits into an int stays what it is, and so does what is first counted of it.
LEMMA FirstCount ==
  ASSUME IntOK, NEW l \in Nat, l =< INT_MAX, NEW n \in Nat
  PROVE  /\ Rd!Counted(Rd!AsInt(l), n) = IF n > l THEN l ELSE n
         /\ Rd!Added(0, IF n > l THEN l ELSE n) = IF n > l THEN l ELSE n
<1>1. Rd!AsInt(l) = l
  <2>1. PICK a, m : a = l + INT_MAX + 1 /\ m = 2 * (INT_MAX + 1)
    OBVIOUS
  <2>2. a \in Nat /\ m \in Nat /\ a < m /\ a - (INT_MAX + 1) = l
    BY <2>1 DEF IntOK
  <2>3. a % m = a
    BY <2>2, RestIs
  <2>4. Rd!AsInt(l) = (a % m) - (INT_MAX + 1)
    BY <2>1 DEF Rd!AsInt
  <2> QED BY <2>2, <2>3, <2>4
<1>2. PICK k : k = IF n > l THEN l ELSE n
  OBVIOUS
<1>3. Rd!Added(0, k) = k
  <2>1. PICK m : m = MaxLength + 1
    OBVIOUS
  <2>2. k \in Nat /\ m \in Nat /\ k < m /\ 0 + k = k
    BY <1>2, <2>1 DEF IntOK
  <2>3. k % m = k
    BY <2>2, RestIs
  <2> QED BY <2>1, <2>2, <2>3 DEF Rd!Added
<1> QED BY <1>1, <1>2, <1>3 DEF Rd!Counted

\* A request that is refused, and one that is taken.
Refused(u, req) == u.request = req /\ u.moved = 0 /\ u.headed = FALSE /\ u.raw = FALSE /\ u.form = FALSE

Became(u, req, y) ==
  /\ req.cgi => Headed(u, req, TRUE, FALSE, Counted(req, y))
  /\ ~req.cgi /\ req.method # "POST" => Headed(u, req, FALSE, FALSE, 0)
  /\ ~req.cgi /\ req.method = "POST" /\ Rd!Form(req.type) => Headed(u, req, FALSE, TRUE, 0)
  /\ ~req.cgi /\ req.method = "POST" /\ ~Rd!Form(req.type) => \E n : Headed(u, req, TRUE, FALSE, n)

\* At the start nothing has been read.
LEMMA FreshWaits == Waiting(Rd!Fresh, << >>)
<1>1. PICK w : w = Rd!Fresh
  OBVIOUS
<1>2. IsConnection(w) /\ w.buffer = << >> /\ w.request = Rd!Request /\ w.size = 0 /\ w.moved = 0
  BY <1>1 DEF Rd!Fresh, IsConnection
<1>3. w.headed = FALSE /\ w.raw = FALSE /\ w.form = FALSE
  BY <1>1, Zenon DEF Rd!Fresh
<1> QED BY <1>1, <1>2, <1>3 DEF Waiting

\* More has been read.
LEMMA WaitingMore ==
  ASSUME NEW w, NEW b, NEW a, Waiting(w, b), NEW u, u = [w EXCEPT !.buffer = a]
  PROVE  Waiting(u, a)
<1>1. IsConnection(u) /\ u.buffer = a /\ u.request = Rd!Request /\ u.size = 0 /\ u.moved = 0
  BY DEF Waiting, IsConnection
<1>2. u.headed = w.headed /\ u.raw = w.raw /\ u.form = w.form
  BY DEF Waiting, IsConnection
<1>3. u.headed = FALSE /\ u.raw = FALSE /\ u.form = FALSE
  BY <1>2 DEF Waiting
<1> QED BY <1>1, <1>3 DEF Waiting

\* A header that is refused.
LEMMA RefusedIs ==
  ASSUME NEW w, NEW b, NEW req, Waiting(w, b), NEW u, u = [w EXCEPT !.request = req]
  PROVE  Refused(u, req)
<1>1. u.request = req /\ u.moved = 0
  BY DEF Waiting, IsConnection
<1>2. u.headed = w.headed /\ u.raw = w.raw /\ u.form = w.form
  BY DEF Waiting, IsConnection
<1> QED BY <1>1, <1>2 DEF Waiting, Refused

\* The header has been taken.
HasHeader(v, w, req) == v = [w EXCEPT !.headed = TRUE, !.request = req]

\* A header that is taken, with what is behind it.
LEMMA TakenIs ==
  ASSUME NEW w, NEW b, NEW req, NEW y, Len(y) \in Nat, Waiting(w, b), NEW v, HasHeader(v, w, req),
         IntOK, Fits(req),
         NEW u, u = Rd!Fed(Rd!WithBody(v), y)
  PROVE  u.code = 200 /\ u.body = y /\ Became(u.d, req, y)
<1>0. v = [w EXCEPT !.headed = TRUE, !.request = req]
  BY DEF HasHeader
<1>1. IsConnection(v) /\ v.request = req /\ v.size = 0 /\ v.moved = 0
  BY <1>0 DEF Waiting, IsConnection
<1>2. v.headed = TRUE
  BY <1>0, Zenon DEF Waiting, IsConnection
<1>3. v.raw = FALSE /\ v.form = FALSE
  <2>1. v.raw = w.raw /\ v.form = w.form
    BY <1>0 DEF Waiting, IsConnection
  <2> QED BY <2>1 DEF Waiting
<1>4. PICK raw : raw = [v EXCEPT !.raw = TRUE]
  OBVIOUS
<1>5. IsConnection(raw) /\ raw.request = req /\ raw.size = 0 /\ raw.moved = 0
  BY <1>1, <1>4 DEF IsConnection
<1>6. raw.raw = TRUE /\ raw.headed = TRUE /\ raw.form = FALSE
  <2>1. raw.headed = v.headed /\ raw.form = v.form
    BY <1>1, <1>4 DEF IsConnection
  <2>2. raw.raw = TRUE
    BY <1>1, <1>4, Zenon DEF IsConnection
  <2> QED BY <1>2, <1>3, <2>1, <2>2
<1>7. PICK fed : fed = Rd!FeedRaw(raw, Len(y))
  OBVIOUS
<1>8. (\E n : Headed(fed, req, TRUE, FALSE, n)) /\ (req.cgi => Headed(fed, req, TRUE, FALSE, Counted(req, y)))
  <2>1. PICK size : size = Rd!Counted(Rd!AsInt(raw.request.length), raw.size + Len(y))
    OBVIOUS
  <2>2. PICK n : n = Rd!Added(raw.moved, size)
    OBVIOUS
  <2>3. fed = [raw EXCEPT !.size = size, !.moved = n]
    BY <1>5, <1>7, <2>1, <2>2 DEF Rd!FeedRaw, IsConnection
  <2>4. fed.request = req /\ fed.moved = n /\ fed.raw = raw.raw /\ fed.headed = raw.headed /\ fed.form = raw.form
    BY <1>5, <2>3 DEF IsConnection
  <2>5. Headed(fed, req, TRUE, FALSE, n)
    BY <1>6, <2>4 DEF Headed
  <2>6. ASSUME req.cgi PROVE n = Counted(req, y)
    <3>1. PICK m \in Nat, l \in Nat : m = Len(y) /\ l = req.length /\ l =< INT_MAX
      BY <2>6 DEF Fits
    <3>2. 0 + m = m
      BY <3>1
    <3>3. size = Rd!Counted(Rd!AsInt(l), m) /\ n = Rd!Added(0, size)
      BY <1>5, <2>1, <2>2, <3>1, <3>2
    <3>4. Counted(req, y) = IF m > l THEN l ELSE m
      BY <3>1 DEF Counted
    <3> QED BY <3>1, <3>3, <3>4, FirstCount
  <2> QED BY <2>5, <2>6
<1>9. PICK form : form = [v EXCEPT !.form = TRUE]
  OBVIOUS
<1>10. Headed(form, req, FALSE, TRUE, 0)
  <2>1. form.request = req /\ form.moved = 0 /\ form.raw = v.raw /\ form.headed = v.headed
    BY <1>1, <1>9 DEF IsConnection
  <2>2. form.form = TRUE
    BY <1>1, <1>9, Zenon DEF IsConnection
  <2> QED BY <1>2, <1>3, <2>1, <2>2 DEF Headed
<1>11. Headed(v, req, FALSE, FALSE, 0)
  BY <1>1, <1>2, <1>3 DEF Headed
<1>12. Rd!WithBody(v) = IF req.cgi THEN raw ELSE IF req.method # "POST" THEN v ELSE IF Rd!Form(req.type) THEN form ELSE raw
  BY <1>1, <1>4, <1>9 DEF Rd!WithBody
<1>13. Rd!Fed(raw, y).d = fed
  BY <1>6, <1>7 DEF Rd!Fed
<1>14. Rd!Fed(v, y).d = v
  BY <1>3 DEF Rd!Fed
<1>15. Rd!Fed(form, y).d = form
  BY <1>10 DEF Rd!Fed, Headed
<1>16. u.code = 200 /\ u.body = y
  BY DEF Rd!Fed
<1>17. CASE req.cgi
  BY <1>8, <1>12, <1>13, <1>16, <1>17 DEF Became
<1>18. CASE ~req.cgi /\ req.method # "POST"
  <2>1. Rd!WithBody(v) = v
    BY <1>12, <1>18
  <2>2. u.d = v
    BY <1>14, <2>1
  <2> QED BY <1>11, <1>16, <1>18, <2>2 DEF Became
<1>19. CASE ~req.cgi /\ req.method = "POST" /\ Rd!Form(req.type)
  BY <1>10, <1>12, <1>15, <1>16, <1>19 DEF Became
<1>20. CASE ~req.cgi /\ req.method = "POST" /\ ~Rd!Form(req.type)
  BY <1>8, <1>12, <1>13, <1>16, <1>20 DEF Became
<1> QED BY <1>17, <1>18, <1>19, <1>20

\* What parse() makes of a whole header, which is understood as sense, with y behind it.
IsParsed(p, sense, y) ==
  /\ sense.code # 200 => p.code = sense.code /\ Refused(p.d, sense.request)
  /\ sense.code = 200 => p.code = 200 /\ p.body = y /\ Became(p.d, sense.request, y)

\* A beginning of the body of the k-th request.
OfBody(k, y) == y = SubSeq(asked[k].body, 1, Len(y))

\* The next piece of the k-th request, which goes up to r.
LEMMA ParseIs ==
  ASSUME Texts, NEW k \in 1 .. Len(asked), NEW t \in Nat, NEW r \in Nat, t < r,
         Rd!Lengths[k - 1] =< t, t < HeadAt(k), r =< Rd!Lengths[Len(asked)],
         IntOK, Fits(Rd!Understood(asked[k]).request),
         NEW w, Waiting(w, Come(k, t)), NEW p, p = Rd!parse(w, SubSeq(Rd!Stream, t + 1, r))
  PROVE  /\ r < HeadAt(k) => Waiting(p.d, Come(k, r)) /\ p.code = 610
         /\ r >= HeadAt(k) =>
              \E y : /\ Len(y) = r - HeadAt(k) /\ Len(y) \in Nat
                     /\ r =< Rd!Lengths[k] => OfBody(k, y)
                     /\ IsParsed(p, Rd!Understood(asked[k]), y)
<1>1. PICK b, x : b = Come(k, t) /\ x = SubSeq(Rd!Stream, t + 1, r)
  OBVIOUS
<1>2. PICK e : e = Rd!EndIn(b, x)
  OBVIOUS
<1>3. PICK y : y = Rd!From(x, Rd!BodyStart(b, e))
  OBVIOUS
<1>4. PICK a : a = b \o x
  OBVIOUS
<1>5. /\ a = Come(k, r)
      /\ r < HeadAt(k) => e = 0
      /\ r >= HeadAt(k) =>
           /\ e # 0 /\ SubSeq(a, 1, e - 1) = SubSeq(asked[k].head, 1, Len(asked[k].head) - Len(Rd!HeadEnd))
           /\ Len(y) = r - HeadAt(k)
           /\ r =< Rd!Lengths[k] => y = SubSeq(asked[k].body, 1, Len(y))
  <2>1. HasCome(k, r, b, x, e, y)
    BY <1>1, <1>2, <1>3, Arrived
  <2> QED BY <1>4, <2>1 DEF HasCome
<1>6. w.buffer = b /\ w.request = Rd!Request /\ w.headed = FALSE
  BY <1>1 DEF Waiting
<1>7. p = Rd!parse(w, x)
  BY <1>1
<1>8. ASSUME r < HeadAt(k) PROVE Waiting(p.d, Come(k, r)) /\ p.code = 610
  <2>1. p = [d |-> [w EXCEPT !.buffer = a], code |-> 610, body |-> << >>]
    BY <1>2, <1>4, <1>5, <1>6, <1>7, <1>8 DEF Rd!parse
  <2>2. PICK u : u = [w EXCEPT !.buffer = a]
    OBVIOUS
  <2>3. Waiting(u, a)
    BY <2>2, WaitingMore
  <2> QED BY <1>5, <2>1, <2>2, <2>3
<1>9. ASSUME r >= HeadAt(k) PROVE Len(y) \in Nat /\ IsParsed(p, Rd!Understood(asked[k]), y)
  <2>0. Len(y) \in Nat
    <3>1. k - 1 \in 0 .. Len(asked)
      BY DEF Texts
    <3>2. Rd!Lengths[k - 1] \in Nat /\ Len(asked[k].head) \in Nat
      BY <3>1, EndsGrow, TextOf
    <3>3. HeadAt(k) \in Nat
      BY <3>2 DEF HeadAt
    <3> QED BY <1>5, <1>9, <3>3
  <2>1. PICK h : h = SubSeq(a, 1, e - 1)
    OBVIOUS
  <2>2. PICK sense : sense = Rd!parse_complete_header(Rd!Request, h)
    OBVIOUS
  <2>3. sense = Rd!Understood(asked[k])
    BY <1>5, <1>9, <2>1, <2>2 DEF Rd!Understood
  <2>4. PICK u : u = [w EXCEPT !.buffer = h]
    OBVIOUS
  <2>5. Waiting(u, h)
    BY <2>4, WaitingMore
  <2>6. p = Rd!WithHeader(u, sense, y)
    BY <1>2, <1>3, <1>4, <1>5, <1>6, <1>7, <1>9, <2>1, <2>2, <2>4 DEF Rd!parse
  <2>7. ASSUME sense.code # 200 PROVE p.code = sense.code /\ Refused(p.d, sense.request)
    <3>1. PICK v : v = [u EXCEPT !.request = sense.request]
      OBVIOUS
    <3>2. p = [d |-> v, code |-> sense.code, body |-> << >>]
      BY <2>6, <2>7, <3>1 DEF Rd!WithHeader
    <3>3. Refused(v, sense.request)
      BY <2>5, <3>1, RefusedIs
    <3> QED BY <3>2, <3>3
  <2>8. ASSUME sense.code = 200 PROVE p.code = 200 /\ p.body = y /\ Became(p.d, sense.request, y)
    <3>1. PICK req : req = sense.request
      OBVIOUS
    <3>4. PICK v : v = [u EXCEPT !.headed = TRUE, !.request = req]
      OBVIOUS
    <3>5. HasHeader(v, u, req)
      BY <3>4 DEF HasHeader
    <3>2. p = Rd!Fed(Rd!WithBody(v), y)
      BY <2>6, <2>8, <3>1, <3>4 DEF Rd!WithHeader
    <3>3. p.code = 200 /\ p.body = y /\ Became(p.d, req, y)
      <4>1. Fits(req)
        BY <2>3, <3>1
      <4> QED BY <2>0, <2>5, <3>5, <3>2, <4>1, TakenIs
    <3> QED BY <3>1, <3>3
  <2> QED BY <2>0, <2>3, <2>7, <2>8 DEF IsParsed
<1> QED BY <1>5, <1>8, <1>9 DEF OfBody

-----------------------------------------------------------------------------
(* Reading: the connection and its answers.                                    *)

\* What is known of a client: what it sends, and that its answers are a sequence.
IsClient == asked \in Dialogues /\ \E S : answers \in Seq(S)

\* The client and its text stay the same.
SameClient == asked' = asked /\ patient' = patient

\* As long as the client asks the same, its text is the same.
LEMMA SameText ==
  ASSUME asked' = asked
  PROVE  Rd!Lengths' = Rd!Lengths /\ Rd!Stream' = Rd!Stream
<1>1. Rd!Stream' = Rd!Stream
  BY DEF Rd!Stream
<1>2. Rd!Lengths' = Rd!Lengths
  BY DEF Rd!Lengths
<1> QED BY <1>1, <1>2

\* One more answer, which is as it was meant when that is asked for.
LEMMA OneMore ==
  ASSUME IsClient, Rd!HeadIsUnderstood, SameClient, NEW a, answers' = Append(answers, a),
         (patient /\ Rd!Owed(Len(answers) + 1)) \/ Len(answers) = 0 => Rd!AsMeant(a, Rd!RequestOf(Len(answers) + 1))
  PROVE  IsClient' /\ Rd!HeadIsUnderstood' /\ Len(answers') = Len(answers) + 1 /\ Len(answers) \in Nat
<1>1. PICK S : answers \in Seq(S)
  BY DEF IsClient
<1>2. PICK l, m : l = answers /\ m = answers'
  OBVIOUS
<1>3. l \in Seq(S) /\ m = Append(l, a) /\ Len(l) \in Nat
  BY <1>1, <1>2
<1>4. Len(m) = Len(l) + 1 /\ m[Len(l) + 1] = a /\ (\A n \in 1 .. Len(l) : m[n] = l[n]) /\ DOMAIN m = 1 .. Len(l) + 1 /\ DOMAIN l = 1 .. Len(l)
  BY <1>3
<1>5. m \in Seq(S \cup {a})
  BY <1>3
<1>6. IsClient'
  BY <1>2, <1>5 DEF IsClient, SameClient
<1>7. ASSUME NEW n \in DOMAIN m, (patient /\ Rd!Owed(n)) \/ n = 1 PROVE Rd!AsMeant(m[n], Rd!RequestOf(n))
  <2>1. CASE n = Len(l) + 1
    <3>1. (patient /\ Rd!Owed(Len(l) + 1)) \/ Len(l) = 0
      BY <1>3, <1>7, <2>1
    <3> QED BY <1>2, <1>4, <2>1, <3>1
  <2>2. CASE n # Len(l) + 1
    <3>1. n \in 1 .. Len(l)
      BY <1>3, <1>4, <2>2
    <3>2. Rd!AsMeant(l[n], Rd!RequestOf(n))
      BY <1>2, <1>4, <1>7, <3>1 DEF Rd!HeadIsUnderstood
    <3> QED BY <1>4, <3>1, <3>2
  <2> QED BY <2>1, <2>2
<1>8. \A n : Rd!RequestOf(n)' = Rd!RequestOf(n) /\ (Rd!Owed(n)' <=> Rd!Owed(n))
  BY DEF Rd!RequestOf, Rd!Owed, SameClient
<1>9. Rd!HeadIsUnderstood'
  BY <1>2, <1>7, <1>8 DEF Rd!HeadIsUnderstood, SameClient
<1> QED BY <1>2, <1>3, <1>4, <1>6, <1>9

\* No answer.
LEMMA NoMore ==
  ASSUME IsClient, Rd!HeadIsUnderstood, SameClient, answers' = answers
  PROVE  IsClient' /\ Rd!HeadIsUnderstood'
BY DEF IsClient, Rd!HeadIsUnderstood, SameClient, Rd!RequestOf, Rd!Owed

\* A connection that waits for the rest of a header.
LEMMA WaitingStays ==
  ASSUME NEW d, NEW b, NEW code, NEW y, Waiting(d, b), code \in {200, 610}, Rd!Handle(d, code, y)
  PROVE  status' = code /\ c' = d /\ phase' = "open" /\ answers' = answers
<1>1. d.request.cgi = FALSE
  <2>1. d.request = Rd!Request
    BY DEF Waiting
  <2>2. Rd!Request.cgi = FALSE
    BY Zenon DEF Rd!Request
  <2> QED BY <2>1, <2>2
<1>2. d.headed = FALSE /\ d.form = FALSE
  BY DEF Waiting
<1>3. CASE code = 610
  BY <1>3 DEF Rd!Handle, Rd!Stays
<1>4. CASE code = 200
  <2>1. status' = code /\ (Rd!RunScript(d, code) \/ Rd!Reply(d, code) \/ Rd!HandOver(d, y))
    BY <1>4 DEF Rd!Handle
  <2>2. Rd!Reply(d, code)
    BY <1>1, <1>2, <2>1 DEF Rd!RunScript, Rd!HandOver
  <2> QED BY <1>2, <1>4, <2>1, <2>2 DEF Rd!Reply, Rd!Stays
<1> QED BY <1>3, <1>4

\* A header in which the parser loops.
LEMMA LoopingStops ==
  ASSUME NEW d, NEW code, NEW y, code = 0, Rd!Handle(d, code, y)
  PROVE  phase' = "loops" /\ answers' = answers
BY DEF Rd!Handle

\* A request that is refused.
LEMMA RefusedCloses ==
  ASSUME NEW d, NEW req, NEW code, NEW y, Refused(d, req), code \notin {0, 200, 610}, Rd!Handle(d, code, y)
  PROVE  /\ phase' = "closed"
         /\ \/ answers' = answers
            \/ answers' = Append(answers, [code |-> code, request |-> req])
            \/ req.cgi /\ answers' = Append(answers, [code |-> Rd!Started, request |-> req])
<1>1. d.request = req /\ d.raw = FALSE /\ d.form = FALSE
  BY DEF Refused
<1>2. Rd!RunScript(d, code) \/ Rd!Reply(d, code) \/ Rd!HandOver(d, y)
  BY DEF Rd!Handle
<1>3. CASE Rd!RunScript(d, code)
  BY <1>1, <1>3 DEF Rd!RunScript, Rd!Closed, Rd!Answered
<1>4. CASE Rd!Reply(d, code)
  BY <1>1, <1>4 DEF Rd!Reply, Rd!Closed, Rd!Answered
<1>5. CASE Rd!HandOver(d, y)
  BY <1>1, <1>5 DEF Rd!HandOver
<1> QED BY <1>2, <1>3, <1>4, <1>5

\* A script is started when its body is there, and not before.
ScriptIsCalled(d, req, n) ==
  /\ status' = 200 /\ phase' = "open"
  /\ n >= req.length => answers' = Append(answers, [code |-> Rd!Started, request |-> req]) /\ c' = Rd!Fresh
  /\ ~(n >= req.length) => answers' = answers /\ c' = d

\* The request of a script.
LEMMA ScriptStarts ==
  ASSUME NEW d, NEW req, NEW raw, NEW n, NEW y, Headed(d, req, raw, FALSE, n), req.cgi, Rd!Handle(d, 200, y)
  PROVE  ScriptIsCalled(d, req, n)
<1>1. d.request = req /\ d.form = FALSE /\ d.moved = n
  BY DEF Headed
<1>2. status' = 200 /\ (Rd!RunScript(d, 200) \/ Rd!Reply(d, 200) \/ Rd!HandOver(d, y))
  BY DEF Rd!Handle
<1>3. Rd!RunScript(d, 200)
  BY <1>1, <1>2 DEF Rd!Reply, Rd!HandOver
<1>4. Rd!is_request_ready(d) <=> n >= req.length
  BY <1>1 DEF Rd!is_request_ready
<1> QED BY <1>1, <1>2, <1>3, <1>4 DEF Rd!RunScript, Rd!NextRequest, Rd!Stays, Rd!Answered, ScriptIsCalled

\* A request with no body that is read has its answer, and the next one is waited for, if
\* it announces no body.
PlainIsHandled(d, req) ==
  /\ status' = 200 /\ answers' = Append(answers, [code |-> 200, request |-> req])
  /\ \/ phase' = "closed"
     \/ phase' = "open" /\ 0 >= req.length /\ c' = Rd!Fresh
     \/ phase' = "open" /\ ~(0 >= req.length) /\ c' = d

\* A request with no body that is read.
LEMMA PlainIsAnswered ==
  ASSUME NEW d, NEW req, NEW y, Headed(d, req, FALSE, FALSE, 0), ~req.cgi, Rd!Handle(d, 200, y)
  PROVE  PlainIsHandled(d, req)
<1>1. d.request = req /\ d.headed = TRUE /\ d.raw = FALSE /\ d.form = FALSE /\ d.moved = 0
  BY DEF Headed
<1>2. status' = 200 /\ (Rd!RunScript(d, 200) \/ Rd!Reply(d, 200) \/ Rd!HandOver(d, y))
  BY DEF Rd!Handle
<1>3. Rd!Reply(d, 200)
  BY <1>1, <1>2 DEF Rd!RunScript, Rd!HandOver
<1>4. Rd!is_request_ready(d) <=> 0 >= req.length
  BY <1>1 DEF Rd!is_request_ready
<1> QED BY <1>1, <1>2, <1>3, <1>4 DEF Rd!Reply, Rd!NextRequest, Rd!Stays, Rd!Closed, Rd!Answered, PlainIsHandled

\* What is handed over of a form.
OfForm(req, y) == [code |-> 100, request |-> req, body |-> y]

\* A form is handed over with what there is of its body.
LEMMA FormIsHandedOver ==
  ASSUME NEW d, NEW req, NEW y, Headed(d, req, FALSE, TRUE, 0), ~req.cgi, Rd!Handle(d, 200, y)
  PROVE  phase' = "upload" /\ answers' = Append(answers, OfForm(req, y))
<1>1. d.request = req /\ d.form = TRUE
  BY DEF Headed
<1>2. Rd!RunScript(d, 200) \/ Rd!Reply(d, 200) \/ Rd!HandOver(d, y)
  BY DEF Rd!Handle
<1>3. Rd!HandOver(d, y)
  BY <1>1, <1>2 DEF Rd!RunScript, Rd!Reply
<1> QED BY <1>1, <1>3 DEF Rd!HandOver, OfForm

\* A body that nobody asked for is refused, if the method is looked at.
BodyIsSeen(req) ==
  /\ \E code \in {200, 400} : answers' = Append(answers, [code |-> code, request |-> req])
  /\ phase' = "closed" \/ Rd!AnyMethod(req)

\* A body that nobody asked for.
LEMMA BodyIsAnswered ==
  ASSUME NEW d, NEW req, NEW n, NEW y, Headed(d, req, TRUE, FALSE, n), ~req.cgi, Rd!Handle(d, 200, y)
  PROVE  BodyIsSeen(req)
<1>1. d.request = req /\ d.headed = TRUE /\ d.raw = TRUE /\ d.form = FALSE
  BY DEF Headed
<1>2. Rd!RunScript(d, 200) \/ Rd!Reply(d, 200) \/ Rd!HandOver(d, y)
  BY DEF Rd!Handle
<1>3. Rd!Reply(d, 200)
  BY <1>1, <1>2 DEF Rd!RunScript, Rd!HandOver
<1> QED BY <1>1, <1>3 DEF Rd!Reply, Rd!Closed, Rd!Answered, BodyIsSeen

\* Whatever the connection is, there is at most one more answer.
LEMMA OneAtATime ==
  ASSUME NEW d, NEW code, NEW y, Rd!Handle(d, code, y)
  PROVE  answers' = answers \/ \E a : answers' = Append(answers, a)
<1>1. CASE code \in {0, 610}
  BY <1>1 DEF Rd!Handle
<1>2. CASE code \notin {0, 610}
  <2>1. Rd!RunScript(d, code) \/ Rd!Reply(d, code) \/ Rd!HandOver(d, y)
    BY <1>2 DEF Rd!Handle
  <2> QED BY <2>1 DEF Rd!RunScript, Rd!Reply, Rd!HandOver, Rd!Answered
<1> QED BY <1>1, <1>2

\* The request an answer is to.
LEMMA RequestIs ==
  ASSUME Len(asked) \in Nat, NEW n \in Nat
  PROVE  /\ n =< Len(asked) => Rd!RequestOf(n) = asked[n]
         /\ n >= Len(asked) => Rd!RequestOf(n) = asked[Len(asked)]
<1>1. PICK l \in Nat : l = Len(asked)
  OBVIOUS
<1>2. PICK T : T = {n, l}
  OBVIOUS
<1>3. T \in SUBSET Nat /\ T # {}
  BY <1>2
<1>4. PICK m : m = Rd!Min(T)
  OBVIOUS
<1>5. m \in T /\ \A x \in T : m =< x
  <2>1. \E x \in T : \A z \in T : x =< z
    BY <1>3, LeastOf
  <2> QED BY <1>4, <2>1, Zenon DEF Rd!Min
<1>6. (n =< l => m = n) /\ (n >= l => m = l)
  BY <1>2, <1>5
<1>7. Rd!RequestOf(n) = asked[m]
  BY <1>1, <1>2, <1>4 DEF Rd!RequestOf
<1> QED BY <1>1, <1>6, <1>7

\* What the dialogues are assumed to be, of the one that is asked.
LEMMA ClientSpeaks ==
  ASSUME Rd!ConstantsAssumption, IsClient
  PROVE  /\ Texts
         /\ \A k \in 1 .. Len(asked) :
              /\ Rd!MeaningOK(asked[k], Rd!Understood(asked[k]))
              /\ k < Len(asked) /\ Rd!Understood(asked[k]).code = 200 => Rd!MayBeFollowed(Rd!Understood(asked[k]).request)
BY DEF Rd!ConstantsAssumption, IsClient, Rd!DialogueOK, Texts

\* An answer to a request that was understood.
LEMMA TakenAsMeant ==
  ASSUME NEW q, NEW a, NEW sense, Rd!MeaningOK(q, sense), sense.code = 200, a.request = sense.request,
         a.code = 100 => a.body = SubSeq(q.body, 1, Len(a.body))
  PROVE  Rd!AsMeant(a, q)
BY DEF Rd!MeaningOK, Rd!AsMeant

\* An answer to one that was refused.
LEMMA RefusedAsMeant ==
  ASSUME NEW q, NEW a, NEW sense, Rd!MeaningOK(q, sense), sense.code \notin {0, 200},
         a.code = sense.code \/ (a.code = Rd!Started /\ a.request.cgi)
  PROVE  Rd!AsMeant(a, q)
<1>1. sense.code = q.meant.code /\ sense.code # 100
  BY DEF Rd!MeaningOK
<1>2. a.code # 100
  BY <1>1 DEF Rd!Started
<1> QED BY <1>1, <1>2 DEF Rd!AsMeant

-----------------------------------------------------------------------------
(* Reading: where the client is in what it sends.                              *)

\* A header is on its way.
Waits ==
  /\ Len(answers) < Len(asked)
  /\ Rd!Lengths[Len(answers)] =< taken /\ taken < HeadAt(Len(answers) + 1)
  /\ Waiting(c, Come(Len(answers) + 1, taken)) /\ status \in {200, 610}

\* All has been answered.
Over ==
  /\ Len(answers) >= Len(asked)
  /\ taken = Rd!Lengths[Len(asked)]
  /\ Waiting(c, << >>) /\ status \in {200, 610}

\* The script waits for the rest of the body.
Late == c.request.cgi /\ ~Rd!is_request_ready(c) /\ Headed(c, c.request, TRUE, FALSE, c.moved) /\ status = 200

\* The last request is answered again: it announces a body that nobody reads.
Again ==
  /\ Len(answers) >= Len(asked)
  /\ Headed(c, Rd!Understood(asked[Len(asked)]).request, FALSE, FALSE, 0) /\ ~c.request.cgi
  /\ ~(0 >= c.request.length) /\ Rd!Understood(asked[Len(asked)]).code = 200 /\ status = 200

\* The last request is answered, or what there is of its body is, where any method will do.
Loose == Len(answers) >= Len(asked) /\ Rd!Tolerated(asked[Len(asked)])

At == Waits \/ Over \/ Late \/ Again \/ Loose

\* As long as the connection is open, of the client that waits for its answers, and of each
\* one up to the first answer.
IsSomewhere == phase = "open" /\ (patient \/ Len(answers) = 0) => At

ReadingInv == IsClient /\ taken \in Nat /\ Rd!HeadIsUnderstood /\ IsSomewhere

\* It has read all up to the end of a request, and nothing of the next one.
LEMMA NextWaits ==
  ASSUME Texts, asked' = asked, Len(answers') \in Nat, Len(answers') > 0, c' = Rd!Fresh, status' = 200,
         taken' = Rd!Lengths[IF Len(answers') =< Len(asked) THEN Len(answers') ELSE Len(asked)]
  PROVE  At'
<1>1. PICK n : n = Len(answers')
  OBVIOUS
<1>2. Waiting(c', << >>)
  BY FreshWaits
<1>3. Rd!Lengths' = Rd!Lengths /\ Rd!Stream' = Rd!Stream
  BY SameText
<1>4. Len(asked) \in Nat
  BY DEF Texts
<1>5. CASE n < Len(asked)
  <2>1. PICK k \in 1 .. Len(asked) : k = n + 1
    BY <1>1, <1>4, <1>5
  <2>2. k - 1 = n /\ taken' = Rd!Lengths[n]
    BY <1>1, <1>4, <1>5, <2>1
  <2>3. Rd!Lengths[n] \in Nat /\ Len(asked[k].head) \in Nat /\ Len(asked[k].head) >= 4
    <3>1. n \in 0 .. Len(asked)
      BY <1>1, <1>4, <1>5
    <3>2. Rd!Lengths[n] \in Nat
      BY <3>1, EndsGrow
    <3> QED BY <3>2, TextOf
  <2>4. taken' < HeadAt(k)
    BY <2>2, <2>3 DEF HeadAt
  <2>5. Come(k, taken') = << >>
    <3>1. PICK s, o : s = Rd!Stream /\ o = Rd!Lengths[n] /\ o \in Nat
      BY <2>3
    <3>2. Come(k, taken') = SubSeq(s, o + 1, o)
      BY <2>2, <3>1 DEF Come
    <3>3. PICK A : A = Alphabet
      OBVIOUS
    <3>4. s \in Seq(A)
      BY <3>1, <3>3, StreamHas DEF Has
    <3> QED BY <3>1, <3>2, <3>4
  <2>6. HeadAt(k)' = HeadAt(k) /\ Come(k, taken)' = Come(k, taken')
    BY <1>3 DEF HeadAt, Come
  <2>7. Waits'
    BY <1>1, <1>2, <1>3, <1>5, <2>1, <2>2, <2>3, <2>4, <2>5, <2>6 DEF Waits
  <2> QED BY <2>7 DEF At
<1>6. CASE ~(n < Len(asked))
  <2>1. taken' = Rd!Lengths[Len(asked)]
    BY <1>1, <1>4, <1>6
  <2>2. Over'
    BY <1>1, <1>2, <1>3, <1>4, <1>6, <2>1 DEF Over
  <2> QED BY <2>2 DEF At
<1> QED BY <1>5, <1>6

\* What is read is a part of the header that is on its way, or what is behind it.
LEMMA ReadsInWaits ==
  ASSUME Texts, At, ~Loose, NEW n \in Int, Rd!Read(n)
  PROVE  Waits
<1>1. ~c.request.cgi /\ ~Rd!Finished(c) /\ n > 0 /\ taken + n =< Rd!MaySend
  BY DEF Rd!Read
<1>2. ~Late
  BY <1>1 DEF Late
<1>3. ~Again
  BY <1>1 DEF Again, Headed, Rd!Finished
<1>4. ASSUME Over PROVE FALSE
  <2>1. taken = Rd!Lengths[Len(asked)] /\ ~(Len(answers) < Len(asked))
    <3>1. Len(answers) >= Len(asked) /\ taken = Rd!Lengths[Len(asked)]
      BY <1>4 DEF Over
    <3>2. CASE ~(Len(answers) < Len(asked))
      BY <3>1, <3>2
    <3>3. CASE Len(answers) < Len(asked)
      BY <3>1, <3>3 DEF Texts
    <3> QED BY <3>2, <3>3
  <2>2. Rd!MaySend = taken
    BY <2>1 DEF Rd!MaySend
  <2>3. taken \in Nat
    <3>1. Len(asked) \in 0 .. Len(asked)
      BY DEF Texts
    <3> QED BY <2>1, <3>1, EndsGrow
  <2> QED BY <1>1, <2>2, <2>3
<1> QED BY <1>2, <1>3, <1>4 DEF At

\* How far a read may go.
LEMMA MayRead ==
  ASSUME Texts, taken \in Nat, Len(answers) \in Nat, Len(answers) < Len(asked), NEW n \in Int, Rd!Read(n),
         patient \/ Len(answers) = 0, NEW k \in 1 .. Len(asked), k = Len(answers) + 1
  PROVE  /\ taken + n \in Nat /\ taken < taken + n /\ taken + n =< Rd!Lengths[Len(asked)]
         /\ patient \/ k = Len(asked) => taken + n =< Rd!Lengths[k]
<1>1. n > 0 /\ taken + n =< Rd!MaySend
  BY DEF Rd!Read
<1>2. k \in 0 .. Len(asked) /\ Len(asked) \in 0 .. Len(asked)
  BY DEF Texts
<1>3. PICK o, l : o = Rd!Lengths[k] /\ l = Rd!Lengths[Len(asked)]
  OBVIOUS
<1>4. o \in Nat /\ l \in Nat /\ o =< l
  BY <1>2, <1>3, EndsGrow DEF Texts
<1>5. Rd!MaySend = IF patient THEN o ELSE l
  BY <1>3 DEF Rd!MaySend
<1> QED BY <1>1, <1>3, <1>4, <1>5

\* The part of a body that has come, when all of the body may have.
LEMMA BodyHasCome ==
  ASSUME Texts, NEW k \in 1 .. Len(asked), NEW sense, Rd!MeaningOK(asked[k], sense), sense.code = 200,
         NEW r \in Nat, r >= HeadAt(k), r =< Rd!Lengths[k], NEW y, Len(y) = r - HeadAt(k)
  PROVE  Counted(sense.request, y) = Len(y) /\ (Len(y) >= sense.request.length => r = Rd!Lengths[k])
<1>1. PICK m : m = sense.request.length
  OBVIOUS
<1>2. m \in Nat /\ Len(asked[k].body) =< m
  BY <1>1 DEF Rd!MeaningOK
<1> DEFINE h == Len(asked[k].head)
           b == Len(asked[k].body)
           o == Rd!Lengths[k - 1]
<1>3. h = Len(asked[k].head) /\ b = Len(asked[k].body) /\ o = Rd!Lengths[k - 1] /\ b =< m
  BY <1>2
<1> HIDE DEF h, b, o
<1>4. h \in Nat /\ b \in Nat /\ Len(Rd!Text(asked[k])) = h + b
  BY <1>3, TextOf
<1>5. o \in Nat /\ Rd!Lengths[k] = o + (h + b)
  <2>1. k - 1 \in 0 .. Len(asked)
    BY DEF Texts
  <2>2. Rd!Lengths[k - 1] \in Nat
    BY <2>1, EndsGrow
  <2>3. Rd!Lengths[k] = Rd!Lengths[k - 1] + Len(Rd!Text(asked[k]))
    BY EndsGrow
  <2> QED BY <1>3, <1>4, <2>2, <2>3
<1>6. HeadAt(k) = o + h
  BY <1>3 DEF HeadAt
<1>7. PICK z : z = Len(y)
  OBVIOUS
<1>8. z = r - (o + h) /\ r >= o + h /\ r =< o + (h + b)
  BY <1>5, <1>6, <1>7
<1>9. z \in Nat /\ z =< b /\ z =< m
  <2>1. h \in Nat /\ b \in Nat /\ o \in Nat /\ m \in Nat /\ b =< m
    BY <1>2, <1>3, <1>4, <1>5
  <2> QED BY <1>8, <2>1
<1>10. Counted(sense.request, y) = z
  BY <1>1, <1>2, <1>7, <1>9 DEF Counted
<1>11. z >= m => r = o + (h + b)
  <2>1. h \in Nat /\ b \in Nat /\ o \in Nat /\ m \in Nat /\ b =< m
    BY <1>2, <1>3, <1>4, <1>5
  <2> QED BY <1>8, <1>9, <2>1
<1> QED BY <1>1, <1>5, <1>7, <1>10, <1>11

\* A read of the client that is heard: it goes up to r, within the k-th request or behind
\* its header, and p is what parse() made of it.
Reads(k, r, p) ==
  /\ k = Len(answers) + 1 /\ Len(answers) \in Nat /\ (patient \/ Len(answers) = 0)
  /\ taken \in Nat /\ taken < r /\ r =< Rd!Lengths[Len(asked)]
  /\ patient \/ k = Len(asked) => r =< Rd!Lengths[k]
  /\ Rd!Handle(p.d, p.code, p.body) /\ taken' = r /\ SameClient

\* There is more of the header.
LEMMA HeaderComes ==
  ASSUME ReadingInv, Texts, NEW k \in 1 .. Len(asked), NEW r \in Nat, NEW p, Reads(k, r, p),
         Rd!Lengths[k - 1] =< taken, r < HeadAt(k), Waiting(p.d, Come(k, r)), p.code = 610
  PROVE  ReadingInv'
<1>1. status' = 610 /\ c' = p.d /\ phase' = "open" /\ answers' = answers
  <2>1. PICK b, d, y : b = Come(k, r) /\ d = p.d /\ y = p.body
    OBVIOUS
  <2>2. Rd!Handle(d, 610, y) /\ Waiting(d, b) /\ 610 \in {200, 610}
    BY <2>1 DEF Reads
  <2> QED BY <2>1, <2>2, WaitingStays
<1>2. SameClient /\ taken' = r /\ k = Len(answers) + 1 /\ Len(answers) \in Nat /\ Len(asked) \in Nat
  BY DEF Reads, Texts
<1>3. IsClient' /\ Rd!HeadIsUnderstood'
  BY <1>1, <1>2, NoMore DEF ReadingInv
<1>4. Rd!Lengths' = Rd!Lengths /\ Rd!Stream' = Rd!Stream
  BY <1>2, SameText DEF SameClient
<1>5. Rd!Lengths[k - 1] =< r
  <2>1. k - 1 \in 0 .. Len(asked)
    BY <1>2
  <2>2. PICK o \in Nat : o = Rd!Lengths[k - 1]
    BY <2>1, EndsGrow
  <2>3. o =< taken /\ taken \in Nat /\ taken < r
    BY <2>2 DEF Reads
  <2> QED BY <2>2, <2>3
<1>6. HeadAt(k)' = HeadAt(k) /\ Come(k, taken)' = Come(k, r)
  BY <1>2, <1>4 DEF HeadAt, Come, SameClient
<1>7. Waits'
  <2>1. Len(answers') = Len(answers) /\ Len(asked') = Len(asked) /\ Len(answers) < Len(asked) /\ k - 1 = Len(answers)
    BY <1>1, <1>2 DEF SameClient
  <2>2. Rd!Lengths'[Len(answers')] =< taken' /\ taken' < HeadAt(k)'
    BY <1>2, <1>4, <1>5, <1>6, <2>1
  <2>3. Waiting(c', Come(k, taken)') /\ status' \in {200, 610}
    BY <1>1, <1>2, <1>6
  <2> QED BY <1>2, <2>1, <2>2, <2>3 DEF Waits
<1> QED BY <1>2, <1>3, <1>7 DEF ReadingInv, IsSomewhere, At

\* The header is refused, or the parser loops in it.
LEMMA HeaderRefused ==
  ASSUME ReadingInv, Texts, NEW k \in 1 .. Len(asked), NEW r \in Nat, NEW p, Reads(k, r, p),
         NEW sense, Rd!MeaningOK(asked[k], sense), sense.code # 200, p.code = sense.code, Refused(p.d, sense.request)
  PROVE  ReadingInv'
<1>1. PICK d, y, code, req : d = p.d /\ y = p.body /\ code = p.code /\ req = sense.request
  OBVIOUS
<1>2. Rd!Handle(d, code, y) /\ Refused(d, req) /\ code = sense.code /\ code # 200 /\ code # 610
  BY <1>1 DEF Reads, Rd!MeaningOK
<1>3. SameClient /\ taken' \in Nat /\ k = Len(answers) + 1 /\ IsClient /\ Rd!HeadIsUnderstood
  BY DEF Reads, ReadingInv
<1>4. ASSUME answers' = answers, phase' # "open" PROVE ReadingInv'
  BY <1>3, <1>4, NoMore DEF ReadingInv, IsSomewhere
<1>5. ASSUME NEW a, answers' = Append(answers, a), phase' # "open", a.code = sense.code \/ (a.code = Rd!Started /\ a.request.cgi), sense.code # 0
      PROVE  ReadingInv'
  <2>1. Rd!AsMeant(a, asked[k])
    BY <1>2, <1>5, RefusedAsMeant
  <2>2. Rd!RequestOf(Len(answers) + 1) = asked[k]
    <3>1. Len(asked) \in Nat /\ k \in Nat /\ k =< Len(asked)
      BY DEF Texts
    <3> QED BY <1>3, <3>1, RequestIs
  <2> QED BY <1>3, <1>5, <2>1, <2>2, OneMore DEF ReadingInv, IsSomewhere
<1>6. CASE code = 0
  BY <1>2, <1>4, <1>6, LoopingStops
<1>7. CASE code # 0
  <2>1. /\ phase' = "closed"
        /\ \/ answers' = answers
           \/ answers' = Append(answers, [code |-> code, request |-> req])
           \/ req.cgi /\ answers' = Append(answers, [code |-> Rd!Started, request |-> req])
    BY <1>2, <1>7, RefusedCloses
  <2>2. CASE answers' = answers
    BY <1>4, <2>1, <2>2
  <2>3. CASE answers' = Append(answers, [code |-> code, request |-> req])
    <3>1. PICK a : a = [code |-> code, request |-> req]
      OBVIOUS
    <3>2. answers' = Append(answers, a) /\ a.code = sense.code /\ sense.code # 0
      BY <1>2, <1>7, <2>3, <3>1
    <3> QED BY <1>5, <2>1, <3>2
  <2>4. CASE req.cgi /\ answers' = Append(answers, [code |-> Rd!Started, request |-> req])
    <3>1. PICK a : a = [code |-> Rd!Started, request |-> req]
      OBVIOUS
    <3>2. answers' = Append(answers, a) /\ a.code = Rd!Started /\ a.request.cgi /\ sense.code # 0
      BY <1>2, <1>7, <2>4, <3>1
    <3> QED BY <1>5, <2>1, <3>2
  <2> QED BY <2>1, <2>2, <2>3, <2>4
<1> QED BY <1>6, <1>7

\* A request that was understood is answered as it was meant.
LEMMA TakenIsAnswered ==
  ASSUME ReadingInv, Texts, NEW k \in 1 .. Len(asked), NEW r \in Nat, NEW p, Reads(k, r, p),
         NEW sense, Rd!MeaningOK(asked[k], sense), sense.code = 200,
         NEW a, answers' = Append(answers, a), a.request = sense.request,
         a.code = 100 => a.body = SubSeq(asked[k].body, 1, Len(a.body))
  PROVE  /\ IsClient' /\ Rd!HeadIsUnderstood' /\ taken' \in Nat /\ Len(answers') = k
         /\ phase' # "open" \/ ~patient \/ At' => ReadingInv'
<1>1. SameClient /\ taken' \in Nat /\ k = Len(answers) + 1 /\ IsClient /\ Rd!HeadIsUnderstood
  BY DEF Reads, ReadingInv
<1>2. Rd!RequestOf(Len(answers) + 1) = asked[k]
  <2>1. Len(asked) \in Nat /\ k \in Nat /\ k =< Len(asked)
    BY DEF Texts
  <2> QED BY <1>1, <2>1, RequestIs
<1>3. Rd!AsMeant(a, asked[k])
  BY TakenAsMeant
<1>4. IsClient' /\ Rd!HeadIsUnderstood' /\ Len(answers') = k
  BY <1>1, <1>2, <1>3, OneMore
<1>5. ASSUME phase' # "open" \/ ~patient \/ At' PROVE IsSomewhere'
  BY <1>1, <1>4, <1>5 DEF IsSomewhere, SameClient
<1> QED BY <1>1, <1>4, <1>5 DEF ReadingInv

\* A script is started when its whole body is there.
LEMMA ScriptTaken ==
  ASSUME ReadingInv, Texts, NEW k \in 1 .. Len(asked), NEW r \in Nat, NEW p, Reads(k, r, p),
         NEW sense, Rd!MeaningOK(asked[k], sense), sense.code = 200, p.code = 200, r >= HeadAt(k),
         NEW y, Len(y) \in Nat, Len(y) = r - HeadAt(k), sense.request.cgi,
         Headed(p.d, sense.request, TRUE, FALSE, Counted(sense.request, y))
  PROVE  ReadingInv'
<1>1. PICK d, z, req : d = p.d /\ z = p.body /\ req = sense.request
  OBVIOUS
<1>2. PICK n : n = Counted(req, y)
  OBVIOUS
<1>3. req.length \in Nat
  BY <1>1 DEF Rd!MeaningOK
<1>4. n \in Nat /\ 0 + n = n /\ (n = Len(y) \/ n = req.length)
  BY <1>2, <1>3 DEF Counted
<1>5. Headed(d, req, TRUE, FALSE, n) /\ req.cgi /\ Rd!Handle(d, 200, z)
  BY <1>1, <1>2, <1>4 DEF Reads
<1>6. /\ status' = 200 /\ phase' = "open"
      /\ n >= req.length => answers' = Append(answers, [code |-> Rd!Started, request |-> req]) /\ c' = Rd!Fresh
      /\ ~(n >= req.length) => answers' = answers /\ c' = d
  <2>1. ScriptIsCalled(d, req, n)
    BY <1>5, ScriptStarts
  <2> QED BY <2>1 DEF ScriptIsCalled
<1>7. SameClient /\ taken' = r /\ k = Len(answers) + 1 /\ IsClient /\ Rd!HeadIsUnderstood /\ Len(asked) \in Nat
  BY DEF Reads, ReadingInv, Texts
<1>8. CASE ~(n >= req.length)
  <2>1. c' = d /\ answers' = answers
    BY <1>6, <1>8
  <2>2. Late'
    <3>1. d.request = req /\ d.moved = n
      BY <1>5 DEF Headed
    <3>2. ~Rd!is_request_ready(d) /\ d.request.cgi /\ Headed(d, d.request, TRUE, FALSE, d.moved)
      BY <1>5, <1>8, <3>1 DEF Rd!is_request_ready
    <3> QED BY <1>6, <2>1, <3>2 DEF Late, Rd!is_request_ready, Headed
  <2>3. IsClient' /\ Rd!HeadIsUnderstood'
    BY <1>7, <2>1, NoMore
  <2> QED BY <1>7, <2>2, <2>3 DEF ReadingInv, IsSomewhere, At
<1>9. CASE n >= req.length
  <2>1. PICK a : a = [code |-> Rd!Started, request |-> req]
    OBVIOUS
  <2>2. answers' = Append(answers, a) /\ a.request = sense.request /\ a.code # 100
    BY <1>1, <1>6, <1>9, <2>1 DEF Rd!Started
  <2>3. Len(answers') = k /\ (phase' # "open" \/ ~patient \/ At' => ReadingInv')
    BY <2>2, TakenIsAnswered
  <2>4. ASSUME patient PROVE At'
    <3>1. r =< Rd!Lengths[k]
      BY <2>4 DEF Reads
    <3>2. n = Len(y) /\ (Len(y) >= req.length => r = Rd!Lengths[k])
      BY <1>1, <1>2, <3>1, BodyHasCome
    <3>3. taken' = Rd!Lengths[k]
      BY <1>7, <1>9, <3>2
    <3>4. Len(answers') \in Nat /\ Len(answers') > 0 /\ k =< Len(asked)
      BY <1>7, <2>3
    <3> QED BY <1>6, <1>7, <1>9, <2>3, <3>3, <3>4, NextWaits DEF SameClient
  <2> QED BY <2>3, <2>4
<1> QED BY <1>8, <1>9

\* One with no body is answered, one with a body that nobody reads over and over.
LEMMA PlainTaken ==
  ASSUME ReadingInv, Texts, NEW k \in 1 .. Len(asked), NEW r \in Nat, NEW p, Reads(k, r, p),
         NEW sense, Rd!MeaningOK(asked[k], sense), sense.code = 200, p.code = 200, r >= HeadAt(k),
         NEW y, Len(y) \in Nat, Len(y) = r - HeadAt(k), ~sense.request.cgi,
         sense = Rd!Understood(asked[k]), k < Len(asked) => sense.request.length = 0,
         Headed(p.d, sense.request, FALSE, FALSE, 0)
  PROVE  ReadingInv'
<1>1. PICK d, z, req : d = p.d /\ z = p.body /\ req = sense.request
  OBVIOUS
<1>3. req.length \in Nat
  BY <1>1 DEF Rd!MeaningOK
<1>5. Headed(d, req, FALSE, FALSE, 0) /\ ~req.cgi /\ Rd!Handle(d, 200, z)
  BY <1>1 DEF Reads
<1>6. /\ status' = 200 /\ answers' = Append(answers, [code |-> 200, request |-> req])
      /\ \/ phase' = "closed"
         \/ phase' = "open" /\ 0 >= req.length /\ c' = Rd!Fresh
         \/ phase' = "open" /\ ~(0 >= req.length) /\ c' = d
  <2>1. PlainIsHandled(d, req)
    BY <1>5, PlainIsAnswered
  <2> QED BY <2>1 DEF PlainIsHandled
<1>7. SameClient /\ taken' = r /\ k = Len(answers) + 1 /\ Len(asked) \in Nat
  BY DEF Reads, Texts
<1>8. PICK a : a = [code |-> 200, request |-> req]
  OBVIOUS
<1>9. answers' = Append(answers, a) /\ a.request = sense.request /\ a.code # 100
  BY <1>1, <1>6, <1>8
<1>10. Len(answers') = k /\ (phase' # "open" \/ ~patient \/ At' => ReadingInv')
  BY <1>9, TakenIsAnswered
<1>11. ASSUME patient, 0 >= req.length, c' = Rd!Fresh PROVE At'
  <2>1. r =< Rd!Lengths[k]
    BY <1>11 DEF Reads
  <2>2. Len(y) >= req.length
    BY <1>3, <1>11
  <2>3. taken' = Rd!Lengths[k]
    BY <1>1, <1>7, <2>1, <2>2, BodyHasCome
  <2>4. Len(answers') \in Nat /\ Len(answers') > 0 /\ k =< Len(asked)
    BY <1>7, <1>10
  <2> QED BY <1>6, <1>7, <1>10, <1>11, <2>3, <2>4, NextWaits DEF SameClient
<1>12. ASSUME ~(0 >= req.length), c' = d PROVE At'
  <2>1. k = Len(asked)
    BY <1>1, <1>3, <1>7, <1>12
  <2>2. Again'
    <3>1. Len(answers') >= Len(asked') /\ asked'[Len(asked')] = asked[k]
      BY <1>7, <1>10, <2>1 DEF SameClient
    <3>2. c'.request = req /\ ~(0 >= c'.request.length)
      BY <1>5, <1>12 DEF Headed
    <3>3. Rd!Understood(asked'[Len(asked')]) = sense
      BY <3>1
    <3>4. Headed(c', sense.request, FALSE, FALSE, 0)
      BY <1>1, <1>5, <1>12
    <3> QED BY <1>1, <1>5, <1>6, <3>1, <3>2, <3>3, <3>4 DEF Again
  <2> QED BY <2>2 DEF At
<1> QED BY <1>6, <1>10, <1>11, <1>12

\* The k-th request is understood, and it is not one of a script.
IsTaken(k, p, sense) ==
  Rd!MeaningOK(asked[k], sense) /\ sense.code = 200 /\ p.code = 200 /\ ~sense.request.cgi

\* A form is handed over, with what there is of its body.
LEMMA FormTaken ==
  ASSUME ReadingInv, Texts, NEW k \in 1 .. Len(asked), NEW r \in Nat, NEW p, Reads(k, r, p),
         NEW sense, IsTaken(k, p, sense),
         NEW y, p.body = y, OfBody(k, y),
         Headed(p.d, sense.request, FALSE, TRUE, 0)
  PROVE  ReadingInv'
<1>0. Rd!MeaningOK(asked[k], sense) /\ sense.code = 200 /\ p.code = 200 /\ ~sense.request.cgi
  BY DEF IsTaken
<1>1. PICK d, req, z : d = p.d /\ req = sense.request /\ z = p.body
  OBVIOUS
<1>2. Headed(d, req, FALSE, TRUE, 0)
  BY <1>0, <1>1
<1>5. ~req.cgi
  BY <1>0, <1>1
<1>7. Rd!Handle(d, 200, z)
  BY <1>0, <1>1 DEF Reads
<1>3. phase' = "upload" /\ answers' = Append(answers, OfForm(req, z))
  BY <1>2, <1>5, <1>7, FormIsHandedOver
<1>4. PICK a : a = OfForm(req, z)
  OBVIOUS
<1>6. answers' = Append(answers, a) /\ a.request = sense.request /\ a.body = SubSeq(asked[k].body, 1, Len(a.body))
  BY <1>1, <1>3, <1>4 DEF OfBody, OfForm
<1>8. phase' # "open"
  BY <1>3
<1> QED BY <1>0, <1>6, <1>8, TakenIsAnswered

\* Whatever comes of a body where any method will do, the answer to its request is there.
LEMMA LooseStays ==
  ASSUME ReadingInv, Texts, Loose, NEW d, NEW code, NEW y, Rd!Handle(d, code, y), SameClient, taken' \in Nat
  PROVE  ReadingInv'
<1>1. IsClient /\ Rd!HeadIsUnderstood
  BY DEF ReadingInv
<1>2. answers' = answers \/ \E a : answers' = Append(answers, a)
  BY OneAtATime
<1>3. Len(answers) \in Nat /\ Len(asked) \in Nat /\ Len(asked) > 0 /\ Len(answers) >= Len(asked)
  <2>1. PICK S : answers \in Seq(S)
    BY <1>1 DEF IsClient
  <2>2. Len(answers) \in Nat
    BY <2>1
  <2> QED BY <2>2 DEF Texts, Loose
<1>4. ASSUME Len(answers') >= Len(answers) PROVE Loose'
  <2>1. PICK l \in Nat, m \in Nat : l = Len(asked) /\ m = Len(answers) /\ m >= l
    BY <1>3
  <2>2. Len(answers') \in Int => Len(answers') >= l
    BY <1>4, <2>1
  <2>3. Len(answers') \in Nat
    <3>1. CASE answers' = answers
      BY <1>3, <3>1
    <3>2. ASSUME NEW a, answers' = Append(answers, a) PROVE Len(answers') \in Nat
      <4>1. IsClient' /\ Len(answers') = Len(answers) + 1
        <5>1. PICK S : answers \in Seq(S)
          BY <1>1 DEF IsClient
        <5>2. answers \in Seq(S \cup {a})
          BY <5>1
        <5>3. Append(answers, a) \in Seq(S \cup {a}) /\ Len(Append(answers, a)) = Len(answers) + 1
          BY <5>2
        <5> QED BY <1>1, <3>2, <5>3 DEF IsClient, SameClient
      <4> QED BY <1>3, <4>1
    <3> QED BY <1>2, <3>1, <3>2
  <2> QED BY <2>1, <2>2, <2>3 DEF Loose, SameClient
<1>5. CASE answers' = answers
  <2>1. IsClient' /\ Rd!HeadIsUnderstood'
    BY <1>1, <1>5, NoMore
  <2>2. Loose'
    BY <1>3, <1>4, <1>5
  <2> QED BY <2>1, <2>2 DEF ReadingInv, IsSomewhere, At
<1>6. ASSUME NEW a, answers' = Append(answers, a) PROVE ReadingInv'
  <2>1. ~Rd!Owed(Len(answers) + 1) /\ Len(answers) # 0
    <3>1. ~(Len(answers) + 1 =< Len(asked)) /\ Len(answers) # 0
      BY <1>3
    <3> QED BY <3>1 DEF Rd!Owed, Loose
  <2>2. IsClient' /\ Rd!HeadIsUnderstood' /\ Len(answers') = Len(answers) + 1
    BY <1>1, <1>6, <2>1, OneMore
  <2>3. Loose'
    BY <1>3, <1>4, <2>2
  <2> QED BY <2>2, <2>3 DEF ReadingInv, IsSomewhere, At
<1> QED BY <1>2, <1>5, <1>6

\* A body that is neither of a form nor of a script is refused, or is that of the last
\* request and goes where any method will do.
LEMMA BodyTaken ==
  ASSUME ReadingInv, Texts, NEW k \in 1 .. Len(asked), NEW r \in Nat, NEW p, Reads(k, r, p),
         NEW sense, IsTaken(k, p, sense), sense.request.method = "POST", ~Rd!Form(sense.request.type),
         k < Len(asked) => ~Rd!AnyMethod(sense.request),
         NEW n, Headed(p.d, sense.request, TRUE, FALSE, n)
  PROVE  ReadingInv'
<1>0. Rd!MeaningOK(asked[k], sense) /\ sense.code = 200 /\ p.code = 200 /\ ~sense.request.cgi
  BY DEF IsTaken
<1>1. PICK d, req, z : d = p.d /\ req = sense.request /\ z = p.body
  OBVIOUS
<1>2. Headed(d, req, TRUE, FALSE, n) /\ ~req.cgi /\ Rd!Handle(d, 200, z)
  BY <1>0, <1>1 DEF Reads
<1>3. BodyIsSeen(req)
  BY <1>2, BodyIsAnswered
<1>4. PICK a : answers' = Append(answers, a) /\ \E code \in {200, 400} : a = [code |-> code, request |-> req]
  BY <1>3 DEF BodyIsSeen
<1>6. answers' = Append(answers, a) /\ a.request = sense.request /\ a.code # 100
  BY <1>1, <1>4
<1>7. Len(answers') = k /\ (phase' # "open" \/ ~patient \/ At' => ReadingInv')
  BY <1>0, <1>6, TakenIsAnswered
<1>8. CASE phase' = "closed"
  BY <1>7, <1>8
<1>9. CASE Rd!AnyMethod(req)
  <2>1. k = Len(asked) /\ asked' = asked
    <3>1. Len(asked) \in Nat
      BY DEF Texts
    <3>2. ~(k < Len(asked))
      BY <1>1, <1>9
    <3> QED BY <3>1, <3>2 DEF Reads, SameClient
  <2>2. Rd!Tolerated(asked[k])
    BY <1>0, <1>1, <1>9 DEF Rd!MeaningOK, Rd!Tolerated, Rd!RawBody
  <2>3. Loose'
    BY <1>7, <2>1, <2>2 DEF Loose
  <2> QED BY <1>7, <2>3 DEF At
<1> QED BY <1>3, <1>8, <1>9 DEF BodyIsSeen

\* A read of a client that is heard, and is owed an answer.
LEMMA RequestIsRead ==
  ASSUME Rd!ConstantsAssumption, ReadingInv, phase = "open", patient \/ Len(answers) = 0, NEW n \in Int, Rd!Read(n), ~Loose
  PROVE  ReadingInv'
<1>1. IsClient /\ taken \in Nat /\ Rd!HeadIsUnderstood /\ At
  BY DEF ReadingInv, IsSomewhere
<1>2. Texts
  BY <1>1, ClientSpeaks
<1>3. Waits
  BY <1>1, <1>2, ReadsInWaits
<1>4. Len(answers) \in Nat /\ Len(asked) \in Nat
  <2>1. PICK S : answers \in Seq(S)
    BY <1>1 DEF IsClient
  <2>2. Len(answers) \in Nat
    BY <2>1
  <2> QED BY <1>2, <2>2 DEF Texts
<1>5. PICK k \in 1 .. Len(asked) : k = Len(answers) + 1 /\ k - 1 = Len(answers)
  BY <1>3, <1>4 DEF Waits
<1>6. Rd!Lengths[k - 1] =< taken /\ taken < HeadAt(k) /\ Waiting(c, Come(k, taken))
  BY <1>3, <1>5 DEF Waits
<1>7. PICK r : r = taken + n
  OBVIOUS
<1>8. r \in Nat /\ taken < r /\ r =< Rd!Lengths[Len(asked)] /\ (patient \/ k = Len(asked) => r =< Rd!Lengths[k])
  BY <1>1, <1>2, <1>3, <1>4, <1>5, <1>7, MayRead DEF Waits
<1>9. PICK p : p = Rd!parse(c, SubSeq(Rd!Stream, taken + 1, r))
  OBVIOUS
<1>10. Rd!Handle(p.d, p.code, p.body) /\ taken' = r /\ SameClient
  BY <1>7, <1>9 DEF Rd!Read, Rd!Parsed, SameClient
<1>11. Reads(k, r, p)
  BY <1>1, <1>4, <1>5, <1>8, <1>10 DEF Reads
<1>12. PICK sense : sense = Rd!Understood(asked[k])
  OBVIOUS
<1>13. Rd!MeaningOK(asked[k], sense) /\ (k < Len(asked) /\ sense.code = 200 => Rd!MayBeFollowed(sense.request))
  BY <1>1, <1>12, ClientSpeaks
<1>17. IntOK /\ Fits(sense.request)
  BY <1>13 DEF Rd!ConstantsAssumption, IntOK, Fits, Rd!MeaningOK
<1>14. CASE r < HeadAt(k)
  <2>1. Waiting(p.d, Come(k, r)) /\ p.code = 610
    BY <1>1, <1>2, <1>6, <1>8, <1>9, <1>12, <1>14, <1>17, ParseIs
  <2> QED BY <1>2, <1>6, <1>8, <1>11, <1>14, <2>1, HeaderComes
<1>15. CASE r >= HeadAt(k)
  <2>1. PICK y : /\ Len(y) = r - HeadAt(k) /\ Len(y) \in Nat
                 /\ r =< Rd!Lengths[k] => OfBody(k, y)
                 /\ IsParsed(p, sense, y)
    BY <1>1, <1>2, <1>6, <1>8, <1>9, <1>12, <1>15, <1>17, ParseIs
  <2>2. CASE sense.code # 200
    <3>1. p.code = sense.code /\ Refused(p.d, sense.request)
      BY <2>1, <2>2 DEF IsParsed
    <3> QED BY <1>2, <1>8, <1>11, <1>13, <2>2, <3>1, HeaderRefused
  <2>3. CASE sense.code = 200
    <3>1. p.code = 200 /\ p.body = y /\ Became(p.d, sense.request, y)
      BY <2>1, <2>3 DEF IsParsed
    <3>2. k < Len(asked) => \/ sense.request.cgi
                            \/ IF sense.request.method = "POST" THEN ~Rd!Form(sense.request.type) /\ ~Rd!AnyMethod(sense.request)
                                                                ELSE sense.request.length = 0
      BY <1>13, <2>3 DEF Rd!MayBeFollowed
    <3>3. k = Len(asked) \/ k < Len(asked)
      BY <1>4
    <3>4. CASE sense.request.cgi
      <4>1. Headed(p.d, sense.request, TRUE, FALSE, Counted(sense.request, y))
        BY <3>1, <3>4 DEF Became
      <4> QED BY <1>2, <1>8, <1>11, <1>13, <1>15, <2>1, <2>3, <3>1, <3>4, <4>1, ScriptTaken
    <3>5. CASE ~sense.request.cgi /\ sense.request.method # "POST"
      <4>1. Headed(p.d, sense.request, FALSE, FALSE, 0)
        BY <3>1, <3>5 DEF Became
      <4>2. k < Len(asked) => sense.request.length = 0
        BY <3>2, <3>5
      <4>3. Len(y) \in Nat /\ Len(y) = r - HeadAt(k) /\ p.code = 200 /\ ~sense.request.cgi
        BY <2>1, <3>1, <3>5
      <4>4. Rd!MeaningOK(asked[k], sense)
        BY <1>13
      <4> QED BY <1>2, <1>8, <1>11, <1>12, <1>15, <2>3, <4>1, <4>2, <4>3, <4>4, PlainTaken
    <3>6. CASE ~sense.request.cgi /\ sense.request.method = "POST" /\ Rd!Form(sense.request.type)
      <4>1. Headed(p.d, sense.request, FALSE, TRUE, 0)
        BY <3>1, <3>6 DEF Became
      <4>2. k = Len(asked)
        BY <3>2, <3>3, <3>6
      <4>3. OfBody(k, y)
        BY <1>8, <2>1, <4>2
      <4>4. IsTaken(k, p, sense) /\ p.body = y
        BY <1>13, <2>3, <3>1, <3>6 DEF IsTaken
      <4> QED BY <1>2, <1>8, <1>11, <4>1, <4>3, <4>4, FormTaken
    <3>7. CASE ~sense.request.cgi /\ sense.request.method = "POST" /\ ~Rd!Form(sense.request.type)
      <4>1. PICK count : Headed(p.d, sense.request, TRUE, FALSE, count)
        BY <3>1, <3>7 DEF Became
      <4>2. IsTaken(k, p, sense)
        BY <1>13, <2>3, <3>1, <3>7 DEF IsTaken
      <4>3. k < Len(asked) => ~Rd!AnyMethod(sense.request)
        BY <3>2, <3>7
      <4> QED BY <1>2, <1>8, <1>11, <3>7, <4>1, <4>2, <4>3, BodyTaken
    <3> QED BY <3>4, <3>5, <3>6, <3>7
  <2> QED BY <2>2, <2>3
<1>16. HeadAt(k) \in Nat
  <2>1. k - 1 \in 0 .. Len(asked)
    BY <1>4
  <2>2. Rd!Lengths[k - 1] \in Nat /\ Len(asked[k].head) \in Nat
    BY <1>2, <2>1, EndsGrow, TextOf
  <2> QED BY <2>2 DEF HeadAt
<1> QED BY <1>8, <1>14, <1>15, <1>16

\* A read of a client that is heard.
LEMMA ReadIsHeard ==
  ASSUME Rd!ConstantsAssumption, ReadingInv, phase = "open", patient \/ Len(answers) = 0, NEW n \in Int, Rd!Read(n)
  PROVE  ReadingInv'
<1>1. CASE Loose
  <2>1. IsClient /\ taken \in Nat
    BY DEF ReadingInv
  <2>2. Texts
    BY <2>1, ClientSpeaks
  <2>3. PICK p : Rd!Handle(p.d, p.code, p.body)
    BY DEF Rd!Read, Rd!Parsed
  <2>4. SameClient /\ taken' \in Nat
    BY <2>1 DEF Rd!Read, SameClient
  <2> QED BY <1>1, <2>2, <2>3, <2>4, LooseStays
<1>2. CASE ~Loose
  BY <1>2, RequestIsRead
<1> QED BY <1>1, <1>2

\* There is room to write, and nothing is read.
LEMMA WriteIsHeard ==
  ASSUME Rd!ConstantsAssumption, ReadingInv, phase = "open", patient \/ Len(answers) = 0, Rd!MayWrite
  PROVE  ReadingInv'
<1>1. IsClient /\ taken \in Nat /\ Rd!HeadIsUnderstood /\ At
  BY DEF ReadingInv, IsSomewhere
<1>2. Texts
  BY <1>1, ClientSpeaks
<1>3. Rd!Handle(c, status, << >>) /\ SameClient /\ taken' = taken
  BY DEF Rd!MayWrite, SameClient
<1>4. Len(answers) \in Nat /\ Len(asked) \in Nat /\ Len(asked) > 0
  <2>1. PICK S : answers \in Seq(S)
    BY <1>1 DEF IsClient
  <2>2. Len(answers) \in Nat
    BY <2>1
  <2> QED BY <1>2, <2>2 DEF Texts
<1>5. PICK z : z = << >>
  OBVIOUS
<1>6. Rd!Handle(c, status, z)
  BY <1>3, <1>5
<1>7. Rd!Lengths' = Rd!Lengths /\ Rd!Stream' = Rd!Stream
  BY <1>3, SameText DEF SameClient
<1>8. ASSUME answers' = answers, c' = c, status' = status PROVE ReadingInv'
  <2>1. IsClient' /\ Rd!HeadIsUnderstood'
    BY <1>1, <1>3, <1>8, NoMore
  <2>2. ASSUME Waits PROVE Waits'
    <3>1. PICK n : n = Len(answers)
      OBVIOUS
    <3>2. Len(answers') = n /\ Len(asked') = Len(asked)
      BY <1>3, <1>8, <3>1 DEF SameClient
    <3>3. HeadAt(n + 1)' = HeadAt(n + 1) /\ Come(n + 1, taken)' = Come(n + 1, taken)
      BY <1>3, <1>7 DEF HeadAt, Come, SameClient
    <3>4. n < Len(asked) /\ Rd!Lengths[n] =< taken /\ taken < HeadAt(n + 1) /\ Waiting(c, Come(n + 1, taken)) /\ status \in {200, 610}
      BY <2>2, <3>1 DEF Waits
    <3> QED BY <1>3, <1>7, <1>8, <3>1, <3>2, <3>3, <3>4 DEF Waits
  <2>3. ASSUME Over PROVE Over'
    BY <1>3, <1>7, <1>8, <2>3 DEF Over, SameClient
  <2>4. ASSUME Late PROVE Late'
    BY <1>8, <2>4 DEF Late, Rd!is_request_ready
  <2>5. ASSUME Again PROVE Again'
    BY <1>3, <1>8, <2>5 DEF Again, SameClient
  <2>7. ASSUME Loose PROVE Loose'
    BY <1>3, <1>8, <2>7 DEF Loose, SameClient
  <2>6. At'
    BY <1>1, <2>2, <2>3, <2>4, <2>5, <2>7 DEF At
  <2> QED BY <1>1, <1>3, <2>1, <2>6 DEF ReadingInv, IsSomewhere
<1>9. ASSUME NEW b, Waiting(c, b), status \in {200, 610} PROVE ReadingInv'
  <2>1. status' = status /\ c' = c /\ answers' = answers
    BY <1>6, <1>9, WaitingStays
  <2> QED BY <1>8, <2>1
<1>10. CASE Waits
  BY <1>9, <1>10 DEF Waits
<1>11. CASE Over
  BY <1>9, <1>11 DEF Over
<1>12. CASE Late
  <2>1. PICK d, req, n : d = c /\ req = c.request /\ n = c.moved
    OBVIOUS
  <2>2. Headed(d, req, TRUE, FALSE, n) /\ req.cgi /\ Rd!Handle(d, 200, z) /\ status = 200
    BY <1>6, <1>12, <2>1 DEF Late
  <2>3. ~(n >= req.length)
    BY <1>12, <2>1 DEF Late, Rd!is_request_ready
  <2>4. ScriptIsCalled(d, req, n)
    BY <2>2, ScriptStarts
  <2> QED BY <1>8, <2>1, <2>2, <2>3, <2>4 DEF ScriptIsCalled
<1>13. CASE Again
  <2>1. PICK k \in 1 .. Len(asked) : k = Len(asked)
    BY <1>4
  <2>2. PICK sense : sense = Rd!Understood(asked[k])
    OBVIOUS
  <2>3. PICK req : req = sense.request
    OBVIOUS
  <2>14. PICK d : d = c
    OBVIOUS
  <2>4. Headed(d, req, FALSE, FALSE, 0) /\ sense.code = 200 /\ Rd!Handle(d, 200, z) /\ status = 200
    BY <1>6, <1>13, <2>1, <2>2, <2>3, <2>14 DEF Again
  <2>5. ~req.cgi /\ ~(0 >= req.length) /\ d.request = req
    BY <1>13, <2>4, <2>14 DEF Again, Headed
  <2>6. /\ status' = 200 /\ answers' = Append(answers, [code |-> 200, request |-> req])
        /\ phase' = "closed" \/ (phase' = "open" /\ c' = c)
    <3>1. PlainIsHandled(d, req)
      BY <2>4, <2>5, PlainIsAnswered
    <3> QED BY <2>5, <2>14, <3>1 DEF PlainIsHandled
  <2>7. PICK a : a = [code |-> 200, request |-> req]
    OBVIOUS
  <2>8. answers' = Append(answers, a) /\ a.request = sense.request /\ a.code # 100
    BY <2>3, <2>6, <2>7
  <2>9. Rd!MeaningOK(asked[k], sense)
    BY <1>1, <2>2, ClientSpeaks
  <2>10. Rd!AsMeant(a, asked[k])
    BY <2>4, <2>8, <2>9, TakenAsMeant
  <2>11. Rd!RequestOf(Len(answers) + 1) = asked[k]
    <3>1. Len(answers) >= Len(asked)
      BY <1>13 DEF Again
    <3>2. Len(answers) + 1 \in Nat /\ Len(answers) + 1 >= Len(asked)
      BY <1>4, <3>1
    <3> QED BY <1>4, <2>1, <3>2, RequestIs
  <2>12. IsClient' /\ Rd!HeadIsUnderstood' /\ Len(answers') = Len(answers) + 1
    BY <1>1, <1>3, <2>8, <2>10, <2>11, OneMore
  <2>13. ASSUME c' = c PROVE Again'
    <3>1. Len(answers') >= Len(asked')
      BY <1>3, <1>4, <1>13, <2>12 DEF Again, SameClient
    <3> QED BY <1>3, <1>13, <2>6, <2>13, <3>1 DEF Again, SameClient
  <2> QED BY <1>1, <1>3, <2>6, <2>12, <2>13 DEF ReadingInv, IsSomewhere, At
<1>14. CASE Loose
  BY <1>1, <1>2, <1>3, <1>6, <1>14, LooseStays
<1> QED BY <1>1, <1>10, <1>11, <1>12, <1>13, <1>14 DEF At

\* Of a client that does not wait for its answers only the first one is looked at.
LEMMA Unheard ==
  ASSUME ReadingInv, ~(patient \/ Len(answers) = 0), NEW d, NEW code, NEW y, Rd!Handle(d, code, y), SameClient, taken' \in Nat
  PROVE  ReadingInv'
<1>1. IsClient /\ Rd!HeadIsUnderstood
  BY DEF ReadingInv
<1>2. answers' = answers \/ \E a : answers' = Append(answers, a)
  BY OneAtATime
<1>3. CASE answers' = answers
  <2>1. IsClient' /\ Rd!HeadIsUnderstood'
    BY <1>1, <1>3, NoMore
  <2> QED BY <1>3, <2>1 DEF ReadingInv, IsSomewhere, SameClient
<1>4. ASSUME NEW a, answers' = Append(answers, a) PROVE ReadingInv'
  <2>1. IsClient' /\ Rd!HeadIsUnderstood' /\ Len(answers') = Len(answers) + 1 /\ Len(answers) \in Nat
    BY <1>1, <1>4, OneMore
  <2>2. ~(patient \/ Len(answers') = 0)
    BY <2>1
  <2> QED BY <2>1, <2>2 DEF ReadingInv, IsSomewhere, SameClient
<1> QED BY <1>2, <1>3, <1>4

\* At the start the first header is on its way.
LEMMA ReadingBegins ==
  ASSUME Rd!ConstantsAssumption, Rd!Init
  PROVE  ReadingInv
<1>1. asked \in Dialogues /\ taken = 0 /\ c = Rd!Fresh /\ status = 200 /\ answers = << >>
  BY DEF Rd!Init
<1>2. IsClient
  <2>1. answers \in Seq({})
    BY <1>1
  <2> QED BY <1>1, <2>1 DEF IsClient
<1>3. Texts
  BY <1>2, ClientSpeaks
<1>4. Rd!HeadIsUnderstood
  BY <1>1 DEF Rd!HeadIsUnderstood
<1>5. Len(answers) = 0 /\ 0 < Len(asked) /\ Len(asked) \in Nat
  BY <1>1, <1>3 DEF Texts
<1>6. PICK k \in 1 .. Len(asked) : k = 1
  BY <1>5
<1>7. Rd!Lengths[0] = 0
  BY <1>3, EndsGrow
<1>8. HeadAt(k) > 0
  <2>1. Len(asked[k].head) \in Nat /\ Len(asked[k].head) >= 4
    BY <1>3, TextOf
  <2>2. k - 1 = 0
    BY <1>6
  <2> QED BY <1>7, <2>1, <2>2 DEF HeadAt
<1>9. Come(k, 0) = << >>
  <2>1. PICK s, A : s = Rd!Stream /\ A = Alphabet
    OBVIOUS
  <2>2. s \in Seq(A)
    BY <1>3, <2>1, StreamHas DEF Has
  <2>3. k - 1 = 0
    BY <1>6
  <2>4. Come(k, 0) = SubSeq(s, 0 + 1, 0)
    BY <1>7, <2>1, <2>3 DEF Come
  <2> QED BY <2>2, <2>4
<1>10. Waits
  <2>1. Waiting(c, << >>)
    BY <1>1, FreshWaits
  <2>2. Len(answers) + 1 = k
    BY <1>5, <1>6
  <2> QED BY <1>1, <1>5, <1>7, <1>8, <1>9, <2>1, <2>2 DEF Waits
<1> QED BY <1>1, <1>2, <1>4, <1>10 DEF ReadingInv, IsSomewhere, At

\* What is on its way has not all come.
LEMMA NothingIsLeft ==
  ASSUME Rd!ConstantsAssumption, ReadingInv
  PROVE  Rd!RequestIsAnswered
<1>1. Rd!HeadIsUnderstood /\ IsClient
  BY DEF ReadingInv
<1>2. Texts
  BY <1>1, ClientSpeaks
<1>3. ASSUME patient, taken = Rd!MaySend, phase = "open" PROVE Len(answers) >= Len(asked) \/ Rd!BodyIsLate
  <2>1. At
    BY <1>3 DEF ReadingInv, IsSomewhere
  <2>2. ASSUME Waits PROVE FALSE
    <3>1. PICK S : answers \in Seq(S)
      BY <1>1 DEF IsClient
    <3>2. PICK n : n = Len(answers)
      OBVIOUS
    <3>3. n \in Nat /\ n < Len(asked) /\ Len(asked) \in Nat
      BY <1>2, <2>2, <3>1, <3>2 DEF Waits, Texts
    <3>4. PICK k \in 1 .. Len(asked) : k = n + 1
      BY <3>3
    <3>5. taken = Rd!Lengths[k] /\ taken < HeadAt(k)
      BY <1>3, <2>2, <3>2, <3>3, <3>4 DEF Waits, Rd!MaySend
    <3>6. PICK h : h = Len(asked[k].head)
      OBVIOUS
    <3>7. PICK b : b = Len(asked[k].body)
      OBVIOUS
    <3>8. PICK o : o = Rd!Lengths[k - 1]
      OBVIOUS
    <3>9. h \in Nat /\ b \in Nat /\ Len(Rd!Text(asked[k])) = h + b
      BY <1>2, <3>6, <3>7, TextOf
    <3>10. o \in Nat /\ Rd!Lengths[k] = o + (h + b)
      <4>1. k - 1 \in 0 .. Len(asked)
        BY <3>3
      <4> QED BY <1>2, <3>8, <3>9, <4>1, EndsGrow
    <3>11. HeadAt(k) = o + h
      BY <3>6, <3>8 DEF HeadAt
    <3> QED BY <3>5, <3>9, <3>10, <3>11
  <2>3. Over => Len(answers) >= Len(asked)
    BY DEF Over
  <2>4. Late => Rd!BodyIsLate
    BY DEF Late, Rd!BodyIsLate
  <2>5. Again => Len(answers) >= Len(asked)
    BY DEF Again
  <2>6. Loose => Len(answers) >= Len(asked)
    BY DEF Loose
  <2> QED BY <2>1, <2>2, <2>3, <2>4, <2>5, <2>6 DEF At
<1> QED BY <1>1, <1>3 DEF Rd!RequestIsAnswered, Rd!EveryHeadIsAnswered, Rd!Settled

\* Whatever the pieces in which its requests arrive, a client is answered as it meant them:
\* the n-th answer to one that waits for its answers, and the first one to each, is to the
\* n-th request, with the fields that it has, or is the refusal that is meant, and what is
\* handed over is the beginning of its body; and nothing of a client that waits is left
\* without an answer, except in a loop of the parser and at a script whose body is late.
\* What is assumed is that each header is understood when it is there at once, has one end,
\* and is not followed by more of a body than it announces; and that a request with a body
\* that is answered whatever the method is the last one of its client.  What comes after the
\* first answer to that one is not looked at
\* (RequestHeaderParser::feed(), ServerRequestParser::parse(), IOClientHandler::handle()).
THEOREM EveryRequestIsUnderstood ==
  ASSUME Rd!ConstantsAssumption
  PROVE  Rd!Spec => []Rd!RequestIsAnswered
<1>1. Rd!Init => ReadingInv
  BY ReadingBegins
<1>2. ReadingInv /\ [Rd!Next]_(Rd!vars) => ReadingInv'
  <2> SUFFICES ASSUME ReadingInv, [Rd!Next]_(Rd!vars) PROVE ReadingInv'
    OBVIOUS
  <2>1. IsClient /\ taken \in Nat
    BY DEF ReadingInv
  <2>2. Texts
    BY <2>1, ClientSpeaks
  <2>3. ASSUME NEW n \in Int, Rd!Read(n) PROVE ReadingInv'
    <3>1. phase = "open"
      BY <2>3 DEF Rd!Read
    <3>2. CASE patient \/ Len(answers) = 0
      BY <2>3, <3>1, <3>2, ReadIsHeard
    <3>3. CASE ~(patient \/ Len(answers) = 0)
      <4>1. PICK p : Rd!Handle(p.d, p.code, p.body)
        BY <2>3 DEF Rd!Read, Rd!Parsed
      <4>2. SameClient /\ taken' \in Nat
        BY <2>1, <2>3 DEF Rd!Read, SameClient
      <4> QED BY <3>3, <4>1, <4>2, Unheard
    <3> QED BY <3>2, <3>3
  <2>4. CASE Rd!MayWrite
    <3>1. phase = "open"
      BY <2>4 DEF Rd!MayWrite
    <3>2. CASE patient \/ Len(answers) = 0
      BY <2>4, <3>1, <3>2, WriteIsHeard
    <3>3. CASE ~(patient \/ Len(answers) = 0)
      <4>1. Rd!Handle(c, status, << >>) /\ SameClient /\ taken' \in Nat
        BY <2>1, <2>4 DEF Rd!MayWrite, SameClient
      <4> QED BY <3>3, <4>1, Unheard
    <3> QED BY <3>2, <3>3
  <2>5. ASSUME NEW n \in Pieces \cup {Len(Rd!Stream) - taken, Rd!MaySend - taken} PROVE n \in Int
    <3>1. Pieces \subseteq Nat
      BY DEF Rd!ConstantsAssumption
    <3>2. Len(Rd!Stream) \in Int
      <4>1. PICK s, A : s = Rd!Stream /\ A = Alphabet
        OBVIOUS
      <4>2. s \in Seq(A)
        BY <2>2, <4>1, StreamHas DEF Has
      <4> QED BY <4>1, <4>2
    <3>3. Rd!MaySend \in Int
      <4>1. Len(asked) \in Nat /\ \A k \in 0 .. Len(asked) : Rd!Lengths[k] \in Nat
        BY <2>2, EndsGrow DEF Texts
      <4>2. PICK S : answers \in Seq(S)
        BY <2>1 DEF IsClient
      <4>3. Len(answers) \in Nat
        BY <4>2
      <4>4. Len(answers) < Len(asked) => Len(answers) + 1 \in 0 .. Len(asked)
        BY <4>1, <4>3
      <4> QED BY <4>1, <4>4 DEF Rd!MaySend
    <3> QED BY <2>1, <3>1, <3>2, <3>3
  <2>6. CASE UNCHANGED Rd!vars
    <3>1. SameClient /\ UNCHANGED <<taken, c, status, answers, phase>>
      BY <2>6 DEF Rd!vars, SameClient
    <3>2. IsClient' /\ Rd!HeadIsUnderstood'
      BY <3>1, NoMore DEF ReadingInv
    <3>3. At' <=> At
      <4>1. Rd!Lengths' = Rd!Lengths /\ Rd!Stream' = Rd!Stream
        BY <3>1, SameText DEF SameClient
      <4>2. Waits' <=> Waits
        BY <3>1, <4>1 DEF Waits, HeadAt, Come, SameClient
      <4>3. Over' <=> Over
        BY <3>1, <4>1 DEF Over, SameClient
      <4>4. Late' <=> Late
        BY <3>1 DEF Late, Rd!is_request_ready
      <4>5. Again' <=> Again
        BY <3>1 DEF Again, SameClient
      <4>6. Loose' <=> Loose
        BY <3>1 DEF Loose, SameClient
      <4> QED BY <4>2, <4>3, <4>4, <4>5, <4>6 DEF At
    <3> QED BY <3>1, <3>2, <3>3 DEF ReadingInv, IsSomewhere, SameClient
  <2> QED BY <2>3, <2>4, <2>5, <2>6 DEF Rd!Next
<1>3. ReadingInv => Rd!RequestIsAnswered
  BY NothingIsLeft
<1> QED BY <1>1, <1>2, <1>3, PTL DEF Rd!Spec
=============================================================================
