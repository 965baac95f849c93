------------------------------- MODULE Sessions -------------------------------
(***************************************************************************)
(* Who is signed in at webserv: /login, /session and /logout of            *)
(* ServerResponse over the SessionStore.  Each server has a store of its   *)
(* own, but a browser has one cookie for all the ports of a host.          *)
(*                                                                         *)
(* Requests are on their way over several connections and are handled in   *)
(* any order.  An identifier is never given twice: there are 62^32 of them.*)
(***************************************************************************)
EXTENDS Integers, FiniteSets

CONSTANTS
  Servers, Browsers, Users,
  Sids,         \* identifiers of sessions
  None,         \* no session, which the code has as the empty string
  TTL,          \* how long a session lives, 3600 seconds in the code
  MaxTime,      \* bound on the clock
  MaxSent       \* bound on the requests on their way

ASSUME TTLAssumption == TTL \in Nat

VARIABLES
  store,        \* _store of each server: [username, expires_at] of an identifier
  now,          \* time()
  jar,          \* the cookie of each browser, with the time it is thrown away
  sent,         \* requests on their way: [browser, server, page, who, session_id]
  made,         \* who each session was made for, where, and when
  ended,        \* sessions that were logged out
  answer        \* what was just answered: [code, username]

vars == <<store, now, jar, sent, made, ended, answer>>

Pages == {"login", "session", "logout"}
Empty == [sid \in {} |-> None]

NoAnswer == [code |-> 0, username |-> None]

Answers(r, code, name) == sent' = sent \ {r} /\ answer' = [code |-> code, username |-> name]

-----------------------------------------------------------------------------
\* A browser sends its cookie with what it asks for; one that does not mind Max-Age
\* sends it for ever.
Ask(b, s, page, who) ==
  /\ Cardinality(sent) < MaxSent
  /\ page = "login" \/ who = None
  /\ \E sid \in {jar[b].sid, IF jar[b].until > now THEN jar[b].sid ELSE None} :
       sent' = sent \cup {[browser |-> b, server |-> s, page |-> page, who |-> who, session_id |-> sid]}
  /\ answer' = NoAnswer
  /\ UNCHANGED <<store, now, jar, made, ended>>

\* create_session(): _store[sid] = s
create_session(s, sid, name) ==
  store' = [store EXCEPT ![s] = [k \in DOMAIN @ \cup {sid} |->
                                   IF k = sid THEN [username |-> name, expires_at |-> now + TTL] ELSE @[k]]]

\* handle_auth_login(): credentials that are wrong or not there are nobody's.
Login(r) ==
  /\ r.page = "login"
  /\ \/ /\ r.who \in Users
        /\ \E sid \in Sids \ {m.sid : m \in made} :
             /\ create_session(r.server, sid, r.who)
             /\ made' = made \cup {[server |-> r.server, sid |-> sid, user |-> r.who, at |-> now]}
             /\ jar' = [jar EXCEPT ![r.browser] = [sid |-> sid, until |-> now + TTL]]
        /\ Answers(r, 200, r.who)
     \/ r.who = None /\ (\E code \in {400, 401} : Answers(r, code, None)) /\ UNCHANGED <<store, made, jar>>
     \/ r.who \in Users /\ Answers(r, 500, None) /\ UNCHANGED <<store, made, jar>>        \* no file of users
  /\ UNCHANGED <<now, ended>>

Without(s, sid) == [store EXCEPT ![s] = [k \in DOMAIN @ \ {sid} |-> @[k]]]

Expired_never(session) == FALSE                         \* mutant: nobody looks at the clock
Expired(session) == session.expires_at < now

\* handle_auth_session(), get_username(): an expired session is erased when it is asked for.
Session(r) ==
  LET found == r.session_id \in DOMAIN store[r.server]
      stale == found /\ Expired(store[r.server][r.session_id])
  IN  /\ r.page = "session"
      /\ IF found /\ ~stale THEN Answers(r, 200, store[r.server][r.session_id].username) ELSE Answers(r, 401, None)
      /\ store' = IF stale THEN Without(r.server, r.session_id) ELSE store
      /\ UNCHANGED <<now, jar, made, ended>>

\* handle_auth_logout(): the cookie is thrown away also where the session is another
\* server's, which keeps it.
Logout(r) ==
  /\ r.page = "logout"
  /\ IF r.session_id = None THEN Answers(r, 400, None) /\ UNCHANGED <<store, jar, ended>>
     ELSE /\ store' = Without(r.server, r.session_id)
          /\ jar' = [jar EXCEPT ![r.browser] = [sid |-> None, until |-> 0]]
          /\ ended' = IF r.session_id \in DOMAIN store[r.server] THEN ended \cup {r.session_id} ELSE ended
          /\ Answers(r, 200, None)
  /\ UNCHANGED <<now, made>>

Tick == now < MaxTime /\ now' = now + 1 /\ answer' = NoAnswer /\ UNCHANGED <<store, jar, sent, made, ended>>

Init ==
  /\ store = [s \in Servers |-> Empty] /\ now = 0
  /\ jar = [b \in Browsers |-> [sid |-> None, until |-> 0]]
  /\ sent = {} /\ made = {} /\ ended = {}
  /\ answer = NoAnswer

Next ==
  \/ \E b \in Browsers, s \in Servers, page \in Pages, who \in Users \cup {None} : Ask(b, s, page, who)
  \/ \E r \in sent : Login(r) \/ Session(r) \/ Logout(r)
  \/ Tick

Spec == Init /\ [][Next]_vars

-----------------------------------------------------------------------------
\* /session answers with the one who logged in with this identifier at this server, for as
\* long as the session lives and until it is logged out, and refuses everybody else: in
\* whatever order requests are handled, whoever logs in or out in between, and after an
\* expired session was erased by the one who asked for it (SessionStore::get_username()).
Lives(r) == {m \in made : m.server = r.server /\ m.sid = r.session_id /\ now =< m.at + TTL /\ m.sid \notin ended}

RightlyAnswered(r) ==
  r.page = "session" =>
    IF Lives(r) = {} THEN answer'.code = 401 ELSE answer'.code = 200 /\ answer'.username \in {m.user : m \in Lives(r)}

SessionIsTheUsers == [][\A r \in sent \ sent' : RightlyAnswered(r)]_vars
===============================================================================
