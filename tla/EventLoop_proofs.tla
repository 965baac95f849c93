--------------------------- MODULE EventLoop_proofs ---------------------------
(* Proofs about EventLoop, for any number of addresses and any capacity. *)
EXTENDS EventLoop, FiniteSetTheorems, TLAPS

USE CtxAssumption, BoundsAssumption, PeersAssumption

-----------------------------------------------------------------------------
(* Types: first those that do not depend on how the counters are used. *)

DataOK ==
  /\ up \in BOOLEAN
  /\ registered \subseteq Ctx
  /\ size \in Int
  /\ closed \subseteq Ctx
  /\ role \in [Ctx -> {"client", "job", "free"}]
  /\ refs \in [Ctx -> Int]
  /\ conn \in [Ctx -> ConnType]
  /\ job \in [Ctx -> JobType]
  /\ batch \in [Ctx -> SUBSET {"in", "out", "hup"}]
  /\ backlog \in BOOLEAN
  /\ listening \in BOOLEAN

LEMMA NewTypes ==
  /\ NewConn \in ConnType
  /\ \A c \in Ctx \cup {NULL} : NewJob(c) \in JobType
  BY DEF NewConn, NewJob, ConnType, JobType

\* read_and_parse() touches what has arrived and the status, nothing else.
LEMMA ReceivedFields ==
  ASSUME DataOK, NEW c \in Ctx
  PROVE  /\ Received(c) \in ConnType
         /\ Received(c).gone = conn[c].gone /\ Received(c).req = conn[c].req
         /\ Received(c).sent = conn[c].sent /\ Received(c).job = conn[c].job
         /\ Received(c).finished = conn[c].finished /\ Received(c).closing = conn[c].closing
         /\ Received(c).misled = conn[c].misled
         /\ Received(c).rcvd \in {conn[c].rcvd, conn[c].sent}
         /\ IsCgi(conn[c]) => Received(c) = conn[c]
<1> DEFINE k == [conn[c] EXCEPT !.rcvd = conn[c].sent]
           q == Status(k)
<1>1. conn[c] \in ConnType
  BY DEF DataOK
<1>2. q \in {"ok", "notready", "error"}
  BY DEF Status
<1>3. Received(c) = conn[c] \/ (~IsCgi(conn[c]) /\ Received(c) = [k EXCEPT !.status = q])
  BY DEF Received
<1> HIDE DEF q
<1>4. CASE Received(c) = conn[c]
  BY <1>1, <1>4
<1>5. CASE ~IsCgi(conn[c]) /\ Received(c) = [k EXCEPT !.status = q]
  BY <1>1, <1>2, <1>5 DEF ConnType
<1> QED BY <1>3, <1>4, <1>5

LEMMA ResetFields ==
  ASSUME NEW k \in ConnType
  PROVE  /\ Reset(k) \in ConnType
         /\ Reset(k).gone = k.gone /\ Reset(k).req = "none" /\ Reset(k).sent = 0
         /\ Reset(k).rcvd = 0 /\ Reset(k).job = NULL /\ Reset(k).finished = FALSE
<1>1. /\ NewConn.req = "none" /\ NewConn.sent = 0 /\ NewConn.rcvd = 0
      /\ NewConn.job = NULL /\ NewConn.finished = FALSE
  BY DEF NewConn
<1>2. k.gone \in BOOLEAN /\ k.status \in {"ok", "notready", "error"}
  BY DEF ConnType
<1> QED BY <1>1, <1>2, NewTypes DEF Reset, ConnType

LEMMA ParseType ==
  ASSUME NEW j \in JobType, NEW t \in {"full", "partial", "e500", "e504"}
  PROVE  Parse(j, t) \in {"full", "partial", "e500", "e504", "mixed"}
  BY DEF Parse

LEMMA TimedOutFields ==
  ASSUME NEW j \in JobType
  PROVE  /\ TimedOut(j) \in JobType /\ TimedOut(j).owner = j.owner /\ TimedOut(j).left = j.left
         /\ TimedOut(j).closing = TRUE /\ TimedOut(j).body # "none"
<1> DEFINE b == Parse(j, "e504")
           s == IF j.script = "running" THEN "killed" ELSE j.script
<1>1. b \in {"full", "partial", "e500", "e504", "mixed"}
  BY ParseType
<1>2. s \in {"running", "exited", "failed", "crashed", "reaped", "killed"}
  BY DEF JobType
<1>3. TimedOut(j) = [j EXCEPT !.body = b, !.closing = TRUE, !.script = s]
  BY DEF TimedOut
<1> HIDE DEF b, s
<1> QED BY <1>1, <1>2, <1>3 DEF JobType

LEMMA AheadFields ==
  ASSUME NEW j \in JobType, NEW i \in Ahead(j)
  PROVE  /\ i \in JobType /\ i.owner = j.owner /\ i.closing = j.closing /\ i.body = j.body
         /\ i.left = j.left
  BY DEF Ahead, JobType

\* What JobRead() leaves of a job, when it goes on and when it is over.
ReadJob(g)  == [job[g] EXCEPT !.got = job[g].written]
OverJob(j, late) ==
  [j EXCEPT !.expired = late, !.closing = TRUE, !.body = Parse(j, Output(j)),
            !.script = IF Ended(j) THEN "reaped" ELSE j.script]

LEMMA ReadFields ==
  ASSUME DataOK, NEW g \in Ctx, NEW j \in Ahead(ReadJob(g))
  PROVE  /\ j \in JobType /\ j.owner = job[g].owner /\ j.closing = job[g].closing
         /\ j.body = job[g].body /\ j.left = job[g].left
<1>1. job[g] \in JobType
  BY DEF DataOK
<1>2. /\ ReadJob(g) \in JobType /\ ReadJob(g).owner = job[g].owner
      /\ ReadJob(g).closing = job[g].closing /\ ReadJob(g).body = job[g].body
      /\ ReadJob(g).left = job[g].left
  BY <1>1 DEF ReadJob, JobType
<1> QED BY <1>2, AheadFields

LEMMA OverFields ==
  ASSUME NEW j \in JobType, NEW late \in BOOLEAN
  PROVE  /\ OverJob(j, late) \in JobType /\ OverJob(j, late).owner = j.owner
         /\ OverJob(j, late).left = j.left /\ OverJob(j, late).closing = TRUE /\ OverJob(j, late).body # "none"
<1> DEFINE b == Parse(j, Output(j))
           s == IF Ended(j) THEN "reaped" ELSE j.script
<1>1. Output(j) \in {"full", "partial", "e500"}
  BY DEF Output
<1>2. b \in {"full", "partial", "e500", "e504", "mixed"}
  BY <1>1, ParseType
<1>3. s \in {"running", "exited", "failed", "crashed", "reaped", "killed"}
  BY DEF JobType
<1>4. OverJob(j, late) = [j EXCEPT !.expired = late, !.closing = TRUE, !.body = b, !.script = s]
  BY DEF OverJob
<1> HIDE DEF b, s
<1> QED BY <1>2, <1>3, <1>4 DEF JobType

\* The two ways JobRead() ends.
LEMMA JobReadCases ==
  ASSUME NEW g, JobRead(g)
  PROVE  \E j \in Ahead(ReadJob(g)), late \in BOOLEAN :
           \/ /\ job' = [job EXCEPT ![g] = OverJob(j, late)]
              /\ MarkFinished(g)
              /\ Unregister(g)
           \/ /\ job' = [job EXCEPT ![g] = j]
              /\ UNCHANGED <<table, conn>>
<1>1. PICK j \in Ahead(ReadJob(g)), late \in BOOLEAN :
        IF Ended(j) \/ late
        THEN /\ job' = [job EXCEPT ![g] = OverJob(j, late)]
             /\ MarkFinished(g)
             /\ Unregister(g)
        ELSE /\ job' = [job EXCEPT ![g] = j]
             /\ UNCHANGED <<table, conn>>
  BY DEF JobRead, ReadJob, OverJob
<1> QED BY <1>1

LEMMA UnregisterTypes ==
  ASSUME DataOK, NEW c \in Ctx, Unregister(c)
  PROVE  registered' \subseteq Ctx /\ closed' \subseteq Ctx /\ size' \in Int
  BY DEF DataOK, Unregister, table

LEMMA FinishFields ==
  ASSUME NEW k \in ConnType, NEW j \in JobType
  PROVE  LET f == Finish(k, j)
         IN  /\ f \in ConnType /\ f.gone = k.gone /\ f.req = k.req /\ f.sent = k.sent
             /\ f.rcvd = k.rcvd /\ f.job = k.job /\ f.closing = k.closing
             /\ f.finished = TRUE /\ f.misled = (k.misled \/ j.left)
<1>1. k.misled \in BOOLEAN /\ j.left \in BOOLEAN
  BY DEF ConnType, JobType
<1> QED BY <1>1 DEF ConnType, Finish

\* IOCGIHandler changes nothing in a client but the flag, and only its owner's.
LEMMA MarkFields ==
  ASSUME DataOK, NEW g \in Ctx, MarkFinished(g)
  PROVE  /\ conn' \in [Ctx -> ConnType]
         /\ \A d \in Ctx :
              /\ conn'[d].gone = conn[d].gone /\ conn'[d].req = conn[d].req
              /\ conn'[d].sent = conn[d].sent /\ conn'[d].rcvd = conn[d].rcvd
              /\ conn'[d].job = conn[d].job /\ conn'[d].closing = conn[d].closing
              /\ d # job[g].owner => conn'[d] = conn[d]
              /\ d = job[g].owner /\ d \in Clients =>
                   conn'[d].misled = (conn[d].misled \/ job[g].left)
<1> DEFINE o == job[g].owner
<1>0. job[g] \in JobType /\ \A d \in Ctx : conn[d] \in ConnType
  BY DEF DataOK
<1>1. CASE role[o] # "client"
  <2>1. conn' = conn /\ o \notin Clients
    BY <1>1 DEF MarkFinished, Clients
  <2> QED BY <2>1 DEF DataOK
<1>2. CASE role[o] = "client"
  <2>1. conn' = [d \in Ctx |-> IF d = o THEN Finish(conn[d], job[g]) ELSE conn[d]]
    BY <1>2 DEF MarkFinished, DataOK
  <2>2. ASSUME NEW d \in Ctx
        PROVE  /\ conn'[d] \in ConnType
               /\ conn'[d].gone = conn[d].gone /\ conn'[d].req = conn[d].req
               /\ conn'[d].sent = conn[d].sent /\ conn'[d].rcvd = conn[d].rcvd
               /\ conn'[d].job = conn[d].job /\ conn'[d].closing = conn[d].closing
               /\ d # o => conn'[d] = conn[d]
               /\ d = o => conn'[d].misled = (conn[d].misled \/ job[g].left)
    <3>2. conn'[d] = IF d = o THEN Finish(conn[d], job[g]) ELSE conn[d]
      BY <2>1
    <3>3. CASE d = o
      <4> DEFINE f == Finish(conn[d], job[g])
      <4>1. /\ f \in ConnType /\ f.gone = conn[d].gone /\ f.req = conn[d].req
            /\ f.sent = conn[d].sent /\ f.rcvd = conn[d].rcvd /\ f.job = conn[d].job
            /\ f.closing = conn[d].closing /\ f.misled = (conn[d].misled \/ job[g].left)
        BY <1>0, FinishFields
      <4>2. conn'[d] = f
        BY <3>2, <3>3
      <4> HIDE DEF f, o
      <4> QED BY <3>3, <4>1, <4>2, Zenon
    <3>4. CASE d # o
      BY <1>0, <3>2, <3>4
    <3> QED BY <3>3, <3>4
  <2> HIDE DEF o
  <2>3. conn' \in [Ctx -> ConnType]
    BY <2>1, <2>2
  <2> QED BY <2>2, <2>3 DEF o
<1> QED BY <1>1, <1>2

\* One connection, one job, one event change: the types of the rest are kept.
LEMMA ConnUpdate ==
  ASSUME DataOK, NEW c \in Ctx, NEW k \in ConnType, conn' = [conn EXCEPT ![c] = k]
  PROVE  conn' \in [Ctx -> ConnType]
  BY DEF DataOK

LEMMA JobUpdate ==
  ASSUME DataOK, NEW c \in Ctx, NEW j \in JobType, job' = [job EXCEPT ![c] = j]
  PROVE  job' \in [Ctx -> JobType]
  BY DEF DataOK

LEMMA HandledTypes ==
  ASSUME DataOK, NEW c \in Ctx, Handled(c)
  PROVE  batch' \in [Ctx -> SUBSET {"in", "out", "hup"}]
  BY DEF DataOK, Handled

LEMMA UnlinkTypes ==
  ASSUME DataOK, NEW drop \in [Ctx -> 0..2], Unlink(drop)
  PROVE  refs' \in [Ctx -> Int] /\ role' \in [Ctx -> {"client", "job", "free"}]
  BY DEF DataOK, Unlink

LEMMA DroppedType == Dropped \in [Ctx -> 0..2]
<1> DEFINE a(c) == IF c \in closed THEN 1 ELSE 0
           b(c) == IF \E d \in Doomed : conn[d].job = c THEN 1 ELSE 0
<1>1. Dropped = [c \in Ctx |-> a(c) + b(c)]
  BY DEF Dropped
<1>2. \A c \in Ctx : a(c) \in {0, 1} /\ b(c) \in {0, 1}
  OBVIOUS
<1> HIDE DEF a, b
<1>3. \A c \in Ctx : a(c) + b(c) \in 0..2
  BY <1>2
<1> QED BY <1>1, <1>3

LEMMA RegisterTypes ==
  ASSUME DataOK, NEW c \in Ctx, NEW w \in {"client", "job"}, NEW n \in 1..2, Register(c, w, n)
  PROVE  /\ refs' \in [Ctx -> Int] /\ role' \in [Ctx -> {"client", "job", "free"}]
         /\ registered' \subseteq Ctx /\ closed' \subseteq Ctx /\ size' \in Int
  BY DEF DataOK, Register

LEMMA FlagsType == \A c \in Ctx : Flags(c) \subseteq {"in", "out", "hup"}
  BY DEF Flags

\* The fields of a connection or a job that a peer, a script or the clock assigns.
Sends(k, r, n) == [k EXCEPT !.req = r, !.sent = n]

LEMMA SendFields ==
  ASSUME NEW k \in ConnType, NEW r \in Requests, NEW n \in {1, 2}
  PROVE  /\ Sends(k, r, n) \in ConnType /\ Sends(k, r, n).req = r /\ Sends(k, r, n).sent = n
         /\ Sends(k, r, n).rcvd = k.rcvd /\ Sends(k, r, n).job = k.job
         /\ Sends(k, r, n).gone = k.gone /\ Sends(k, r, n).finished = k.finished
         /\ Sends(k, r, n).misled = k.misled
<1>1. n \in 0..2
  OBVIOUS
<1>2. r \in Requests \cup {"none"}
  OBVIOUS
<1> QED BY <1>1, <1>2 DEF ConnType, Sends

LEMMA GoneFields ==
  ASSUME NEW k \in ConnType
  PROVE  LET f == [k EXCEPT !.gone = TRUE]
         IN  /\ f \in ConnType /\ f.req = k.req /\ f.sent = k.sent /\ f.rcvd = k.rcvd
             /\ f.job = k.job /\ f.gone = TRUE /\ f.finished = k.finished /\ f.misled = k.misled
  BY DEF ConnType

LEMMA ClosingFields ==
  ASSUME NEW k \in ConnType
  PROVE  LET f == [k EXCEPT !.closing = TRUE]
         IN  /\ f \in ConnType /\ f.req = k.req /\ f.sent = k.sent /\ f.rcvd = k.rcvd
             /\ f.job = k.job /\ f.gone = k.gone /\ f.finished = k.finished /\ f.misled = k.misled
  BY DEF ConnType

LEMMA StartFields ==
  ASSUME NEW k \in ConnType, NEW g \in Ctx
  PROVE  LET f == [k EXCEPT !.job = g]
         IN  /\ f \in ConnType /\ f.req = k.req /\ f.sent = k.sent /\ f.rcvd = k.rcvd
             /\ f.job = g /\ f.gone = k.gone /\ f.finished = k.finished /\ f.misled = k.misled
  BY DEF ConnType

LEMMA ExpiredFields ==
  ASSUME NEW j \in JobType
  PROVE  LET f == [j EXCEPT !.expired = TRUE]
         IN  /\ f \in JobType /\ f.owner = j.owner /\ f.closing = j.closing /\ f.body = j.body
             /\ f.left = j.left
  BY DEF JobType

-----------------------------------------------------------------------------
(* What each action does to the two tables of records, in one record's terms. *)

LEMMA HangupEffect ==
  ASSUME DataOK, NEW c \in Ctx, Hangup(c)
  PROVE  \E k \in ConnType :
           /\ conn' = [conn EXCEPT ![c] = k]
           /\ k.req = conn[c].req /\ k.sent = conn[c].sent /\ k.rcvd = conn[c].rcvd
           /\ k.job = conn[c].job /\ k.gone = conn[c].gone /\ k.finished = conn[c].finished
           /\ k.misled = conn[c].misled
<1>1. conn[c] \in ConnType
  BY DEF DataOK
<1>2. conn' = [conn EXCEPT ![c] = [conn[c] EXCEPT !.closing = TRUE]]
  BY DEF Hangup, DataOK
<1> QED BY <1>1, <1>2, ClosingFields

LEMMA CloseEffect ==
  ASSUME DataOK, NEW c \in Ctx, AnswerAndClose(c)
  PROVE  \E k \in ConnType :
           /\ conn' = [conn EXCEPT ![c] = k]
           /\ k.req = conn[c].req /\ k.sent = conn[c].sent /\ k.rcvd \in {conn[c].rcvd, conn[c].sent}
           /\ k.job = conn[c].job /\ k.gone = conn[c].gone /\ k.finished = conn[c].finished
           /\ k.misled = conn[c].misled
<1> DEFINE k == Received(c)
<1>1. /\ k \in ConnType /\ k.req = conn[c].req /\ k.sent = conn[c].sent
      /\ k.rcvd \in {conn[c].rcvd, conn[c].sent} /\ k.job = conn[c].job
      /\ k.gone = conn[c].gone /\ k.finished = conn[c].finished /\ k.misled = conn[c].misled
  BY ReceivedFields
<1>2. conn' = [conn EXCEPT ![c] = [k EXCEPT !.closing = TRUE]]
  BY DEF AnswerAndClose
<1> HIDE DEF k
<1> DEFINE f == [k EXCEPT !.closing = TRUE]
<1>3. /\ f \in ConnType /\ f.req = k.req /\ f.sent = k.sent /\ f.rcvd = k.rcvd
      /\ f.job = k.job /\ f.gone = k.gone /\ f.finished = k.finished /\ f.misled = k.misled
  BY <1>1, ClosingFields
<1> HIDE DEF f
<1>4. conn' = [conn EXCEPT ![c] = f]
  BY <1>2 DEF f
<1> QED BY <1>1, <1>3, <1>4

LEMMA SendEffect ==
  ASSUME DataOK, NEW c \in Ctx, Send(c)
  PROVE  \E k \in ConnType :
           /\ conn' = [conn EXCEPT ![c] = k]
           /\ conn[c].sent < k.sent /\ k.rcvd = conn[c].rcvd
           /\ conn[c].sent > 0 => k.req = conn[c].req
           /\ k.job = conn[c].job /\ k.gone = conn[c].gone /\ k.finished = conn[c].finished
           /\ k.misled = conn[c].misled
<1>1. conn[c] \in ConnType
  BY DEF DataOK
<1>2. PICK r \in Requests, n \in {1, 2} :
        /\ conn[c].sent < n
        /\ conn[c].sent > 0 => r = conn[c].req
        /\ conn' = [conn EXCEPT ![c] = [@ EXCEPT !.req = r, !.sent = n]]
  BY DEF Send
<1>3. conn' = [conn EXCEPT ![c] = [conn[c] EXCEPT !.req = r, !.sent = n]]
  <2>1. DOMAIN conn = Ctx
    BY DEF DataOK
  <2>2. DOMAIN conn' = Ctx
    BY <1>2, <2>1
  <2>3. \A d \in Ctx : d # c => conn'[d] = conn[d]
    BY <1>2, <2>1
  <2>4. conn'[c] = [conn[c] EXCEPT !.req = r, !.sent = n]
    BY <1>2, <2>1
  <2> QED BY <1>2, <2>1, <2>2, <2>3, <2>4
<1>4. /\ Sends(conn[c], r, n) \in ConnType /\ Sends(conn[c], r, n).req = r
      /\ Sends(conn[c], r, n).sent = n /\ Sends(conn[c], r, n).rcvd = conn[c].rcvd
      /\ Sends(conn[c], r, n).job = conn[c].job /\ Sends(conn[c], r, n).gone = conn[c].gone
      /\ Sends(conn[c], r, n).finished = conn[c].finished
      /\ Sends(conn[c], r, n).misled = conn[c].misled
  BY <1>1, SendFields
<1>5. conn' = [conn EXCEPT ![c] = Sends(conn[c], r, n)]
  BY <1>3 DEF Sends
<1> QED BY <1>2, <1>4, <1>5

LEMMA LeaveEffect ==
  ASSUME DataOK, NEW c \in Ctx, Leave(c)
  PROVE  \E k \in ConnType :
           /\ conn' = [conn EXCEPT ![c] = k]
           /\ k.req = conn[c].req /\ k.sent = conn[c].sent /\ k.rcvd = conn[c].rcvd
           /\ k.job = conn[c].job /\ k.gone /\ k.finished = conn[c].finished
           /\ k.misled = conn[c].misled
<1>1. conn[c] \in ConnType
  BY DEF DataOK
<1>2. conn' = [conn EXCEPT ![c] = [conn[c] EXCEPT !.gone = TRUE]]
  BY DEF Leave, DataOK
<1> QED BY <1>1, <1>2, GoneFields

LEMMA ExpireEffect ==
  ASSUME DataOK, NEW g \in Ctx, Expire(g)
  PROVE  \E j \in JobType : /\ job' = [job EXCEPT ![g] = j]
                           /\ j.owner = job[g].owner /\ j.closing = job[g].closing
                           /\ j.body = job[g].body /\ j.left = job[g].left
<1>1. job[g] \in JobType
  BY DEF DataOK
<1>2. job' = [job EXCEPT ![g] = [job[g] EXCEPT !.expired = TRUE]]
  BY DEF Expire, DataOK
<1> QED BY <1>1, <1>2, ExpiredFields

LEMMA RunEffect ==
  ASSUME DataOK, NEW g \in Ctx, Run(g)
  PROVE  \E j \in JobType : /\ job' = [job EXCEPT ![g] = j]
                           /\ j.owner = job[g].owner /\ j.closing = job[g].closing
                           /\ j.body = job[g].body /\ j.left = job[g].left
<1>1. job[g] \in JobType
  BY DEF DataOK
<1> QED BY <1>1, AheadFields DEF Run

\* A handler of a job, but for JobStale, changes its record and perhaps its client's flag.
LEMMA TimeoutEffect ==
  ASSUME DataOK, NEW g \in Ctx, JobTimeout(g)
  PROVE  \E j \in JobType : /\ job' = [job EXCEPT ![g] = j]
                           /\ j.owner = job[g].owner /\ j.left = job[g].left
                           /\ j.closing /\ j.body # "none"
<1>1. job[g] \in JobType
  BY DEF DataOK
<1> QED BY <1>1, TimedOutFields DEF JobTimeout

LEMMA JobReadEffect ==
  ASSUME DataOK, NEW g \in Ctx, JobRead(g)
  PROVE  \E j \in JobType :
           /\ job' = [job EXCEPT ![g] = j]
           /\ j.owner = job[g].owner /\ j.left = job[g].left
           /\ \/ MarkFinished(g) /\ Unregister(g) /\ j.closing /\ j.body # "none"
              \/ UNCHANGED <<table, conn>> /\ j.closing = job[g].closing /\ j.body = job[g].body
<1>1. PICK i \in Ahead(ReadJob(g)), late \in BOOLEAN :
        \/ /\ job' = [job EXCEPT ![g] = OverJob(i, late)]
           /\ MarkFinished(g)
           /\ Unregister(g)
        \/ /\ job' = [job EXCEPT ![g] = i]
           /\ UNCHANGED <<table, conn>>
  BY JobReadCases
<1>2. /\ i \in JobType /\ i.owner = job[g].owner /\ i.closing = job[g].closing
      /\ i.body = job[g].body /\ i.left = job[g].left
  BY ReadFields
<1>3. /\ OverJob(i, late) \in JobType /\ OverJob(i, late).owner = i.owner
      /\ OverJob(i, late).left = i.left
      /\ OverJob(i, late).closing = TRUE /\ OverJob(i, late).body # "none"
  BY <1>2, OverFields
<1>4. CASE job' = [job EXCEPT ![g] = OverJob(i, late)] /\ MarkFinished(g) /\ Unregister(g)
  BY <1>2, <1>3, <1>4
<1>5. CASE job' = [job EXCEPT ![g] = i] /\ UNCHANGED <<table, conn>>
  BY <1>2, <1>5
<1> QED BY <1>1, <1>4, <1>5

LEMMA LeftFields ==
  ASSUME DataOK, NEW g \in Ctx
  PROVE  /\ LeftAlone(g) \in JobType /\ LeftAlone(g).owner = job[g].owner
         /\ LeftAlone(g).closing = job[g].closing /\ LeftAlone(g).body = job[g].body
         /\ LeftAlone(g).left = (job[g].left \/ \E d \in Doomed : conn[d].gone /\ conn[d].job = g)
<1> DEFINE b == \E d \in Doomed : conn[d].gone /\ conn[d].job = g
<1>1. job[g] \in JobType
  BY DEF DataOK
<1>2. LeftAlone(g) = [job[g] EXCEPT !.left = @ \/ b]
  BY DEF LeftAlone
<1>3. job[g].left \in BOOLEAN /\ b \in BOOLEAN
  BY <1>1, Zenon DEF JobType
<1> HIDE DEF b
<1>4. LeftAlone(g) \in JobType
  BY <1>1, <1>2, <1>3 DEF JobType
<1>5. LeftAlone(g).left = (job[g].left \/ b)
  BY <1>1, <1>2 DEF JobType
<1>6. /\ LeftAlone(g).owner = job[g].owner
      /\ LeftAlone(g).closing = job[g].closing /\ LeftAlone(g).body = job[g].body
  BY <1>1, <1>2 DEF JobType
<1> QED BY <1>4, <1>5, <1>6 DEF b

LEMMA WaitTypes ==
  ASSUME DataOK, WaitEvent
  PROVE  /\ refs' = [c \in Ctx |-> refs[c] - Dropped[c]]
         /\ refs' \in [Ctx -> Int] /\ role' \in [Ctx -> {"client", "job", "free"}]
         /\ conn' \in [Ctx -> ConnType] /\ job' \in [Ctx -> JobType]
         /\ batch' \in [Ctx -> SUBSET {"in", "out", "hup"}]
<1>1. refs' = [c \in Ctx |-> refs[c] - Dropped[c]]
  BY DEF WaitEvent, Unlink
<1>2. refs' \in [Ctx -> Int] /\ role' \in [Ctx -> {"client", "job", "free"}]
  BY DroppedType, UnlinkTypes DEF WaitEvent
<1>3. conn' \in [Ctx -> ConnType]
  BY NewTypes DEF WaitEvent, DataOK
<1>4. job' \in [Ctx -> JobType]
  BY NewTypes, LeftFields DEF WaitEvent
<1>5. batch' \in [Ctx -> SUBSET {"in", "out", "hup"}]
  <2>1. batch' = [c \in Ctx |-> IF c \in registered THEN Flags(c) ELSE {}]
    BY DEF WaitEvent
  <2>2. \A c \in Ctx : Flags(c) \in SUBSET {"in", "out", "hup"}
    BY FlagsType
  <2> QED BY <2>1, <2>2
<1> QED BY <1>1, <1>2, <1>3, <1>4, <1>5

\* StartScript() for the address it picks.
StartAt(c, g) ==
  /\ g \in Free
  /\ Register(g, "job", 2)
  /\ job' = [job EXCEPT ![g] = NewJob(c)]
  /\ conn' = [conn EXCEPT ![c] = [Received(c) EXCEPT !.job = g]]

LEMMA StartEffect ==
  ASSUME DataOK, NEW c \in Ctx, NEW g \in Ctx, StartAt(c, g)
  PROVE  \E k \in ConnType :
           /\ conn' = [conn EXCEPT ![c] = k]
           /\ k.req = conn[c].req /\ k.sent = conn[c].sent /\ k.rcvd = Received(c).rcvd
           /\ k.job = g /\ k.gone = conn[c].gone /\ k.finished = conn[c].finished
           /\ k.misled = conn[c].misled
<1> DEFINE k == Received(c)
           f == [k EXCEPT !.job = g]
<1>1. /\ k \in ConnType /\ k.req = conn[c].req /\ k.sent = conn[c].sent
      /\ k.gone = conn[c].gone /\ k.finished = conn[c].finished /\ k.misled = conn[c].misled
  BY ReceivedFields
<1>2. conn' = [conn EXCEPT ![c] = f]
  BY DEF StartAt
<1>3. k.rcvd = Received(c).rcvd
  OBVIOUS
<1> HIDE DEF k
<1>4. /\ f \in ConnType /\ f.req = k.req /\ f.sent = k.sent /\ f.rcvd = k.rcvd
      /\ f.job = g /\ f.gone = k.gone /\ f.finished = k.finished /\ f.misled = k.misled
  BY <1>1, StartFields
<1> HIDE DEF f
<1> QED BY <1>1, <1>2, <1>3, <1>4

\* AnswerScript() in the terms of the client's record and of its job g; of the other
\* jobs it may end the scripts.
Released(c, g) ==
  /\ job' \in [Ctx -> JobType]
  /\ refs[g] # 1 => /\ job'[g].owner = job[g].owner
                    /\ job'[g].left = (job[g].left \/ conn[c].misled)
                    /\ \/ /\ ~job[g].expired /\ UNCHANGED table
                          /\ job'[g].closing = job[g].closing /\ job'[g].body = job[g].body
                       \/ Unregister(g) /\ job'[g].closing /\ job'[g].body # "none"
  /\ \A d \in Ctx \ {g} :
       /\ job'[d].owner = job[d].owner /\ job'[d].left = job[d].left
       /\ job'[d].closing = job[d].closing /\ job'[d].body = job[d].body

Answered(c, g, k) ==
  /\ g = conn[c].job
  /\ conn' = [conn EXCEPT ![c] = k]
  /\ k.gone = conn[c].gone /\ k.req = "none" /\ k.sent = 0 /\ k.rcvd = 0
  /\ k.job = NULL /\ k.finished = FALSE
  /\ Unregister(g) \/ UNCHANGED table
  /\ refs' = [d \in Ctx |-> refs[d] - (IF d = g THEN 1 ELSE 0)]
  /\ role' = [d \in Ctx |-> IF refs[d] = (IF d = g THEN 1 ELSE 0) THEN "free" ELSE role[d]]
  /\ Released(c, g)

LEMMA SurvivorFields ==
  ASSUME DataOK, NEW g \in Ctx
  PROVE  /\ Survivors(g) \in [Ctx -> JobType]
         /\ \A d \in Ctx :
              /\ Survivors(g)[d].owner = job[d].owner /\ Survivors(g)[d].left = job[d].left
              /\ Survivors(g)[d].closing = job[d].closing /\ Survivors(g)[d].body = job[d].body
<1> DEFINE dead(d) == [job[d] EXCEPT !.script = "crashed"]
           hit(d)  == role[d] = "job" /\ job[d].script = "running"
<1>1. ASSUME NEW d \in Ctx
      PROVE  /\ dead(d) \in JobType /\ dead(d).owner = job[d].owner /\ dead(d).left = job[d].left
             /\ dead(d).closing = job[d].closing /\ dead(d).body = job[d].body
  <2>1. job[d] \in JobType
    BY DEF DataOK
  <2> QED BY <2>1 DEF JobType
<1>2. CASE job[g].body # "e504"
  BY <1>2 DEF Survivors, DataOK
<1>3. CASE job[g].body = "e504"
  <2>1. Survivors(g) = [d \in Ctx |-> IF hit(d) THEN dead(d) ELSE job[d]]
    BY <1>3 DEF Survivors
  <2>2. \A d \in Ctx : job[d] \in JobType
    BY DEF DataOK
  <2> HIDE DEF dead, hit
  <2> QED BY <1>1, <2>1, <2>2
<1> QED BY <1>2, <1>3

LEMMA LetFields ==
  ASSUME DataOK, NEW c \in Ctx, NEW g \in Ctx
  PROVE  /\ Let(c, g) \in JobType /\ Let(c, g).owner = job[g].owner
         /\ Let(c, g).closing = job[g].closing /\ Let(c, g).body = job[g].body
         /\ Let(c, g).left = (job[g].left \/ conn[c].misled)
<1>1. job[g] \in JobType /\ conn[c].misled \in BOOLEAN
  BY DEF DataOK, ConnType
<1>2. job[g].left \in BOOLEAN
  BY <1>1 DEF JobType
<1>3. Let(c, g) = [job[g] EXCEPT !.left = @ \/ conn[c].misled]
  BY DEF Let
<1> QED BY <1>1, <1>2, <1>3 DEF JobType

LEMMA AnswerEffect ==
  ASSUME DataOK, NEW c \in Ctx, AnswerScript(c)
  PROVE  \E g \in Ctx, k \in ConnType : Answered(c, g, k)
<1> DEFINE k == Received(c)
           g == k.job
           drop == [d \in Ctx |-> IF d = g THEN 1 ELSE 0]
           late == job[g].expired
           l == Let(c, g)
           t == TimedOut(l)
           j == IF Gone(g, drop) THEN NewJob(NULL) ELSE IF late THEN t ELSE l
           base == IF late THEN Survivors(g) ELSE job
<1>1. k \in ConnType /\ k.job = conn[c].job /\ k.gone = conn[c].gone
  BY ReceivedFields
<1>2. g # NULL /\ g \in Ctx
  BY <1>1 DEF AnswerScript, ConnType
<1>3. /\ l \in JobType /\ l.owner = job[g].owner /\ l.closing = job[g].closing
      /\ l.body = job[g].body /\ l.left = (job[g].left \/ conn[c].misled)
  BY <1>2, LetFields
<1>4. Gone(g, drop) <=> refs[g] = 1
  BY <1>2 DEF Gone
<1>5. t \in JobType /\ t.owner = l.owner /\ t.left = l.left /\ t.closing = TRUE /\ t.body # "none"
  <2> HIDE DEF l
  <2> QED BY <1>3, TimedOutFields
<1>6. /\ base \in [Ctx -> JobType]
      /\ \A d \in Ctx : /\ base[d].owner = job[d].owner /\ base[d].left = job[d].left
                        /\ base[d].closing = job[d].closing /\ base[d].body = job[d].body
  <2>1. CASE late
    BY <1>2, <2>1, SurvivorFields
  <2>2. CASE ~late
    BY <2>2 DEF DataOK
  <2> QED BY <2>1, <2>2
<1>7. job' = [base EXCEPT ![g] = j]
  BY DEF AnswerScript
<1>8. conn' = [conn EXCEPT ![c] = Reset(k)]
  BY DEF AnswerScript
<1>9. /\ refs' = [d \in Ctx |-> refs[d] - (IF d = g THEN 1 ELSE 0)]
      /\ role' = [d \in Ctx |-> IF refs[d] = (IF d = g THEN 1 ELSE 0) THEN "free" ELSE role[d]]
  BY DEF AnswerScript, Unlink
<1>10. IF late THEN Unregister(g) ELSE UNCHANGED table
  BY DEF AnswerScript
<1>11. /\ Reset(k) \in ConnType /\ Reset(k).gone = k.gone /\ Reset(k).req = "none"
       /\ Reset(k).sent = 0 /\ Reset(k).rcvd = 0 /\ Reset(k).job = NULL /\ Reset(k).finished = FALSE
  BY <1>1, ResetFields
<1> DEFINE q == Reset(k)
<1>14. /\ q \in ConnType /\ q.gone = conn[c].gone /\ q.req = "none"
       /\ q.sent = 0 /\ q.rcvd = 0 /\ q.job = NULL /\ q.finished = FALSE
       /\ conn' = [conn EXCEPT ![c] = q]
  BY <1>1, <1>8, <1>11
<1>15. g = conn[c].job
  BY <1>1
<1>16. NewJob(NULL) \in JobType
  BY NewTypes
<1>17. j = IF refs[g] = 1 THEN NewJob(NULL) ELSE IF late THEN t ELSE l
  BY <1>4
<1> HIDE DEF q, j, late, drop, g, k, l, t, base
<1>18. j \in JobType
  BY <1>3, <1>5, <1>16, <1>17
<1>19. job' \in [Ctx -> JobType] /\ job'[g] = j /\ \A d \in Ctx \ {g} : job'[d] = base[d]
  BY <1>2, <1>6, <1>7, <1>18
<1>20. refs[g] # 1 => \/ /\ ~job[g].expired /\ UNCHANGED table
                         /\ j.closing = job[g].closing /\ j.body = job[g].body
                      \/ Unregister(g) /\ j.closing /\ j.body # "none"
  <2>1. CASE late
    BY <2>1, <1>5, <1>10, <1>17
  <2>2. CASE ~late
    BY <2>2, <1>3, <1>10, <1>17 DEF late
  <2> QED BY <2>1, <2>2
<1>21. refs[g] # 1 => j.owner = job[g].owner /\ j.left = (job[g].left \/ conn[c].misled)
  BY <1>3, <1>5, <1>17
<1>22. Released(c, g)
  BY <1>6, <1>19, <1>20, <1>21 DEF Released
<1>23. Unregister(g) \/ UNCHANGED table
  BY <1>10
<1>24. Answered(c, g, q)
  BY <1>9, <1>14, <1>15, <1>22, <1>23, Zenon DEF Answered
<1> QED BY <1>2, <1>14, <1>24

-----------------------------------------------------------------------------
LEMMA DataInit == Init => DataOK
<1> SUFFICES ASSUME Init PROVE DataOK
  OBVIOUS
<1>1. NewConn \in ConnType /\ NewJob(NULL) \in JobType
  BY NewTypes
<1>2. conn \in [Ctx -> ConnType] /\ job \in [Ctx -> JobType]
  BY <1>1 DEF Init
<1>3. batch \in [Ctx -> SUBSET {"in", "out", "hup"}]
  BY DEF Init
<1>4. role \in [Ctx -> {"client", "job", "free"}] /\ refs \in [Ctx -> Int]
  BY DEF Init
<1>5. registered \subseteq Ctx /\ closed \subseteq Ctx /\ size \in Int
  BY DEF Init
<1>6. up \in BOOLEAN /\ backlog \in BOOLEAN /\ listening \in BOOLEAN
  BY Zenon DEF Init
<1> QED BY <1>2, <1>3, <1>4, <1>5, <1>6 DEF DataOK

LEMMA HandleData ==
  ASSUME DataOK, NEW c \in Ctx, Handle(c)
  PROVE  DataOK'
<1>1. CASE Hangup(c)
  <2>1. conn' \in [Ctx -> ConnType]
    BY <1>1, HangupEffect, ConnUpdate
  <2> QED BY <1>1, <2>1, UnregisterTypes, HandledTypes DEF Hangup, DataOK, heap, wire
<1>2. CASE ReadOnly(c)
  <2>1. conn' \in [Ctx -> ConnType]
    BY <1>2, ReceivedFields, ConnUpdate DEF ReadOnly
  <2> QED BY <1>2, <2>1, HandledTypes DEF ReadOnly, DataOK, heap, wire, table
<1>3. CASE AnswerPage(c)
  <2>1. conn' \in [Ctx -> ConnType]
    BY <1>3, ReceivedFields, ResetFields, ConnUpdate DEF AnswerPage
  <2> QED BY <1>3, <2>1, HandledTypes DEF AnswerPage, DataOK, heap, wire, table
<1>4. CASE AnswerAndClose(c)
  <2>1. conn' \in [Ctx -> ConnType]
    BY <1>4, CloseEffect, ConnUpdate
  <2> QED BY <1>4, <2>1, UnregisterTypes, HandledTypes DEF AnswerAndClose, DataOK, heap, wire
<1>5. CASE StartScript(c)
  <2>1. PICK g \in Ctx : StartAt(c, g)
    BY <1>5 DEF StartScript, StartAt, Free
  <2>2. conn' \in [Ctx -> ConnType]
    BY <2>1, StartEffect, ConnUpdate
  <2>3. job' \in [Ctx -> JobType]
    BY <2>1, NewTypes, JobUpdate DEF StartAt
  <2>4. /\ refs' \in [Ctx -> Int] /\ role' \in [Ctx -> {"client", "job", "free"}]
        /\ registered' \subseteq Ctx /\ closed' \subseteq Ctx /\ size' \in Int
    BY <2>1, RegisterTypes DEF StartAt
  <2> QED BY <1>5, <2>2, <2>3, <2>4, HandledTypes DEF StartScript, DataOK, wire
<1>6. CASE StartFails(c) \/ BrokenPipe(c)
  BY <1>6 DEF StartFails, BrokenPipe, DataOK, heap, wire, table
<1>7. CASE AnswerScript(c)
  <2>1. PICK g \in Ctx, k \in ConnType : Answered(c, g, k)
    BY <1>7, AnswerEffect
  <2>2. conn' \in [Ctx -> ConnType]
    BY <2>1, ConnUpdate DEF Answered
  <2>5. job' \in [Ctx -> JobType]
    BY <2>1 DEF Answered, Released
  <2>3. registered' \subseteq Ctx /\ closed' \subseteq Ctx /\ size' \in Int
    BY <2>1, UnregisterTypes DEF table, DataOK, Answered
  <2>4. refs' \in [Ctx -> Int] /\ role' \in [Ctx -> {"client", "job", "free"}]
    BY <2>1 DEF DataOK, Answered
  <2> QED BY <1>7, <2>2, <2>3, <2>4, <2>5, HandledTypes DEF AnswerScript, DataOK, wire
<1>8. CASE JobStale(c)
  BY <1>8, UnregisterTypes, HandledTypes DEF JobStale, DataOK, heap, wire
<1>9. CASE JobTimeout(c)
  <2>1. job' \in [Ctx -> JobType]
    BY <1>9, TimeoutEffect, JobUpdate
  <2>2. conn' \in [Ctx -> ConnType]
    BY <1>9, MarkFields DEF JobTimeout
  <2> QED BY <1>9, <2>1, <2>2, UnregisterTypes, HandledTypes DEF JobTimeout, DataOK, heap, wire
<1>10. CASE JobRead(c)
  <2>1. PICK j \in JobType :
           /\ job' = [job EXCEPT ![c] = j]
           /\ \/ MarkFinished(c) /\ Unregister(c)
              \/ UNCHANGED <<table, conn>>
    BY <1>10, JobReadEffect
  <2>2. job' \in [Ctx -> JobType]
    BY <2>1, JobUpdate
  <2>3. conn' \in [Ctx -> ConnType]
    BY <2>1, MarkFields DEF DataOK
  <2>4. registered' \subseteq Ctx /\ closed' \subseteq Ctx /\ size' \in Int
    BY <2>1, UnregisterTypes DEF table, DataOK
  <2> QED BY <1>10, <2>2, <2>3, <2>4, HandledTypes DEF JobRead, DataOK, heap, wire
<1> QED BY <1>1, <1>2, <1>3, <1>4, <1>5, <1>6, <1>7, <1>8, <1>9, <1>10 DEF Handle

LEMMA DataStep ==
  ASSUME DataOK, [Next]_vars
  PROVE  DataOK'
<1>1. CASE WaitEvent
  BY <1>1, WaitTypes DEF WaitEvent, DataOK
<1>2. CASE Accept
  <2>1. PICK c \in Ctx : Register(c, "client", 1) /\ conn' = [conn EXCEPT ![c] = NewConn]
    BY <1>2 DEF Accept, Free
  <2>2. conn' \in [Ctx -> ConnType]
    BY <2>1, NewTypes, ConnUpdate
  <2>3. /\ refs' \in [Ctx -> Int] /\ role' \in [Ctx -> {"client", "job", "free"}]
        /\ registered' \subseteq Ctx /\ closed' \subseteq Ctx /\ size' \in Int
    BY <2>1, RegisterTypes
  <2> QED BY <1>2, <2>2, <2>3 DEF Accept, DataOK
<1>3. CASE AcceptFails
  BY <1>3 DEF AcceptFails, DataOK, heap, wire, table
<1>4. CASE \E c \in Ctx : Handle(c)
  BY <1>4, HandleData
<1>5. CASE Connect
  BY <1>5 DEF Connect, DataOK, heap, table
<1>6. ASSUME NEW c \in Ctx, Send(c) \/ Leave(c)
      PROVE  DataOK'
  <2>1. conn' \in [Ctx -> ConnType]
    BY <1>6, SendEffect, LeaveEffect, ConnUpdate
  <2> QED BY <1>6, <2>1 DEF Send, Leave, DataOK, heap, wire, table
<1>7. ASSUME NEW c \in Ctx, Run(c) \/ Expire(c)
      PROVE  DataOK'
  <2>1. job' \in [Ctx -> JobType]
    BY <1>7, RunEffect, ExpireEffect, JobUpdate
  <2> QED BY <1>7, <2>1 DEF Run, Expire, DataOK, heap, wire, table
<1>8. CASE UNCHANGED vars
  BY <1>8 DEF DataOK, vars, heap, wire, table
<1> QED BY <1>1, <1>2, <1>3, <1>4, <1>5, <1>6, <1>7, <1>8 DEF Next, Server, World, Terminated

-----------------------------------------------------------------------------
(* The pointers and the table. *)

SizeBounded == size <= Capacity

HeapInv == /\ DataOK
           /\ HeapOK
           /\ RefsAreExact
           /\ SizeIsExact
           /\ SizeBounded
           /\ HeldJobIsOwn
           /\ StartedOK

\* unregister_event() moves an entry, whatever the context, and counts it.
LEMMA UnregisterHeap ==
  ASSUME HeapInv, NEW c \in Ctx, Unregister(c) \/ UNCHANGED table
  PROVE  /\ SizeIsExact' /\ SizeBounded'
         /\ registered' \cap closed' = {}
         /\ \A d \in Ctx : One(d \in registered') + One(d \in closed')
                             = One(d \in registered) + One(d \in closed)
         /\ registered' \cup closed' = registered \cup closed
         /\ \A d \in Ctx : d # c => (d \in registered' <=> d \in registered) /\ (d \in closed' <=> d \in closed)
<1>1. CASE UNCHANGED table
  BY <1>1 DEF HeapInv, HeapOK, table, SizeIsExact, SizeBounded
<1>2. CASE Unregister(c) /\ c \in registered
  <2>1. registered' = registered \ {c} /\ closed' = closed \cup {c} /\ size' = size - 1
    BY <1>2 DEF Unregister
  <2>2. registered \cap closed = {}
    BY DEF HeapInv, HeapOK
  <2>3. IsFiniteSet(registered)
    BY FS_Subset DEF HeapInv, DataOK
  <2>4. Cardinality(registered') = Cardinality(registered) - 1
    BY <1>2, <2>1, <2>3, FS_RemoveElement
  <2>5. Cardinality(registered) \in Nat
    BY <2>3, FS_CardinalityType
  <2>6. SizeIsExact' /\ SizeBounded'
    BY <2>1, <2>4, <2>5 DEF HeapInv, SizeIsExact, SizeBounded, DataOK
  <2>7. registered' \cap closed' = {} /\ registered' \cup closed' = registered \cup closed
    BY <1>2, <2>1, <2>2
  <2>8. \A d \in Ctx : One(d \in registered') + One(d \in closed')
                         = One(d \in registered) + One(d \in closed)
    BY <1>2, <2>1, <2>2 DEF One
  <2> QED BY <2>1, <2>6, <2>7, <2>8
<1>3. CASE Unregister(c) /\ c \notin registered
  BY <1>1, <1>3 DEF Unregister
<1> QED BY <1>1, <1>2, <1>3

\* A step that leaves the heap, who holds what and who owns what as they are.
LEMMA QuietStep ==
  ASSUME HeapInv, DataOK', StartedOK', UNCHANGED heap,
         NEW c \in Ctx, Unregister(c) \/ UNCHANGED table,
         \A d \in Clients : conn'[d].job = conn[d].job,
         \A d \in Ctx : job'[d].owner = job[d].owner,
         \A d \in Ctx : batch'[d] # {} => batch[d] # {}
  PROVE  HeapInv'
<1>1. /\ SizeIsExact' /\ SizeBounded' /\ registered' \cap closed' = {}
      /\ \A d \in Ctx : One(d \in registered') + One(d \in closed')
                          = One(d \in registered) + One(d \in closed)
      /\ registered' \cup closed' = registered \cup closed
  BY UnregisterHeap
<1>2. role' = role /\ refs' = refs /\ Clients' = Clients
  BY DEF heap, Clients
<1>3. \A d \in Ctx : Holders(d)' = Holders(d)
  BY <1>2 DEF Holders
<1>4. RefsAreExact'
  <2> SUFFICES ASSUME NEW d \in Ctx
               PROVE  refs'[d] = One(d \in registered') + One(d \in closed') + One(Holders(d)' # {})
    BY DEF RefsAreExact
  <2>1. refs[d] = One(d \in registered) + One(d \in closed) + One(Holders(d) # {})
    BY DEF HeapInv, RefsAreExact
  <2> QED BY <1>1, <1>2, <1>3, <2>1
<1>5. HeapOK'
  BY <1>1, <1>2 DEF HeapInv, HeapOK
<1>6. HeldJobIsOwn'
  <2> SUFFICES ASSUME NEW d \in Clients, conn[d].job # NULL
               PROVE  role[conn[d].job] = "job" /\ job'[conn[d].job].owner = d
    BY <1>2 DEF HeldJobIsOwn
  <2>1. conn[d].job \in Ctx
    BY DEF HeapInv, DataOK, ConnType, Clients
  <2> QED BY <2>1 DEF HeapInv, HeldJobIsOwn
<1> QED BY <1>1, <1>4, <1>5, <1>6 DEF HeapInv

LEMMA BatchShrinks ==
  ASSUME DataOK, NEW c \in Ctx, Handled(c)
  PROVE  \A d \in Ctx : batch'[d] # {} => batch[d] # {}
  BY DEF Handled, DataOK

LEMMA ConnStarted ==
  ASSUME DataOK, StartedOK, UNCHANGED heap, NEW c \in Ctx, NEW k \in ConnType,
         conn' = [conn EXCEPT ![c] = k],
         c \in Clients => /\ k.rcvd <= k.sent
                          /\ k.job # NULL => k.req \in {"script", "post"} /\ k.rcvd = 2
  PROVE  StartedOK'
<1>1. Clients' = Clients
  BY DEF heap, Clients
<1>2. Clients \subseteq Ctx
  BY DEF Clients
<1> QED BY <1>1, <1>2 DEF StartedOK, DataOK

LEMMA MarkStarted ==
  ASSUME DataOK, StartedOK, UNCHANGED heap, NEW g \in Ctx, MarkFinished(g)
  PROVE  StartedOK'
<1>1. Clients' = Clients /\ Clients \subseteq Ctx
  BY DEF heap, Clients
<1>2. \A d \in Ctx : /\ conn'[d].req = conn[d].req /\ conn'[d].sent = conn[d].sent
                     /\ conn'[d].rcvd = conn[d].rcvd /\ conn'[d].job = conn[d].job
  BY MarkFields
<1> QED BY <1>1, <1>2 DEF StartedOK

\* Reading keeps what StartedOK says of a client.
LEMMA ReceivedStarted ==
  ASSUME HeapInv, NEW c \in Clients
  PROVE  LET k == Received(c)
         IN  /\ k.rcvd <= k.sent /\ k.rcvd \in 0..2
             /\ k.job # NULL => k.req \in {"script", "post"} /\ k.rcvd = 2 /\ IsCgi(k)
<1> DEFINE k == Received(c)
<1>1. c \in Ctx
  BY DEF Clients
<1>2. conn[c] \in ConnType
  BY <1>1 DEF HeapInv, DataOK
<1>3. conn[c].rcvd \in 0..2 /\ conn[c].sent \in 0..2
  BY <1>2 DEF ConnType
<1>4. conn[c].rcvd <= conn[c].sent
  BY DEF HeapInv, StartedOK
<1>5. conn[c].job # NULL => conn[c].req \in {"script", "post"} /\ conn[c].rcvd = 2
  BY DEF HeapInv, StartedOK
<1>6. /\ k.req = conn[c].req /\ k.sent = conn[c].sent /\ k.job = conn[c].job
      /\ k.rcvd \in {conn[c].rcvd, conn[c].sent}
  BY <1>1, ReceivedFields DEF HeapInv
<1> HIDE DEF k
<1>7. k.rcvd <= k.sent /\ k.rcvd \in 0..2
  BY <1>3, <1>4, <1>6
<1>8. k.job # NULL => k.req \in {"script", "post"} /\ k.rcvd = 2
  BY <1>3, <1>4, <1>5, <1>6
<1>9. k.job # NULL => IsCgi(k)
  BY <1>8 DEF IsCgi, HeaderParsed
<1> QED BY <1>7, <1>8, <1>9 DEF k

\* The handlers that change no pointer.
LEMMA QuietClient ==
  ASSUME HeapInv, DataOK', NEW c \in Ctx, Hangup(c) \/ ReadOnly(c) \/ AnswerPage(c) \/ AnswerAndClose(c)
  PROVE  HeapInv'
<1>0. DataOK /\ StartedOK
  BY DEF HeapInv
<1>1. UNCHANGED heap /\ UNCHANGED job /\ Handled(c) /\ (Unregister(c) \/ UNCHANGED table) /\ c \in Clients
  BY DEF Hangup, ReadOnly, AnswerPage, AnswerAndClose, ClientEvent, ToAnswer, Clients
<1> DEFINE r == Received(c)
<1>2. /\ r.rcvd <= r.sent /\ r.rcvd \in 0..2
      /\ r.job # NULL => r.req \in {"script", "post"} /\ r.rcvd = 2 /\ IsCgi(r)
  BY <1>1, ReceivedStarted
<1>3. /\ r \in ConnType /\ r.req = conn[c].req /\ r.sent = conn[c].sent /\ r.job = conn[c].job
  BY <1>0, ReceivedFields
<1>4. /\ conn[c].rcvd <= conn[c].sent
      /\ conn[c].job # NULL => conn[c].req \in {"script", "post"} /\ conn[c].rcvd = 2
  BY <1>0, <1>1 DEF StartedOK
<1>5. \E k \in ConnType : /\ conn' = [conn EXCEPT ![c] = k]
                          /\ k.job = conn[c].job
                          /\ k.rcvd <= k.sent
                          /\ k.job # NULL => k.req \in {"script", "post"} /\ k.rcvd = 2
  <2>1. CASE Hangup(c)
    <3>1. PICK k \in ConnType :
            /\ conn' = [conn EXCEPT ![c] = k]
            /\ k.req = conn[c].req /\ k.sent = conn[c].sent /\ k.rcvd = conn[c].rcvd
            /\ k.job = conn[c].job
      BY <1>0, <2>1, HangupEffect
    <3> QED BY <1>4, <3>1
  <2>2. CASE ReadOnly(c)
    <3>1. conn' = [conn EXCEPT ![c] = r]
      BY <2>2 DEF ReadOnly
    <3> HIDE DEF r
    <3> QED BY <1>2, <1>3, <3>1
  <2>3. CASE AnswerPage(c)
    <3>1. conn' = [conn EXCEPT ![c] = Reset(r)] /\ ~IsCgi(r)
      BY <2>3 DEF AnswerPage, IsDue
    <3> HIDE DEF r
    <3>2. r.job = NULL
      BY <1>2, <3>1
    <3>3. /\ Reset(r) \in ConnType /\ Reset(r).job = NULL /\ Reset(r).rcvd = 0 /\ Reset(r).sent = 0
      BY <1>3, ResetFields
    <3> DEFINE q == Reset(r)
    <3>4. /\ q \in ConnType /\ q.job = conn[c].job /\ q.rcvd <= q.sent
          /\ q.job = NULL /\ conn' = [conn EXCEPT ![c] = q]
      BY <1>3, <3>1, <3>2, <3>3
    <3> HIDE DEF q
    <3> QED BY <3>4
  <2>4. CASE AnswerAndClose(c)
    <3> DEFINE f == [r EXCEPT !.closing = TRUE]
    <3>1. conn' = [conn EXCEPT ![c] = f]
      BY <2>4 DEF AnswerAndClose
    <3> HIDE DEF r
    <3>2. /\ f \in ConnType /\ f.req = r.req /\ f.sent = r.sent /\ f.rcvd = r.rcvd /\ f.job = r.job
      BY <1>3, ClosingFields
    <3> HIDE DEF f
    <3> QED BY <1>2, <1>3, <3>1, <3>2
  <2> QED BY <2>1, <2>2, <2>3, <2>4
<1>6. PICK k \in ConnType : /\ conn' = [conn EXCEPT ![c] = k]
                            /\ k.job = conn[c].job
                            /\ k.rcvd <= k.sent
                            /\ k.job # NULL => k.req \in {"script", "post"} /\ k.rcvd = 2
  BY <1>5
<1>7. StartedOK'
  BY <1>0, <1>1, <1>6, ConnStarted
<1>8. \A d \in Clients : conn'[d].job = conn[d].job
  BY <1>0, <1>6 DEF DataOK, Clients
<1>9. \A d \in Ctx : job'[d].owner = job[d].owner
  BY <1>1
<1>10. \A d \in Ctx : batch'[d] # {} => batch[d] # {}
  BY <1>0, <1>1, BatchShrinks
<1> QED BY <1>1, <1>7, <1>8, <1>9, <1>10, QuietStep

LEMMA QuietJob ==
  ASSUME HeapInv, DataOK', NEW g \in Ctx, JobStale(g) \/ JobTimeout(g) \/ JobRead(g)
  PROVE  HeapInv'
<1>0. DataOK /\ StartedOK
  BY DEF HeapInv
<1>1. UNCHANGED heap /\ Handled(g)
  BY DEF JobStale, JobTimeout, JobRead
<1>2. MarkFinished(g) \/ UNCHANGED conn
  <2>2. CASE JobStale(g)
    BY <2>2 DEF JobStale
  <2>3. CASE JobTimeout(g)
    BY <2>3 DEF JobTimeout
  <2>4. CASE JobRead(g)
    BY <1>0, <2>4, JobReadEffect DEF table
  <2> QED BY <2>2, <2>3, <2>4
<1>3. Unregister(g) \/ UNCHANGED table
  <2>1. CASE JobRead(g)
    BY <1>0, <2>1, JobReadEffect DEF table
  <2> QED BY <2>1 DEF JobStale, JobTimeout
<1>4. \A d \in Ctx : job'[d].owner = job[d].owner
  <2>1. CASE JobStale(g)
    BY <2>1 DEF JobStale
  <2>2. CASE JobTimeout(g)
    BY <1>0, <2>2, TimeoutEffect DEF DataOK
  <2>3. CASE JobRead(g)
    BY <1>0, <2>3, JobReadEffect DEF DataOK
  <2> QED BY <2>1, <2>2, <2>3
<1>6. StartedOK' /\ \A d \in Clients : conn'[d].job = conn[d].job
  <2>1. CASE MarkFinished(g)
    BY <1>0, <1>1, <2>1, MarkStarted, MarkFields DEF Clients
  <2>2. CASE UNCHANGED conn
    BY <1>0, <1>1, <2>2 DEF StartedOK, Clients, heap
  <2> QED BY <1>2, <2>1, <2>2
<1>7. \A d \in Ctx : batch'[d] # {} => batch[d] # {}
  BY <1>0, <1>1, BatchShrinks
<1> QED BY <1>1, <1>3, <1>4, <1>6, <1>7, QuietStep

LEMMA QuietWorld ==
  ASSUME HeapInv, DataOK', NEW c \in Ctx, Send(c) \/ Leave(c) \/ Run(c) \/ Expire(c)
                          \/ StartFails(c) \/ BrokenPipe(c)
  PROVE  HeapInv'
<1>0. DataOK /\ StartedOK
  BY DEF HeapInv
<1>1. UNCHANGED heap /\ UNCHANGED table /\ UNCHANGED batch
  BY DEF Send, Leave, Run, Expire, StartFails, BrokenPipe
<1>2. StartedOK' /\ \A d \in Clients : conn'[d].job = conn[d].job
  <2>1. CASE Send(c)
    <3>1. c \in Clients
      BY <2>1 DEF Send, Clients
    <3>2. /\ conn[c].rcvd <= conn[c].sent
          /\ conn[c].job # NULL => conn[c].req \in {"script", "post"} /\ conn[c].rcvd = 2
      BY <1>0, <3>1 DEF StartedOK
    <3>3. conn[c].rcvd \in 0..2 /\ conn[c].sent \in 0..2
      BY <1>0 DEF DataOK, ConnType
    <3>4. PICK k \in ConnType :
           /\ conn' = [conn EXCEPT ![c] = k]
           /\ conn[c].sent < k.sent /\ k.rcvd = conn[c].rcvd
           /\ conn[c].sent > 0 => k.req = conn[c].req
           /\ k.job = conn[c].job
      BY <1>0, <2>1, SendEffect
    <3>5. k.sent \in 0..2
      BY DEF ConnType
    <3>6. conn[c].job = NULL /\ k.rcvd <= k.sent
      BY <3>2, <3>3, <3>4, <3>5
    <3>7. StartedOK'
      BY <1>0, <1>1, <3>4, <3>6, ConnStarted
    <3> QED BY <1>0, <3>4, <3>7 DEF DataOK, Clients
  <2>2. CASE Leave(c)
    <3>1. c \in Clients
      BY <2>2 DEF Leave, Clients
    <3>2. /\ conn[c].rcvd <= conn[c].sent
          /\ conn[c].job # NULL => conn[c].req \in {"script", "post"} /\ conn[c].rcvd = 2
      BY <1>0, <3>1 DEF StartedOK
    <3>3. PICK k \in ConnType :
           /\ conn' = [conn EXCEPT ![c] = k]
           /\ k.req = conn[c].req /\ k.sent = conn[c].sent /\ k.rcvd = conn[c].rcvd
           /\ k.job = conn[c].job
      BY <1>0, <2>2, LeaveEffect
    <3>4. StartedOK'
      BY <1>0, <1>1, <3>2, <3>3, ConnStarted
    <3> QED BY <1>0, <3>3, <3>4 DEF DataOK, Clients
  <2>3. CASE UNCHANGED conn
    BY <1>0, <1>1, <2>3 DEF StartedOK, Clients, heap
  <2> QED BY <2>1, <2>2, <2>3 DEF Run, Expire, StartFails, BrokenPipe
<1>3. \A d \in Ctx : job'[d].owner = job[d].owner
  <2>1. CASE Run(c)
    BY <1>0, <2>1, RunEffect DEF DataOK
  <2>2. CASE Expire(c)
    BY <1>0, <2>2, ExpireEffect DEF DataOK
  <2>3. CASE UNCHANGED job
    BY <2>3
  <2> QED BY <2>1, <2>2, <2>3 DEF Send, Leave, StartFails, BrokenPipe
<1> QED BY <1>1, <1>2, <1>3, QuietStep

\* An address in use by nothing: no entry, no pointer, no event.
LEMMA FreeAddress ==
  ASSUME HeapInv, NEW c \in Free
  PROVE  c \in Ctx /\ refs[c] = 0 /\ c \notin registered /\ c \notin closed
         /\ Holders(c) = {} /\ batch[c] = {}
<1>1. c \in Ctx /\ role[c] = "free"
  BY DEF Free
<1>2. refs[c] = 0
  BY <1>1 DEF HeapInv, HeapOK
<1>3. refs[c] = One(c \in registered) + One(c \in closed) + One(Holders(c) # {})
  BY <1>1 DEF HeapInv, RefsAreExact
<1>4. c \notin registered /\ c \notin closed /\ Holders(c) = {}
  BY <1>2, <1>3 DEF One
<1> QED BY <1>1, <1>2, <1>4 DEF HeapInv, HeapOK

\* register_event() of a new context, held by a client or not.
LEMMA RegisterHeap ==
  ASSUME HeapInv, NEW c \in Free, NEW w, NEW n, Register(c, w, n), size # Capacity
  PROVE  /\ SizeIsExact' /\ SizeBounded'
         /\ registered' = registered \cup {c} /\ closed' = closed
         /\ registered' \cap closed' = {}
         /\ refs'[c] = n /\ role'[c] = w
         /\ \A d \in Ctx : d # c => refs'[d] = refs[d] /\ role'[d] = role[d]
<1>1. c \in Ctx /\ c \notin registered /\ c \notin closed
  BY FreeAddress
<1>2. IsFiniteSet(registered)
  BY FS_Subset DEF HeapInv, DataOK
<1>3. registered' = registered \cup {c} /\ closed' = closed /\ size' = size + 1
  BY DEF Register
<1>4. Cardinality(registered') = Cardinality(registered) + 1
  BY <1>1, <1>2, <1>3, FS_AddElement
<1>5. Cardinality(registered) \in Nat
  BY <1>2, FS_CardinalityType
<1>6. SizeIsExact' /\ SizeBounded'
  BY <1>3, <1>4, <1>5 DEF HeapInv, SizeIsExact, SizeBounded, DataOK
<1>7. /\ refs'[c] = n /\ role'[c] = w
      /\ \A d \in Ctx : d # c => refs'[d] = refs[d] /\ role'[d] = role[d]
  BY <1>1 DEF Register, HeapInv, DataOK
<1>8. registered \cap closed = {}
  BY DEF HeapInv, HeapOK
<1> QED BY <1>1, <1>3, <1>6, <1>7, <1>8

LEMMA AcceptHeap ==
  ASSUME HeapInv, DataOK', Accept
  PROVE  HeapInv'
<1>1. PICK c \in Free : Register(c, "client", 1) /\ conn' = [conn EXCEPT ![c] = NewConn]
  BY DEF Accept
<1>2. /\ c \in Ctx /\ refs[c] = 0 /\ c \notin registered /\ c \notin closed
      /\ Holders(c) = {} /\ batch[c] = {}
  BY FreeAddress
<1>3. /\ SizeIsExact' /\ SizeBounded'
      /\ registered' = registered \cup {c} /\ closed' = closed
      /\ registered' \cap closed' = {}
      /\ refs'[c] = 1 /\ role'[c] = "client"
      /\ \A d \in Ctx : d # c => refs'[d] = refs[d] /\ role'[d] = role[d]
  BY <1>1, RegisterHeap DEF Accept, CannotRegister
<1>4. /\ conn'[c] = NewConn
      /\ \A d \in Ctx : d # c => conn'[d] = conn[d]
      /\ job' = job /\ batch' = batch
  BY <1>1, <1>2 DEF HeapInv, DataOK, Accept
<1>5. NewConn.job = NULL /\ NewConn.rcvd = 0 /\ NewConn.sent = 0
  BY DEF NewConn
<1>6. Clients' = Clients \cup {c} /\ c \notin Clients /\ Clients \subseteq Ctx
  BY <1>2, <1>3 DEF Clients, Free
<1>7. \A d \in Ctx : Holders(d)' = Holders(d)
  <2> SUFFICES ASSUME NEW d \in Ctx PROVE Holders(d)' = Holders(d)
    OBVIOUS
  <2>1. d # NULL
    OBVIOUS
  <2> QED BY <1>4, <1>5, <1>6, <2>1 DEF Holders
<1>8. RefsAreExact'
  <2> SUFFICES ASSUME NEW d \in Ctx
               PROVE  refs'[d] = One(d \in registered') + One(d \in closed') + One(Holders(d)' # {})
    BY DEF RefsAreExact
  <2>1. refs[d] = One(d \in registered) + One(d \in closed) + One(Holders(d) # {})
    BY DEF HeapInv, RefsAreExact
  <2>2. CASE d = c
    BY <1>2, <1>3, <1>7, <2>2 DEF One
  <2>3. CASE d # c
    BY <1>3, <1>7, <2>1, <2>3 DEF One
  <2> QED BY <2>2, <2>3
<1>9. HeapOK'
  BY <1>2, <1>3, <1>4 DEF HeapInv, HeapOK
<1>10. HeldJobIsOwn'
  <2> SUFFICES ASSUME NEW d \in Clients, conn[d].job # NULL
               PROVE  role'[conn[d].job] = "job" /\ job[conn[d].job].owner = d
    BY <1>4, <1>5, <1>6 DEF HeldJobIsOwn
  <2>1. conn[d].job \in Ctx
    BY DEF HeapInv, DataOK, ConnType, Clients
  <2>2. role[conn[d].job] = "job" /\ job[conn[d].job].owner = d
    BY DEF HeapInv, HeldJobIsOwn
  <2>3. conn[d].job # c
    BY <2>2 DEF Free
  <2> QED BY <1>3, <2>1, <2>2, <2>3
<1>11. StartedOK'
  BY <1>4, <1>5, <1>6 DEF HeapInv, StartedOK
<1> QED BY <1>3, <1>8, <1>9, <1>10, <1>11 DEF HeapInv

LEMMA StartHeap ==
  ASSUME HeapInv, DataOK', NEW c \in Ctx, StartScript(c)
  PROVE  HeapInv'
<1>0. DataOK
  BY DEF HeapInv
<1>1. PICK g \in Free : StartAt(c, g)
  BY DEF StartScript, StartAt
<1>2. /\ g \in Ctx /\ refs[g] = 0 /\ g \notin registered /\ g \notin closed
      /\ Holders(g) = {} /\ batch[g] = {}
  BY FreeAddress
<1>3. /\ SizeIsExact' /\ SizeBounded'
      /\ registered' = registered \cup {g} /\ closed' = closed
      /\ registered' \cap closed' = {}
      /\ refs'[g] = 2 /\ role'[g] = "job"
      /\ \A d \in Ctx : d # g => refs'[d] = refs[d] /\ role'[d] = role[d]
  BY <1>1, RegisterHeap DEF StartScript, CannotRegister, StartAt
<1>4. c \in Clients /\ c # g
  BY DEF StartScript, ToStart, ToAnswer, ClientEvent, Clients, Free
<1>5. PICK k \in ConnType :
        /\ conn' = [conn EXCEPT ![c] = k]
        /\ k.req = conn[c].req /\ k.sent = conn[c].sent /\ k.rcvd = Received(c).rcvd
        /\ k.job = g
  BY <1>0, <1>1, <1>2, StartEffect
<1>6. /\ conn[c].job = NULL
      /\ k.rcvd = 2 /\ k.rcvd <= k.sent /\ k.req \in {"script", "post"}
  <2> DEFINE r == Received(c)
  <2>1. IsCgi(r) /\ r.job = NULL /\ IsReady(r)
    BY DEF StartScript, ToStart
  <2>2. r.req = conn[c].req /\ r.sent = conn[c].sent /\ r.job = conn[c].job
    BY <1>0, ReceivedFields
  <2>3. r.rcvd <= r.sent
    BY <1>4, ReceivedStarted
  <2>4. k.rcvd = r.rcvd
    BY <1>5
  <2> HIDE DEF r
  <2> QED BY <1>5, <2>1, <2>2, <2>3, <2>4 DEF IsCgi, IsReady
<1>7. /\ conn'[c] = k
      /\ \A d \in Ctx : d # c => conn'[d] = conn[d]
  BY <1>0, <1>5 DEF DataOK
<1>8. /\ job'[g] = NewJob(c)
      /\ \A d \in Ctx : d # g => job'[d] = job[d]
  BY <1>0, <1>1, <1>2 DEF DataOK, StartAt
<1>9. NewJob(c).owner = c
  BY DEF NewJob
<1>10. Clients' = Clients /\ Clients \subseteq Ctx
  BY <1>2, <1>3 DEF Clients, Free
<1>11. /\ Holders(g)' = {c}
       /\ \A d \in Ctx : d # g => Holders(d)' = Holders(d)
  <2>1. Holders(g)' = {c}
    BY <1>2, <1>4, <1>5, <1>7, <1>10 DEF Holders
  <2>2. ASSUME NEW d \in Ctx, d # g PROVE Holders(d)' = Holders(d)
    <3>1. d # NULL
      OBVIOUS
    <3> QED BY <1>4, <1>5, <1>6, <1>7, <1>10, <2>2, <3>1 DEF Holders
  <2> QED BY <2>1, <2>2
<1>12. RefsAreExact'
  <2> SUFFICES ASSUME NEW d \in Ctx
               PROVE  refs'[d] = One(d \in registered') + One(d \in closed') + One(Holders(d)' # {})
    BY DEF RefsAreExact
  <2>1. refs[d] = One(d \in registered) + One(d \in closed) + One(Holders(d) # {})
    BY DEF HeapInv, RefsAreExact
  <2>2. CASE d = g
    BY <1>2, <1>3, <1>11, <2>2 DEF One
  <2>3. CASE d # g
    BY <1>3, <1>11, <2>1, <2>3 DEF One
  <2> QED BY <2>2, <2>3
<1>13. \A d \in Ctx : batch'[d] # {} => batch[d] # {}
  BY <1>0, BatchShrinks DEF StartScript
<1>14. HeapOK'
  BY <1>2, <1>3, <1>13 DEF HeapInv, HeapOK
<1>15. HeldJobIsOwn'
  <2> SUFFICES ASSUME NEW d \in Clients, conn'[d].job # NULL
               PROVE  role'[conn'[d].job] = "job" /\ job'[conn'[d].job].owner = d
    BY <1>10 DEF HeldJobIsOwn
  <2>1. CASE d = c
    BY <1>3, <1>5, <1>7, <1>8, <1>9, <2>1
  <2>2. CASE d # c
    <3>1. conn'[d] = conn[d] /\ conn[d].job \in Ctx
      BY <1>0, <1>7, <2>2 DEF DataOK, ConnType, Clients
    <3>2. role[conn[d].job] = "job" /\ job[conn[d].job].owner = d
      BY <3>1 DEF HeapInv, HeldJobIsOwn
    <3>3. conn[d].job # g
      BY <3>2 DEF Free
    <3> QED BY <1>3, <1>8, <3>1, <3>2, <3>3
  <2> QED BY <2>1, <2>2
<1>16. StartedOK'
  BY <1>6, <1>7, <1>10 DEF HeapInv, StartedOK
<1> QED BY <1>3, <1>12, <1>14, <1>15, <1>16 DEF HeapInv

\* Only its client holds a job, and nobody holds a client.
LEMMA OneHolder ==
  ASSUME HeapInv, NEW c \in Clients, conn[c].job # NULL
  PROVE  /\ conn[c].job \in Ctx /\ role[conn[c].job] = "job" /\ conn[c].job # c
         /\ Holders(conn[c].job) = {c}
         /\ Holders(c) = {}
<1>1. c \in Ctx /\ role[c] = "client"
  BY DEF Clients
<1>2. conn[c].job \in Ctx
  BY <1>1 DEF HeapInv, DataOK, ConnType
<1>3. role[conn[c].job] = "job" /\ job[conn[c].job].owner = c
  BY DEF HeapInv, HeldJobIsOwn
<1>4. Holders(conn[c].job) = {c}
  BY <1>2, <1>3 DEF HeapInv, HeldJobIsOwn, Holders
<1>5. Holders(c) = {}
  BY <1>1 DEF HeapInv, HeldJobIsOwn, Holders
<1> QED BY <1>1, <1>2, <1>3, <1>4, <1>5

LEMMA AnswerHeap ==
  ASSUME HeapInv, DataOK', NEW c \in Ctx, AnswerScript(c)
  PROVE  HeapInv'
<1>0. DataOK
  BY DEF HeapInv
<1>1. PICK g \in Ctx, k \in ConnType : Answered(c, g, k)
  BY <1>0, AnswerEffect
<1>2. c \in Clients
  BY DEF AnswerScript, ToAnswer, ClientEvent, Clients
<1>3. conn[c].job = g /\ g # NULL
  BY <1>1 DEF Answered
<1>4. role[g] = "job" /\ g # c /\ Holders(g) = {c}
  BY <1>2, <1>3, OneHolder
<1>5. /\ SizeIsExact' /\ SizeBounded' /\ registered' \cap closed' = {}
      /\ \A d \in Ctx : One(d \in registered') + One(d \in closed')
                          = One(d \in registered) + One(d \in closed)
      /\ registered' \cup closed' = registered \cup closed
  BY <1>1, UnregisterHeap DEF Answered
<1>6. \A d \in Ctx : refs[d] = One(d \in registered) + One(d \in closed) + One(Holders(d) # {})
  BY DEF HeapInv, RefsAreExact
<1>7. \A d \in Ctx : role[d] = "free" <=> refs[d] = 0
  BY DEF HeapInv, HeapOK
<1>8. /\ refs'[g] = refs[g] - 1
      /\ role'[g] = IF refs[g] = 1 THEN "free" ELSE "job"
      /\ \A d \in Ctx : d # g => refs'[d] = refs[d] /\ role'[d] = role[d]
  <2>1. /\ refs' = [d \in Ctx |-> refs[d] - (IF d = g THEN 1 ELSE 0)]
        /\ role' = [d \in Ctx |-> IF refs[d] = (IF d = g THEN 1 ELSE 0) THEN "free" ELSE role[d]]
    BY <1>1 DEF Answered
  <2>2. \A d \in Ctx : refs[d] \in Int
    BY <1>0 DEF DataOK
  <2> QED BY <1>4, <1>7, <2>1, <2>2
<1>9. /\ conn'[c] = k
      /\ \A d \in Ctx : d # c => conn'[d] = conn[d]
      /\ k.req = "none" /\ k.sent = 0 /\ k.rcvd = 0 /\ k.job = NULL
  BY <1>0, <1>1 DEF DataOK, Answered
<1>10. Clients' = Clients /\ Clients \subseteq Ctx
  BY <1>4, <1>8 DEF Clients
<1>11. /\ Holders(g)' = {}
       /\ \A d \in Ctx : d # g => Holders(d)' = Holders(d)
  <2>1. Holders(g)' = {}
    BY <1>2, <1>3, <1>4, <1>9, <1>10 DEF Holders
  <2>2. ASSUME NEW d \in Ctx, d # g PROVE Holders(d)' = Holders(d)
    <3>1. d # NULL
      OBVIOUS
    <3> QED BY <1>2, <1>3, <1>9, <1>10, <2>2, <3>1 DEF Holders
  <2> QED BY <2>1, <2>2
<1>12. RefsAreExact'
  <2> SUFFICES ASSUME NEW d \in Ctx
               PROVE  refs'[d] = One(d \in registered') + One(d \in closed') + One(Holders(d)' # {})
    BY DEF RefsAreExact
  <2>1. CASE d = g
    BY <1>4, <1>5, <1>6, <1>8, <1>11, <2>1 DEF One
  <2>2. CASE d # g
    BY <1>5, <1>6, <1>8, <1>11, <2>2
  <2> QED BY <2>1, <2>2
<1>13. \A d \in Ctx : batch'[d] # {} => batch[d] # {}
  BY <1>0, BatchShrinks DEF AnswerScript
<1>14. HeapOK'
  <2>1. \A d \in Ctx : role'[d] = "free" <=> refs'[d] = 0
    <3>1. refs[g] \in Int
      BY <1>0 DEF DataOK
    <3> QED BY <1>4, <1>7, <1>8, <3>1
  <2>2. \A d \in Ctx : batch'[d] # {} => d \in registered' \cup closed'
    BY <1>5, <1>13 DEF HeapInv, HeapOK
  <2> QED BY <1>5, <2>1, <2>2 DEF HeapOK
<1>15. HeldJobIsOwn'
  <2> SUFFICES ASSUME NEW d \in Clients, conn'[d].job # NULL
               PROVE  role'[conn'[d].job] = "job" /\ job'[conn'[d].job].owner = d
    BY <1>10 DEF HeldJobIsOwn
  <2>1. d # c
    BY <1>9
  <2>2. conn'[d] = conn[d] /\ conn[d].job \in Ctx
    BY <1>0, <1>9, <2>1 DEF DataOK, ConnType, Clients
  <2>3. role[conn[d].job] = "job" /\ job[conn[d].job].owner = d
    BY <2>2 DEF HeapInv, HeldJobIsOwn
  <2>4. conn[d].job # g
    BY <1>4, <2>1, <2>2 DEF Holders
  <2>6. job'[conn[d].job].owner = job[conn[d].job].owner
    BY <1>1, <2>2, <2>4 DEF Answered, Released
  <2> QED BY <1>8, <2>2, <2>3, <2>4, <2>6
<1>16. StartedOK'
  BY <1>9, <1>10 DEF HeapInv, StartedOK
<1> QED BY <1>5, <1>12, <1>14, <1>15, <1>16 DEF HeapInv

\* The list is cleared: what is left of the heap is what is registered, and the jobs
\* of the clients that are left.
LEMMA WaitFacts ==
  ASSUME HeapInv, WaitEvent
  PROVE  /\ \A c \in Ctx : refs'[c] = One(c \in registered) + One(Holders(c) \ closed # {})
         /\ \A c \in Ctx : role'[c] = IF refs'[c] = 0 THEN "free" ELSE role[c]
         /\ \A c \in Ctx : role'[c] = "free" <=> refs'[c] = 0
         /\ Clients' = Clients \ closed
         /\ \A c \in Ctx : role'[c] # "free" => conn'[c] = conn[c] /\ job'[c] = LeftAlone(c)
         /\ Doomed = closed \cap Clients
         /\ \A c \in Ctx : Holders(c)' = Holders(c) \ closed
         /\ registered' = registered /\ closed' = {} /\ size' = size
<1>0. DataOK
  BY DEF HeapInv
<1>1. \A d \in Ctx : refs[d] = One(d \in registered) + One(d \in closed) + One(Holders(d) # {})
  BY DEF HeapInv, RefsAreExact
<1>2. \A d \in Ctx : role[d] = "free" <=> refs[d] = 0
  BY DEF HeapInv, HeapOK
<1>3. registered \cap closed = {} /\ closed \subseteq Ctx /\ registered \subseteq Ctx
  BY <1>0 DEF HeapInv, HeapOK, DataOK
<1>4. \A d \in Clients : d \in Ctx /\ role[d] = "client" /\ Holders(d) = {}
  BY DEF HeapInv, HeldJobIsOwn, Holders, Clients
<1>5. Doomed = closed \cap Clients
  BY <1>1, <1>3, <1>4 DEF One, Doomed
<1>6. \A c \in Ctx : Dropped[c] = One(c \in closed) + One(Holders(c) \cap closed # {})
  <2>1. \A c \in Ctx : (\E d \in Doomed : conn[d].job = c) <=> Holders(c) \cap closed # {}
    BY <1>5 DEF Holders
  <2>2. \A c \in Ctx : Dropped[c] = (IF c \in closed THEN 1 ELSE 0)
                                     + (IF \E d \in Doomed : conn[d].job = c THEN 1 ELSE 0)
    BY DEF Dropped
  <2> QED BY <2>1, <2>2 DEF One
<1>7. \A c \in Ctx : Holders(c) = {} \/ \E d \in Ctx : Holders(c) = {d}
  <2> SUFFICES ASSUME NEW c \in Ctx, Holders(c) # {} PROVE \E d \in Ctx : Holders(c) = {d}
    OBVIOUS
  <2>1. PICK d \in Clients : conn[d].job = c
    BY DEF Holders
  <2>2. c # NULL
    OBVIOUS
  <2> QED BY <1>4, <2>1, <2>2, OneHolder
<1>8. \A c \in Ctx : refs'[c] = One(c \in registered) + One(Holders(c) \ closed # {})
  <2> SUFFICES ASSUME NEW c \in Ctx
               PROVE  refs'[c] = One(c \in registered) + One(Holders(c) \ closed # {})
    OBVIOUS
  <2>1. refs'[c] = refs[c] - Dropped[c]
    BY <1>0, WaitTypes
  <2>2. CASE Holders(c) = {}
    BY <1>1, <1>6, <2>1, <2>2 DEF One
  <2>3. CASE \E d \in Ctx : Holders(c) = {d}
    <3>1. PICK d \in Ctx : Holders(c) = {d}
      BY <2>3
    <3>2. CASE d \in closed
      BY <1>1, <1>6, <2>1, <3>1, <3>2 DEF One
    <3>3. CASE d \notin closed
      BY <1>1, <1>6, <2>1, <3>1, <3>3 DEF One
    <3> QED BY <3>2, <3>3
  <2> QED BY <1>7, <2>2, <2>3
<1>9. \A c \in Ctx : role'[c] = IF refs'[c] = 0 THEN "free" ELSE role[c]
  <2>1. refs' = [c \in Ctx |-> refs[c] - Dropped[c]]
        /\ role' = [c \in Ctx |-> IF refs[c] = Dropped[c] THEN "free" ELSE role[c]]
    BY DEF WaitEvent, Unlink
  <2>2. \A c \in Ctx : refs[c] \in Int /\ Dropped[c] \in Int
    BY <1>0, DroppedType DEF DataOK
  <2> QED BY <2>1, <2>2
<1>10. \A c \in Ctx : role'[c] = "free" <=> refs'[c] = 0
  <2> SUFFICES ASSUME NEW c \in Ctx, refs'[c] # 0 PROVE role[c] # "free"
    BY <1>9
  <2>1. refs[c] # 0
    BY <1>1, <1>8 DEF One
  <2> QED BY <1>2, <2>1
<1>11. Clients' = Clients \ closed
  <2> SUFFICES ASSUME NEW c \in Ctx
               PROVE  role'[c] = "client" <=> role[c] = "client" /\ c \notin closed
    BY <1>3 DEF Clients
  <2>1. CASE role[c] # "client"
    BY <1>9, <2>1
  <2>2. CASE role[c] = "client"
    <3>1. Holders(c) = {}
      BY <1>4, <2>2 DEF Clients
    <3>2. refs'[c] = One(c \in registered)
      BY <1>8, <3>1 DEF One
    <3>3. c \in registered <=> c \notin closed
      BY <1>1, <1>2, <1>3, <2>2, <3>1 DEF One
    <3> QED BY <1>9, <2>2, <3>2, <3>3 DEF One
  <2> QED BY <2>1, <2>2
<1>12. \A c \in Ctx : role'[c] # "free" => conn'[c] = conn[c] /\ job'[c] = LeftAlone(c)
  BY DEF WaitEvent
<1>13. \A c \in Ctx : Holders(c)' = Holders(c) \ closed
  BY <1>11, <1>12 DEF Holders, Clients
<1>14. registered' = registered /\ closed' = {} /\ size' = size
  BY DEF WaitEvent
<1> QED BY <1>5, <1>8, <1>9, <1>10, <1>11, <1>12, <1>13, <1>14

LEMMA WaitHeap ==
  ASSUME HeapInv, DataOK', WaitEvent
  PROVE  HeapInv'
<1>0. DataOK
  BY DEF HeapInv
<1>1. /\ \A c \in Ctx : refs'[c] = One(c \in registered) + One(Holders(c) \ closed # {})
      /\ \A c \in Ctx : role'[c] = IF refs'[c] = 0 THEN "free" ELSE role[c]
      /\ \A c \in Ctx : role'[c] = "free" <=> refs'[c] = 0
      /\ Clients' = Clients \ closed
      /\ \A c \in Ctx : role'[c] # "free" => conn'[c] = conn[c] /\ job'[c] = LeftAlone(c)
      /\ \A c \in Ctx : Holders(c)' = Holders(c) \ closed
      /\ registered' = registered /\ closed' = {} /\ size' = size
  BY WaitFacts
<1>2. RefsAreExact'
  BY <1>1 DEF RefsAreExact, One
<1>3. HeapOK'
  <2>1. \A c \in Ctx : batch'[c] # {} => c \in registered
    BY DEF WaitEvent
  <2> QED BY <1>1, <2>1 DEF HeapOK
<1>4. SizeIsExact' /\ SizeBounded'
  BY <1>1 DEF HeapInv, SizeIsExact, SizeBounded
<1>5. HeldJobIsOwn'
  <2> SUFFICES ASSUME NEW d \in Clients', conn'[d].job # NULL
               PROVE  role'[conn'[d].job] = "job" /\ job'[conn'[d].job].owner = d
    BY DEF HeldJobIsOwn
  <2>1. d \in Clients /\ d \notin closed /\ d \in Ctx
    BY <1>1 DEF Clients
  <2>2. conn'[d] = conn[d]
    BY <1>1, <2>1 DEF Clients
  <2> DEFINE g == conn[d].job
  <2>3. g \in Ctx /\ role[g] = "job" /\ job[g].owner = d
    BY <1>0, <2>1, <2>2 DEF HeapInv, HeldJobIsOwn, DataOK, ConnType
  <2>4. Holders(g) \ closed # {}
    BY <2>1 DEF Holders
  <2>5. refs'[g] # 0
    BY <1>1, <2>3, <2>4 DEF One
  <2>6. role'[g] = "job" /\ job'[g].owner = job[g].owner
    BY <1>0, <1>1, <2>3, <2>5, LeftFields
  <2> QED BY <2>2, <2>3, <2>6
<1>6. StartedOK'
  BY <1>1 DEF HeapInv, StartedOK, Clients
<1> QED BY <1>2, <1>3, <1>4, <1>5, <1>6 DEF HeapInv

LEMMA HeapInit == Init => HeapInv
<1> SUFFICES ASSUME Init PROVE HeapInv
  OBVIOUS
<1>1. DataOK
  BY DataInit
<1>2. Clients = {}
  BY DEF Init, Clients
<1>3. registered = {} /\ closed = {} /\ size = 1
  BY DEF Init
<1>4. \A c \in Ctx : refs[c] = 0 /\ role[c] = "free" /\ batch[c] = {}
  BY DEF Init
<1>5. RefsAreExact
  BY <1>2, <1>3, <1>4 DEF RefsAreExact, Holders, One
<1>6. HeapOK
  BY <1>3, <1>4 DEF HeapOK
<1>7. SizeIsExact /\ SizeBounded
  BY <1>3, FS_EmptySet DEF SizeIsExact, SizeBounded
<1>8. HeldJobIsOwn /\ StartedOK
  BY <1>2 DEF HeldJobIsOwn, StartedOK
<1> QED BY <1>1, <1>5, <1>6, <1>7, <1>8 DEF HeapInv

LEMMA HeapStep ==
  ASSUME HeapInv, [Next]_vars
  PROVE  HeapInv'
<1>1. DataOK'
  BY DataStep DEF HeapInv
<1>2. CASE WaitEvent
  BY <1>1, <1>2, WaitHeap
<1>3. CASE Accept
  BY <1>1, <1>3, AcceptHeap
<1>4. ASSUME NEW c \in Ctx, Handle(c)
      PROVE  HeapInv'
  BY <1>1, <1>4, QuietClient, QuietJob, QuietWorld, StartHeap, AnswerHeap DEF Handle
<1>5. ASSUME NEW c \in Ctx, Send(c) \/ Leave(c) \/ Run(c) \/ Expire(c)
      PROVE  HeapInv'
  BY <1>1, <1>5, QuietWorld
<1>6. CASE UNCHANGED <<table, heap, conn, job, batch>>
  BY <1>1, <1>6 DEF HeapInv, table, heap, HeapOK, RefsAreExact, SizeIsExact, SizeBounded,
                    HeldJobIsOwn, StartedOK, Holders, Clients, One
<1>7. CASE AcceptFails \/ Connect \/ UNCHANGED vars
  BY <1>6, <1>7 DEF AcceptFails, Connect, vars
<1> QED BY <1>2, <1>3, <1>4, <1>5, <1>7 DEF Next, Server, World, Terminated

\* The inductive invariant: pointers, counters, table and owners agree at every step.
THEOREM HeapInvariance == Spec => []HeapInv
<1>1. Init => HeapInv
  BY HeapInit
<1>2. HeapInv /\ [Next]_vars => HeapInv'
  BY HeapStep
<1> QED BY <1>1, <1>2, PTL DEF Spec

\* No variable leaves its type: in particular _events_size stays between the
\* listening socket's one and _events_capacity, and no counter passes 2.
THEOREM TypeCorrect == Spec => []TypeOK
<1>1. HeapInv => TypeOK
  <2> SUFFICES ASSUME HeapInv PROVE TypeOK
    OBVIOUS
  <2>1. DataOK
    BY DEF HeapInv
  <2>2. size \in 1..Capacity
    <3>1. IsFiniteSet(registered)
      BY <2>1, FS_Subset DEF DataOK
    <3>2. Cardinality(registered) \in Nat
      BY <3>1, FS_CardinalityType
    <3>3. size = 1 + Cardinality(registered) /\ size <= Capacity
      BY DEF HeapInv, SizeIsExact, SizeBounded
    <3> QED BY <3>2, <3>3
  <2>3. refs \in [Ctx -> 0..2]
    <3>1. \A c \in Ctx : refs[c] = One(c \in registered) + One(c \in closed) + One(Holders(c) # {})
      BY DEF HeapInv, RefsAreExact
    <3>2. registered \cap closed = {}
      BY DEF HeapInv, HeapOK
    <3>3. \A c \in Ctx : refs[c] \in 0..2
      BY <3>1, <3>2 DEF One
    <3> QED BY <2>1, <3>3 DEF DataOK
  <2> QED BY <2>1, <2>2, <2>3 DEF DataOK, TypeOK
<1> QED BY <1>1, HeapInvariance, PTL

\* The event loop never calls a handler of a context that has been destroyed.
THEOREM NoDeadEvent == Spec => []EventsAreLive
<1>1. HeapInv => EventsAreLive
  <2> SUFFICES ASSUME HeapInv, NEW c \in Ctx, batch[c] # {}
               PROVE  role[c] # "free"
    BY DEF EventsAreLive
  <2>1. c \in registered \cup closed
    BY DEF HeapInv, HeapOK
  <2>2. refs[c] = One(c \in registered) + One(c \in closed) + One(Holders(c) # {})
    BY DEF HeapInv, RefsAreExact
  <2>3. refs[c] # 0
    BY <2>1, <2>2 DEF One
  <2> QED BY <2>3 DEF HeapInv, HeapOK
<1> QED BY <1>1, HeapInvariance, PTL

\* The counters of DolbayobPTR count its pointers: nothing leaks, nothing is freed early.
\* _events_size is the number of registered events.
THEOREM ExactCounts == Spec => []CountsAreExact
<1>1. HeapInv => CountsAreExact
  BY DEF HeapInv, CountsAreExact
<1> QED BY <1>1, HeapInvariance, PTL

\* The job a client holds is alive and its own.
THEOREM OwnJob == Spec => []HeldJobIsOwn
  BY HeapInvariance, PTL DEF HeapInv

-----------------------------------------------------------------------------
(* The owners of the jobs, whatever their peers do. *)

OwnersOK == LeavingOK /\ OwnerOutlivesJob /\ FinishedIsParsed

\* A step of one client that keeps its job; if it leaves the table its peer has gone.
LEMMA ClientKeeps ==
  ASSUME HeapInv, OwnersOK, UNCHANGED heap, UNCHANGED job,
         NEW c \in Clients, NEW k \in ConnType, conn' = [conn EXCEPT ![c] = k],
         conn[c].gone => k.gone,
         k.job = conn[c].job,
         k.finished => conn[c].finished /\ (conn[c].misled => k.misled),
         \A d \in Ctx : batch'[d] \subseteq batch[d],
         UNCHANGED table \/ (Unregister(c) /\ (k.job # NULL => k.gone) /\ batch'[c] = {})
  PROVE  OwnersOK'
<1>0. DataOK /\ c \in Ctx
  BY DEF HeapInv, Clients
<1>1. /\ conn'[c] = k
      /\ \A d \in Ctx : d # c => conn'[d] = conn[d]
  BY <1>0 DEF DataOK
<1>2. Clients' = Clients /\ Jobs' = Jobs /\ role' = role /\ Clients \subseteq Ctx /\ Jobs \subseteq Ctx
      /\ Clients \cap Jobs = {}
  BY DEF heap, Clients, Jobs
<1>3. \A d \in Ctx : d # c => (d \in registered' <=> d \in registered) /\ (d \in closed' <=> d \in closed)
  BY <1>0, UnregisterHeap
<1>4. LeavingOK'
  <2>2. \A d \in Clients : "hup" \in batch'[d] => conn'[d].gone
    BY <1>1, <1>2 DEF OwnersOK, LeavingOK
  <2>3. \A d \in Clients : d \in closed' => batch'[d] = {} /\ (conn'[d].job # NULL => conn'[d].gone)
    <3>1. \A d \in Clients : d # c /\ d \in closed'
                               => batch'[d] = {} /\ (conn'[d].job # NULL => conn'[d].gone)
      BY <1>1, <1>2, <1>3 DEF OwnersOK, LeavingOK
    <3>2. CASE UNCHANGED table
      BY <1>1, <1>2, <3>1, <3>2 DEF OwnersOK, LeavingOK, table
    <3>3. CASE Unregister(c) /\ (k.job # NULL => k.gone) /\ batch'[c] = {}
      BY <1>1, <3>1, <3>3
    <3> QED BY <3>2, <3>3
  <2>4. \A g \in Jobs : job'[g].closing <=> g \notin registered'
    BY <1>2, <1>3 DEF OwnersOK, LeavingOK
  <2> QED BY <1>2, <2>2, <2>3, <2>4 DEF LeavingOK
<1>5. OwnerOutlivesJob'
  <2> SUFFICES ASSUME NEW g \in Jobs, g \in registered'
               PROVE  (job[g].owner \in Clients /\ conn'[job[g].owner].job = g) \/ job[g].left
    BY <1>2 DEF OwnerOutlivesJob
  <2>1. g \in registered
    BY <1>2, <1>3
  <2>2. (job[g].owner \in Clients /\ conn[job[g].owner].job = g) \/ job[g].left
    BY <2>1 DEF OwnersOK, OwnerOutlivesJob
  <2> QED BY <1>1, <1>2, <2>2
<1>6. FinishedIsParsed'
  BY <1>1, <1>2 DEF OwnersOK, FinishedIsParsed
<1> QED BY <1>4, <1>5, <1>6 DEF OwnersOK

\* A step of one job: it stays as it is, or is over and leaves the table.
LEMMA JobKeeps ==
  ASSUME HeapInv, OwnersOK, UNCHANGED heap,
         NEW g \in Jobs, NEW j \in JobType, job' = [job EXCEPT ![g] = j],
         \A d \in Ctx : batch'[d] \subseteq batch[d],
         j.owner = job[g].owner, j.left = job[g].left,
         \/ UNCHANGED <<table, conn>> /\ j.closing = job[g].closing /\ j.body = job[g].body
         \/ /\ ~job[g].closing /\ Unregister(g) /\ MarkFinished(g)
            /\ j.closing /\ j.body # "none"
  PROVE  OwnersOK'
<1>0. DataOK /\ g \in Ctx
  BY DEF HeapInv, Jobs
<1>1. /\ job'[g] = j
      /\ \A d \in Ctx : d # g => job'[d] = job[d]
  BY <1>0 DEF DataOK
<1>2. Clients' = Clients /\ Jobs' = Jobs /\ Clients \subseteq Ctx /\ Jobs \subseteq Ctx
      /\ Clients \cap Jobs = {}
  BY DEF heap, Clients, Jobs
<1>3. CASE UNCHANGED <<table, conn>> /\ j.closing = job[g].closing /\ j.body = job[g].body
  <2>1. registered' = registered /\ closed' = closed /\ conn' = conn
    BY <1>3 DEF table
  <2>2. \A d \in Ctx : /\ job'[d].closing = job[d].closing /\ job'[d].body = job[d].body
                       /\ job'[d].owner = job[d].owner /\ job'[d].left = job[d].left
    BY <1>1, <1>3
  <2>3. LeavingOK'
    BY <1>2, <2>1, <2>2 DEF OwnersOK, LeavingOK
  <2>4. OwnerOutlivesJob'
    BY <1>2, <2>1, <2>2 DEF OwnersOK, OwnerOutlivesJob
  <2>5. FinishedIsParsed'
    <3> SUFFICES ASSUME NEW c \in Clients, conn[c].finished, ~conn[c].misled
                 PROVE  conn[c].job # NULL /\ job'[conn[c].job].body # "none" /\ job'[conn[c].job].closing
      BY <1>2, <2>1 DEF FinishedIsParsed
    <3>1. conn[c].job # NULL /\ job[conn[c].job].body # "none" /\ job[conn[c].job].closing
      BY DEF OwnersOK, FinishedIsParsed
    <3>2. conn[c].job \in Ctx
      BY <3>1, OneHolder
    <3> QED BY <2>2, <3>1, <3>2
  <2> QED BY <2>3, <2>4, <2>5 DEF OwnersOK
<1>4. CASE /\ ~job[g].closing /\ Unregister(g) /\ MarkFinished(g)
           /\ j.closing /\ j.body # "none"
  <2> DEFINE o == job[g].owner
  <2>1. g \in registered
    BY <1>4 DEF OwnersOK, LeavingOK
  <2>2. (o \in Clients /\ conn[o].job = g) \/ job[g].left
    BY <2>1 DEF OwnersOK, OwnerOutlivesJob
  <2>3. registered' = registered \ {g} /\ closed' = closed \cup {g}
    BY <1>4, <2>1 DEF Unregister
  <2>4. \A d \in Ctx : /\ conn'[d].gone = conn[d].gone /\ conn'[d].job = conn[d].job
                       /\ d # o => conn'[d] = conn[d]
                       /\ d = o /\ d \in Clients => conn'[d].misled = (conn[d].misled \/ job[g].left)
    BY <1>0, <1>4, MarkFields
  <2>5. LeavingOK'
    <3>1. \A d \in Clients : "hup" \in batch'[d] => conn'[d].gone
      BY <1>2, <2>4 DEF OwnersOK, LeavingOK
    <3>2. \A d \in Clients : d \in closed' => batch'[d] = {} /\ (conn'[d].job # NULL => conn'[d].gone)
      BY <1>2, <2>3, <2>4 DEF OwnersOK, LeavingOK
    <3>3. \A d \in Jobs : job'[d].closing <=> d \notin registered'
      BY <1>1, <1>2, <1>4, <2>3 DEF OwnersOK, LeavingOK
    <3> QED BY <1>2, <3>1, <3>2, <3>3 DEF LeavingOK
  <2>6. OwnerOutlivesJob'
    <3> SUFFICES ASSUME NEW d \in Jobs, d \in registered'
                 PROVE  (job'[d].owner \in Clients /\ conn'[job'[d].owner].job = d) \/ job'[d].left
      BY <1>2 DEF OwnerOutlivesJob
    <3>1. d # g /\ d \in registered /\ d \in Ctx
      BY <1>2, <2>3
    <3>2. (job[d].owner \in Clients /\ conn[job[d].owner].job = d) \/ job[d].left
      BY <3>1 DEF OwnersOK, OwnerOutlivesJob
    <3> QED BY <1>1, <1>2, <2>4, <3>1, <3>2
  <2>7. FinishedIsParsed'
    <3> SUFFICES ASSUME NEW c \in Clients, conn'[c].finished, ~conn'[c].misled
                 PROVE  conn'[c].job # NULL /\ job'[conn'[c].job].body # "none" /\ job'[conn'[c].job].closing
      BY <1>2 DEF FinishedIsParsed
    <3>1. CASE c = o
      <4>1. ~job[g].left
        BY <1>2, <2>4, <3>1
      <4>2. conn'[c].job = g /\ g # NULL
        BY <1>0, <1>2, <2>2, <2>4, <3>1, <4>1
      <4> QED BY <1>1, <1>4, <4>2
    <3>2. CASE c # o
      <4>1. conn'[c] = conn[c]
        BY <1>2, <2>4, <3>2
      <4>2. conn[c].job # NULL /\ job[conn[c].job].body # "none" /\ job[conn[c].job].closing
        BY <4>1 DEF OwnersOK, FinishedIsParsed
      <4>3. conn[c].job \in Ctx /\ job[conn[c].job].owner = c
        BY <4>2, OneHolder DEF HeapInv, HeldJobIsOwn
      <4>4. conn[c].job # g
        BY <3>2, <4>3
      <4> QED BY <1>1, <4>1, <4>2, <4>3, <4>4
    <3> QED BY <3>1, <3>2
  <2> QED BY <2>5, <2>6, <2>7 DEF OwnersOK
<1> QED BY <1>3, <1>4

LEMMA HandledShrinks ==
  ASSUME DataOK, NEW c \in Ctx, Handled(c)
  PROVE  batch'[c] = {} /\ \A d \in Ctx : batch'[d] \subseteq batch[d]
  BY DEF Handled, DataOK

LEMMA OwnersClient ==
  ASSUME HeapInv, OwnersOK, NEW c \in Ctx, Hangup(c) \/ ReadOnly(c) \/ AnswerPage(c) \/ AnswerAndClose(c)
  PROVE  OwnersOK'
<1>0. DataOK
  BY DEF HeapInv
<1>1. UNCHANGED heap /\ UNCHANGED job /\ Handled(c) /\ c \in Clients
  BY DEF Hangup, ReadOnly, AnswerPage, AnswerAndClose, ClientEvent, ToAnswer, Clients
<1>2. batch'[c] = {} /\ \A d \in Ctx : batch'[d] \subseteq batch[d]
  BY <1>0, <1>1, HandledShrinks
<1> DEFINE r == Received(c)
<1>4. /\ r \in ConnType /\ r.gone = conn[c].gone
      /\ r.job = conn[c].job /\ r.finished = conn[c].finished /\ r.misled = conn[c].misled
  BY <1>0, ReceivedFields
<1>5. ~IsCgi(r) => r.job = NULL
  BY <1>1, ReceivedStarted
<1>6. CASE Hangup(c)
  <2>1. PICK k \in ConnType :
           /\ conn' = [conn EXCEPT ![c] = k]
           /\ k.job = conn[c].job /\ k.gone = conn[c].gone /\ k.finished = conn[c].finished
           /\ k.misled = conn[c].misled
    BY <1>0, <1>6, HangupEffect
  <2>2. conn[c].gone
    BY <1>1, <1>6 DEF Hangup, OwnersOK, LeavingOK
  <2>4. Unregister(c)
    BY <1>6 DEF Hangup
  <2> QED BY <1>1, <1>2, <2>1, <2>2, <2>4, ClientKeeps
<1>7. CASE ReadOnly(c)
  <2>1. conn' = [conn EXCEPT ![c] = r] /\ UNCHANGED table
    BY <1>7 DEF ReadOnly
  <2> HIDE DEF r
  <2> QED BY <1>1, <1>2, <1>4, <2>1, ClientKeeps
<1>8. CASE AnswerPage(c)
  <2> DEFINE k == Reset(r)
  <2>1. conn' = [conn EXCEPT ![c] = k] /\ UNCHANGED table /\ ~IsCgi(r)
    BY <1>8 DEF AnswerPage, IsDue
  <2>2. conn[c].job = NULL
    BY <1>4, <1>5, <2>1
  <2> HIDE DEF r
  <2>3. k \in ConnType /\ k.gone = r.gone /\ k.job = NULL /\ k.finished = FALSE
    BY <1>4, ResetFields
  <2> HIDE DEF k
  <2> QED BY <1>1, <1>2, <1>4, <2>1, <2>2, <2>3, ClientKeeps
<1>9. CASE AnswerAndClose(c)
  <2>1. PICK k \in ConnType :
           /\ conn' = [conn EXCEPT ![c] = k]
           /\ k.job = conn[c].job /\ k.gone = conn[c].gone /\ k.finished = conn[c].finished
           /\ k.misled = conn[c].misled
    BY <1>0, <1>9, CloseEffect
  <2>2. Unregister(c) /\ ~IsCgi(r)
    BY <1>9 DEF AnswerAndClose, IsDue
  <2>3. k.job = NULL
    BY <1>4, <1>5, <2>1, <2>2
  <2> QED BY <1>1, <1>2, <2>1, <2>2, <2>3, ClientKeeps
<1> QED BY <1>6, <1>7, <1>8, <1>9

LEMMA OwnersPeer ==
  ASSUME HeapInv, OwnersOK, NEW c \in Ctx, Send(c) \/ Leave(c)
  PROVE  OwnersOK'
<1>0. DataOK
  BY DEF HeapInv
<1>1. UNCHANGED heap /\ UNCHANGED job /\ UNCHANGED table /\ UNCHANGED batch /\ c \in Clients /\ ~conn[c].gone
  BY DEF Send, Leave, Clients
<1>2. PICK k \in ConnType :
         /\ conn' = [conn EXCEPT ![c] = k]
         /\ k.job = conn[c].job /\ k.finished = conn[c].finished
         /\ k.misled = conn[c].misled
  BY <1>0, SendEffect, LeaveEffect
<1> QED BY <1>1, <1>2, ClientKeeps

LEMMA OwnersJob ==
  ASSUME HeapInv, OwnersOK, NEW g \in Ctx,
         JobStale(g) \/ JobTimeout(g) \/ JobRead(g) \/ Run(g) \/ Expire(g)
  PROVE  OwnersOK'
<1>0. DataOK
  BY DEF HeapInv
<1>1. UNCHANGED heap /\ g \in Jobs
  BY DEF JobStale, JobTimeout, JobRead, Run, Expire, JobEvent, Jobs
<1>2. \A d \in Ctx : batch'[d] \subseteq batch[d]
  BY <1>0, HandledShrinks DEF JobStale, JobTimeout, JobRead, Run, Expire
<1>3. CASE JobStale(g)
  <2>1. g \notin registered
    BY <1>1, <1>3 DEF JobStale, OwnersOK, LeavingOK
  <2>2. UNCHANGED <<table, conn>>
    BY <1>3, <2>1 DEF JobStale, Unregister
  <2>3. job[g] \in JobType /\ job' = [job EXCEPT ![g] = job[g]]
    BY <1>0, <1>3 DEF DataOK, JobStale
  <2> QED BY <1>1, <1>2, <2>2, <2>3, JobKeeps
<1>4. CASE JobTimeout(g)
  <2>1. PICK j \in JobType : /\ job' = [job EXCEPT ![g] = j]
                             /\ j.owner = job[g].owner /\ j.left = job[g].left
                             /\ j.closing /\ j.body # "none"
    BY <1>0, <1>4, TimeoutEffect
  <2>2. ~job[g].closing /\ Unregister(g) /\ MarkFinished(g)
    BY <1>4 DEF JobTimeout
  <2> QED BY <1>1, <1>2, <2>1, <2>2, JobKeeps
<1>5. CASE JobRead(g)
  <2>1. PICK j \in JobType :
           /\ job' = [job EXCEPT ![g] = j]
           /\ j.owner = job[g].owner /\ j.left = job[g].left
           /\ \/ MarkFinished(g) /\ Unregister(g) /\ j.closing /\ j.body # "none"
              \/ UNCHANGED <<table, conn>> /\ j.closing = job[g].closing /\ j.body = job[g].body
    BY <1>0, <1>5, JobReadEffect
  <2>2. ~job[g].closing
    BY <1>5 DEF JobRead
  <2>3. CASE MarkFinished(g) /\ Unregister(g) /\ j.closing /\ j.body # "none"
    BY <1>1, <1>2, <2>1, <2>2, <2>3, JobKeeps
  <2>4. CASE UNCHANGED <<table, conn>> /\ j.closing = job[g].closing /\ j.body = job[g].body
    BY <1>1, <1>2, <2>1, <2>4, JobKeeps
  <2> QED BY <2>1, <2>3, <2>4
<1>6. CASE Run(g) \/ Expire(g)
  <2>1. PICK j \in JobType : /\ job' = [job EXCEPT ![g] = j]
                             /\ j.owner = job[g].owner /\ j.closing = job[g].closing
                             /\ j.body = job[g].body /\ j.left = job[g].left
    BY <1>0, <1>6, RunEffect, ExpireEffect
  <2>2. UNCHANGED <<table, conn>>
    BY <1>6 DEF Run, Expire
  <2> QED BY <1>1, <1>2, <2>1, <2>2, JobKeeps
<1> QED BY <1>3, <1>4, <1>5, <1>6

\* A client that is destroyed while it has a job has lost its peer: the job is left.
LEMMA OwnersWait ==
  ASSUME HeapInv, HeapInv', OwnersOK, WaitEvent
  PROVE  OwnersOK'
<1>0. DataOK
  BY DEF HeapInv
<1>1. /\ Clients' = Clients \ closed
      /\ \A c \in Ctx : role'[c] = IF refs'[c] = 0 THEN "free" ELSE role[c]
      /\ \A c \in Ctx : role'[c] # "free" => conn'[c] = conn[c] /\ job'[c] = LeftAlone(c)
      /\ Doomed = closed \cap Clients
      /\ registered' = registered /\ closed' = {}
  BY WaitFacts
<1>2. \A c \in Clients' : c \in Clients /\ c \in Ctx /\ conn'[c] = conn[c] /\ role[c] = "client"
  BY <1>1 DEF Clients
<1>3. \A g \in Ctx : role'[g] # "free" =>
         /\ job'[g].owner = job[g].owner /\ job'[g].closing = job[g].closing
         /\ job'[g].body = job[g].body
         /\ job'[g].left = (job[g].left \/ \E d \in Doomed : conn[d].gone /\ conn[d].job = g)
  BY <1>0, <1>1, LeftFields
<1>4. \A g \in Jobs' : g \in Jobs /\ g \in Ctx /\ role'[g] # "free"
  BY <1>1 DEF Jobs
<1>5. LeavingOK'
  <2>2. \A c \in Clients' : "hup" \in batch'[c] => conn'[c].gone
    <3> SUFFICES ASSUME NEW c \in Clients', "hup" \in batch'[c] PROVE conn[c].gone
      BY <1>2
    <3>1. batch'[c] = IF c \in registered THEN Flags(c) ELSE {}
      BY <1>2 DEF WaitEvent
    <3>2. "hup" \in Flags(c)
      BY <3>1
    <3>3. Flags(c) = {"out"} \cup (IF conn[c].sent > conn[c].rcvd THEN {"in"} ELSE {})
                             \cup (IF conn[c].gone THEN {"hup"} ELSE {})
      BY <1>2 DEF Flags
    <3> QED BY <3>2, <3>3
  <2>3. \A g \in Jobs' : job'[g].closing <=> g \notin registered'
    BY <1>1, <1>3, <1>4 DEF OwnersOK, LeavingOK
  <2> QED BY <1>1, <2>2, <2>3 DEF LeavingOK
<1>6. OwnerOutlivesJob'
  <2> SUFFICES ASSUME NEW g \in Jobs', g \in registered', ~job'[g].left
               PROVE  job'[g].owner \in Clients' /\ conn'[job'[g].owner].job = g
    BY DEF OwnerOutlivesJob
  <2> DEFINE o == job[g].owner
  <2>0. /\ g \in Jobs /\ g \in Ctx /\ job'[g].owner = o /\ ~job[g].left
        /\ ~\E d \in Doomed : conn[d].gone /\ conn[d].job = g
    BY <1>3, <1>4
  <2>1. o \in Clients /\ conn[o].job = g /\ g # NULL
    BY <1>1, <2>0 DEF OwnersOK, OwnerOutlivesJob
  <2>2. o \notin closed
    <3> SUFFICES ASSUME o \in closed PROVE FALSE
      OBVIOUS
    <3>1. conn[o].gone
      BY <2>1 DEF OwnersOK, LeavingOK
    <3>2. o \in Doomed
      BY <1>1, <2>1
    <3> QED BY <2>0, <2>1, <3>1, <3>2
  <2>3. o \in Clients'
    BY <1>1, <2>1, <2>2
  <2> QED BY <1>2, <2>0, <2>1, <2>3
<1>7. FinishedIsParsed'
  <2> SUFFICES ASSUME NEW c \in Clients', conn'[c].finished, ~conn'[c].misled
               PROVE  conn'[c].job # NULL /\ job'[conn'[c].job].body # "none" /\ job'[conn'[c].job].closing
    BY DEF FinishedIsParsed
  <2>1. conn'[c] = conn[c] /\ c \in Clients
    BY <1>2
  <2>2. conn[c].job # NULL /\ job[conn[c].job].body # "none" /\ job[conn[c].job].closing
    BY <2>1 DEF OwnersOK, FinishedIsParsed
  <2>3. role'[conn[c].job] = "job"
    BY <2>1, <2>2 DEF HeapInv, HeldJobIsOwn
  <2>4. conn[c].job \in Ctx
    BY <2>1, <2>2, OneHolder
  <2> QED BY <1>3, <2>1, <2>2, <2>3, <2>4
<1> QED BY <1>5, <1>6, <1>7 DEF OwnersOK

LEMMA OwnersAccept ==
  ASSUME HeapInv, OwnersOK, Accept
  PROVE  OwnersOK'
<1>0. DataOK
  BY DEF HeapInv
<1>1. PICK c \in Free : Register(c, "client", 1) /\ conn' = [conn EXCEPT ![c] = NewConn]
  BY DEF Accept
<1>2. c \in Ctx /\ c \notin closed /\ batch[c] = {} /\ role[c] = "free"
  BY FreeAddress DEF Free
<1>3. /\ registered' = registered \cup {c} /\ closed' = closed
      /\ role'[c] = "client"
      /\ \A d \in Ctx : d # c => role'[d] = role[d]
  BY <1>1, RegisterHeap DEF Accept, CannotRegister
<1>4. /\ conn'[c] = NewConn
      /\ \A d \in Ctx : d # c => conn'[d] = conn[d]
      /\ job' = job /\ batch' = batch
  BY <1>0, <1>1, <1>2 DEF DataOK, Accept
<1>5. ~NewConn.finished
  BY DEF NewConn
<1>6. /\ Clients' = Clients \cup {c} /\ Jobs' = Jobs /\ c \notin Clients /\ c \notin Jobs
      /\ Clients \subseteq Ctx /\ Jobs \subseteq Ctx
  BY <1>2, <1>3 DEF Clients, Jobs
<1>7. LeavingOK'
  <2>1. \A d \in Clients' :
          /\ "hup" \in batch'[d] => conn'[d].gone
          /\ d \in closed' => batch'[d] = {} /\ (conn'[d].job # NULL => conn'[d].gone)
    BY <1>2, <1>3, <1>4, <1>6 DEF OwnersOK, LeavingOK
  <2>2. \A g \in Jobs' : job'[g].closing <=> g \notin registered'
    BY <1>3, <1>4, <1>6 DEF OwnersOK, LeavingOK
  <2> QED BY <2>1, <2>2 DEF LeavingOK
<1>8. OwnerOutlivesJob'
  BY <1>3, <1>4, <1>6 DEF OwnersOK, OwnerOutlivesJob
<1>9. FinishedIsParsed'
  BY <1>4, <1>5, <1>6 DEF OwnersOK, FinishedIsParsed
<1> QED BY <1>7, <1>8, <1>9 DEF OwnersOK

LEMMA OwnersStart ==
  ASSUME HeapInv, OwnersOK, NEW c \in Ctx, StartScript(c)
  PROVE  OwnersOK'
<1>0. DataOK
  BY DEF HeapInv
<1>1. PICK g \in Free : StartAt(c, g)
  BY DEF StartScript, StartAt
<1>2. g \in Ctx /\ g \notin closed /\ batch[g] = {} /\ role[g] = "free"
  BY FreeAddress DEF Free
<1>3. /\ registered' = registered \cup {g} /\ closed' = closed
      /\ role'[g] = "job"
      /\ \A d \in Ctx : d # g => role'[d] = role[d]
  BY <1>1, RegisterHeap DEF StartScript, CannotRegister, StartAt
<1>4. c \in Clients /\ c # g /\ batch[c] # {} /\ Received(c).job = NULL
  BY <1>2 DEF StartScript, ToStart, ToAnswer, ClientEvent, Clients
<1>5. conn[c].job = NULL
  BY <1>0, <1>4, ReceivedFields
<1>6. PICK k \in ConnType :
        /\ conn' = [conn EXCEPT ![c] = k]
        /\ k.gone = conn[c].gone /\ k.finished = conn[c].finished /\ k.misled = conn[c].misled
        /\ k.job = g
  BY <1>0, <1>1, <1>2, StartEffect
<1>7. /\ conn'[c] = k
      /\ \A d \in Ctx : d # c => conn'[d] = conn[d]
  BY <1>0, <1>6 DEF DataOK
<1>8. /\ job'[g] = NewJob(c)
      /\ \A d \in Ctx : d # g => job'[d] = job[d]
  BY <1>0, <1>1, <1>2 DEF DataOK, StartAt
<1>9. NewJob(c).owner = c /\ ~NewJob(c).closing
  BY DEF NewJob
<1>10. /\ Clients' = Clients /\ Jobs' = Jobs \cup {g} /\ g \notin Jobs /\ g \notin Clients
       /\ Clients \subseteq Ctx /\ Jobs \subseteq Ctx
  BY <1>2, <1>3 DEF Clients, Jobs
<1>11. \A d \in Ctx : batch'[d] \subseteq batch[d]
  BY <1>0, HandledShrinks DEF StartScript
<1>12. c \notin closed /\ (conn[c].finished => conn[c].misled)
  BY <1>4, <1>5 DEF OwnersOK, LeavingOK, FinishedIsParsed
<1>13. LeavingOK'
  <2>1. \A d \in Clients : "hup" \in batch'[d] => conn'[d].gone
    BY <1>4, <1>6, <1>7, <1>10, <1>11 DEF OwnersOK, LeavingOK
  <2>2. \A d \in Clients : d \in closed' => batch'[d] = {} /\ (conn'[d].job # NULL => conn'[d].gone)
    BY <1>3, <1>7, <1>10, <1>11, <1>12 DEF OwnersOK, LeavingOK
  <2>3. \A d \in Jobs' : job'[d].closing <=> d \notin registered'
    BY <1>3, <1>8, <1>9, <1>10 DEF OwnersOK, LeavingOK
  <2> QED BY <1>10, <2>1, <2>2, <2>3 DEF LeavingOK
<1>14. OwnerOutlivesJob'
  <2> SUFFICES ASSUME NEW d \in Jobs', d \in registered'
               PROVE  (job'[d].owner \in Clients /\ conn'[job'[d].owner].job = d) \/ job'[d].left
    BY <1>10 DEF OwnerOutlivesJob
  <2>1. CASE d = g
    BY <1>4, <1>6, <1>7, <1>8, <1>9, <2>1
  <2>2. CASE d # g
    <3>1. d \in Jobs /\ d \in registered /\ d \in Ctx /\ d # NULL
      BY <1>3, <1>10, <2>2
    <3>2. (job[d].owner \in Clients /\ conn[job[d].owner].job = d) \/ job[d].left
      BY <3>1 DEF OwnersOK, OwnerOutlivesJob
    <3>3. CASE job[d].left
      BY <1>8, <2>2, <3>1, <3>3
    <3>4. CASE job[d].owner \in Clients /\ conn[job[d].owner].job = d
      <4>1. job[d].owner # c
        BY <1>5, <3>1, <3>4
      <4> QED BY <1>7, <1>8, <1>10, <2>2, <3>1, <3>4, <4>1
    <3> QED BY <3>2, <3>3, <3>4
  <2> QED BY <2>1, <2>2
<1>15. FinishedIsParsed'
  <2> SUFFICES ASSUME NEW d \in Clients, conn'[d].finished, ~conn'[d].misled
               PROVE  conn'[d].job # NULL /\ job'[conn'[d].job].body # "none" /\ job'[conn'[d].job].closing
    BY <1>10 DEF FinishedIsParsed
  <2>1. d # c /\ conn'[d] = conn[d]
    BY <1>6, <1>7, <1>10, <1>12
  <2>2. conn[d].job # NULL /\ job[conn[d].job].body # "none" /\ job[conn[d].job].closing
    BY <2>1 DEF OwnersOK, FinishedIsParsed
  <2>3. conn[d].job \in Ctx /\ role[conn[d].job] = "job"
    BY <2>2, OneHolder
  <2>4. conn[d].job # g
    BY <1>2, <2>3
  <2> QED BY <1>8, <2>1, <2>2, <2>3, <2>4
<1> QED BY <1>13, <1>14, <1>15 DEF OwnersOK

\* AnswerScript() lets go of a job that is no longer registered, or that was marked
\* finished too early.
LEMMA OwnersAnswer ==
  ASSUME HeapInv, OwnersOK, NEW c \in Ctx, AnswerScript(c)
  PROVE  OwnersOK'
<1>0. DataOK
  BY DEF HeapInv
<1>1. PICK g \in Ctx, k \in ConnType : Answered(c, g, k)
  BY <1>0, AnswerEffect
<1>2. c \in Clients
  BY DEF AnswerScript, ToAnswer, ClientEvent, Clients
<1>3. conn[c].job = g /\ g # NULL
  BY <1>1 DEF Answered
<1>4. role[g] = "job" /\ g # c /\ Holders(g) = {c} /\ g \in Jobs /\ job[g].owner = c
  BY <1>2, <1>3, OneHolder DEF HeapInv, HeldJobIsOwn, Jobs
<1>5. /\ \A d \in Ctx : d # g => (d \in registered' <=> d \in registered) /\ (d \in closed' <=> d \in closed)
  BY <1>1, UnregisterHeap DEF Answered
<1>6. /\ conn'[c] = k
      /\ \A d \in Ctx : d # c => conn'[d] = conn[d]
      /\ k.job = NULL /\ ~k.finished /\ k.gone = conn[c].gone
  BY <1>0, <1>1 DEF DataOK, Answered
<1>7. /\ refs[g] # 1 => /\ job'[g].left = (job[g].left \/ conn[c].misled)
                        /\ \/ /\ ~job[g].expired /\ job'[g].closing = job[g].closing
                              /\ UNCHANGED table
                           \/ Unregister(g) /\ job'[g].closing
      /\ \A d \in Ctx \ {g} :
           /\ job'[d].owner = job[d].owner /\ job'[d].left = job[d].left
           /\ job'[d].closing = job[d].closing /\ job'[d].body = job[d].body
  BY <1>1 DEF Answered, Released
<1>9. /\ role'[g] = IF refs[g] = 1 THEN "free" ELSE role[g]
      /\ \A d \in Ctx : d # g => role'[d] = role[d]
  <2>1. role' = [d \in Ctx |-> IF refs[d] = (IF d = g THEN 1 ELSE 0) THEN "free" ELSE role[d]]
    BY <1>1 DEF Answered
  <2> QED BY <2>1 DEF HeapInv, HeapOK
<1>10. Clients' = Clients /\ Clients \subseteq Ctx /\ Jobs' \subseteq Jobs /\ Jobs \subseteq Ctx
  BY <1>4, <1>9 DEF Clients, Jobs
<1>11. g \in Jobs' => refs[g] # 1
  BY <1>9 DEF Jobs
<1>12. \A d \in Ctx : batch'[d] \subseteq batch[d]
  BY <1>0, HandledShrinks DEF AnswerScript
<1>13. g \in Jobs' => (job'[g].closing <=> g \notin registered')
  <2> SUFFICES ASSUME g \in Jobs' PROVE job'[g].closing <=> g \notin registered'
    OBVIOUS
  <2>1. CASE job'[g].closing = job[g].closing /\ UNCHANGED table
    BY <1>4, <2>1 DEF OwnersOK, LeavingOK, table
  <2>2. CASE Unregister(g) /\ job'[g].closing
    BY <2>2 DEF Unregister, table
  <2> QED BY <1>7, <1>11, <2>1, <2>2
<1>14. g \in Jobs' /\ g \in registered' => job'[g].left
  <2> SUFFICES ASSUME g \in Jobs', g \in registered' PROVE job'[g].left
    OBVIOUS
  <2>1. ~job'[g].closing
    BY <1>13
  <2>2. ~job[g].expired /\ ~job[g].closing /\ job'[g].left = (job[g].left \/ conn[c].misled)
    BY <1>7, <1>11, <2>1
  <2>3. Received(c).job = g /\ Received(c).finished = conn[c].finished
    BY <1>0, <1>3, ReceivedFields
  <2>4. conn[c].finished
    BY <1>3, <2>2, <2>3 DEF AnswerScript, Waits
  <2>5. conn[c].misled
    BY <1>2, <1>3, <2>2, <2>4 DEF OwnersOK, FinishedIsParsed
  <2> QED BY <2>2, <2>5
<1>15. LeavingOK'
  <2>1. \A d \in Clients : "hup" \in batch'[d] => conn'[d].gone
    BY <1>2, <1>6, <1>10, <1>12 DEF OwnersOK, LeavingOK
  <2>2. \A d \in Clients : d \in closed' => batch'[d] = {} /\ (conn'[d].job # NULL => conn'[d].gone)
    <3> SUFFICES ASSUME NEW d \in Clients, d \in closed'
                 PROVE  batch'[d] = {} /\ (conn'[d].job # NULL => conn'[d].gone)
      OBVIOUS
    <3>1. d # g /\ d \in Ctx
      BY <1>4 DEF Clients
    <3>2. d \in closed
      BY <1>5, <3>1
    <3>3. batch[d] = {} /\ (conn[d].job # NULL => conn[d].gone)
      BY <3>2 DEF OwnersOK, LeavingOK
    <3> QED BY <1>6, <1>12, <3>1, <3>3
  <2>3. \A d \in Jobs' : job'[d].closing <=> d \notin registered'
    <3> SUFFICES ASSUME NEW d \in Jobs', d # g PROVE job'[d].closing <=> d \notin registered'
      BY <1>13
    <3>1. d \in Jobs /\ d \in Ctx \ {g}
      BY <1>10
    <3>2. job[d].closing <=> d \notin registered
      BY <3>1 DEF OwnersOK, LeavingOK
    <3> QED BY <1>5, <1>7, <3>1, <3>2
  <2> QED BY <1>10, <2>1, <2>2, <2>3 DEF LeavingOK
<1>16. OwnerOutlivesJob'
  <2> SUFFICES ASSUME NEW d \in Jobs', d \in registered', d # g
               PROVE  (job'[d].owner \in Clients /\ conn'[job'[d].owner].job = d) \/ job'[d].left
    BY <1>10, <1>14 DEF OwnerOutlivesJob
  <2>1. d \in Jobs /\ d \in Ctx \ {g} /\ d \in registered
    BY <1>5, <1>10
  <2>2. (job[d].owner \in Clients /\ conn[job[d].owner].job = d) \/ job[d].left
    BY <2>1 DEF OwnersOK, OwnerOutlivesJob
  <2>3. CASE job[d].left
    BY <1>7, <2>1, <2>3
  <2>4. CASE job[d].owner \in Clients /\ conn[job[d].owner].job = d
    <3>1. job[d].owner # c
      BY <1>3, <2>1, <2>4
    <3> QED BY <1>6, <1>7, <1>10, <2>1, <2>4, <3>1
  <2> QED BY <2>2, <2>3, <2>4
<1>17. FinishedIsParsed'
  <2> SUFFICES ASSUME NEW d \in Clients, conn'[d].finished, ~conn'[d].misled
               PROVE  conn'[d].job # NULL /\ job'[conn'[d].job].body # "none" /\ job'[conn'[d].job].closing
    BY <1>10 DEF FinishedIsParsed
  <2>1. d # c /\ conn'[d] = conn[d]
    BY <1>6, <1>10
  <2>2. conn[d].job # NULL /\ job[conn[d].job].body # "none" /\ job[conn[d].job].closing
    BY <2>1 DEF OwnersOK, FinishedIsParsed
  <2>3. conn[d].job \in Ctx /\ job[conn[d].job].owner = d
    BY <2>2, OneHolder DEF HeapInv, HeldJobIsOwn
  <2>4. conn[d].job # g
    BY <1>4, <2>1, <2>3
  <2> QED BY <1>7, <2>1, <2>2, <2>3, <2>4
<1> QED BY <1>15, <1>16, <1>17 DEF OwnersOK

LEMMA OwnersStep ==
  ASSUME HeapInv, OwnersOK, [Next]_vars
  PROVE  OwnersOK'
<1>1. HeapInv'
  BY HeapStep
<1>2. CASE WaitEvent
  BY <1>1, <1>2, OwnersWait
<1>3. CASE Accept
  BY <1>3, OwnersAccept
<1>4. CASE UNCHANGED <<table, heap, conn, job, batch>>
  BY <1>4 DEF OwnersOK, table, heap, LeavingOK, OwnerOutlivesJob, FinishedIsParsed, Clients, Jobs
<1>5. ASSUME NEW c \in Ctx, Handle(c)
      PROVE  OwnersOK'
  <2>1. CASE StartFails(c) \/ BrokenPipe(c)
    BY <1>4, <2>1 DEF StartFails, BrokenPipe
  <2> QED BY <1>5, <2>1, OwnersClient, OwnersJob, OwnersStart, OwnersAnswer DEF Handle
<1>6. ASSUME NEW c \in Ctx, Send(c) \/ Leave(c) \/ Run(c) \/ Expire(c)
      PROVE  OwnersOK'
  BY <1>6, OwnersPeer, OwnersJob
<1>7. CASE AcceptFails \/ Connect \/ UNCHANGED vars
  BY <1>4, <1>7 DEF AcceptFails, Connect, vars
<1> QED BY <1>2, <1>3, <1>5, <1>6, <1>7 DEF Next, Server, World, Terminated

LEMMA OwnersInvariance == Spec => [](HeapInv /\ OwnersOK)
<1>1. Init => HeapInv /\ OwnersOK
  <2> SUFFICES ASSUME Init PROVE OwnersOK
    BY HeapInit
  <2>1. Clients = {} /\ Jobs = {}
    BY DEF Init, Clients, Jobs
  <2> QED BY <2>1 DEF OwnersOK, LeavingOK, OwnerOutlivesJob, FinishedIsParsed
<1>2. HeapInv /\ OwnersOK /\ [Next]_vars => (HeapInv /\ OwnersOK)'
  BY HeapStep, OwnersStep
<1> QED BY <1>1, <1>2, PTL DEF Spec

\* The reference an IOCGIHandler keeps to its client's context is good as long as the
\* handler can be called, but for the jobs whose client has left them.
THEOREM OwnerIsThere == Spec => []OwnerOutlivesJob
  BY OwnersInvariance, PTL DEF OwnersOK

\* A client that is told its script has finished finds the parsed answer, unless it
\* is a job whose client had left it that told it.
THEOREM FinishedMeansParsed == Spec => []FinishedIsParsed
  BY OwnersInvariance, PTL DEF OwnersOK
=============================================================================
