------------------------------ MODULE EventLoop ------------------------------
(***************************************************************************)
(* The event loop of webserv: Server::launch() alternates wait_event() and *)
(* handle_epoll_event(), which calls the handler of every event of the     *)
(* batch.  The contexts the events point to are reference counted          *)
(* (DolbayobPTR): by the map of registered events, by the list of contexts *)
(* whose destruction waits for the next wait_event(), and, for a script's  *)
(* context, by the client whose request it answers.                        *)
(*                                                                         *)
(* The server is one thread, so a step is a whole call of a handler; what  *)
(* peers, scripts and the clock do falls between two steps, and where a    *)
(* handler makes two system calls, between those.  The flags of an event   *)
(* are those of the moment epoll_wait() returned it.                       *)
(*                                                                         *)
(* A request is two parts, which arrive together or apart: the halves of   *)
(* the header, or for "post" the header and the body.  A peer sends its    *)
(* next request after it has the answer.  Answers fit the send buffer.     *)
(***************************************************************************)
EXTENDS Integers, FiniteSets

CONSTANTS
  Ctx,        \* addresses an IEventContext, with all it owns, may be allocated at
  NULL,
  Capacity,   \* _events_capacity
  MaxPeers,   \* bound: connections at a time
  Requests,   \* kinds of request the peers send
  Faults      \* whether accept(), pipe() and fork() may fail

ASSUME CtxAssumption == IsFiniteSet(Ctx) /\ NULL \notin Ctx
ASSUME BoundsAssumption == Capacity \in Nat \ {0} /\ MaxPeers \in Nat
ASSUME PeersAssumption == /\ Requests \subseteq {"page", "bad", "script", "post"}
                          /\ Faults \in BOOLEAN

VARIABLES
  up,         \* FALSE once launch() has thrown or a handler has called exit()
  registered, \* _events_contexts
  size,       \* _events_size, which counts the listening socket too
  closed,     \* _closed_events_contexts
  role,       \* role[c]: what the context at c is: a client's, a script's job, or "free"
  refs,       \* refs[c]: *_ref_counter
  conn,       \* conn[c]: the peer, the handler and the IOClientContext of a client
  job,        \* job[c]: the script, the handler and the IOCGIContext of a job
  batch,      \* batch[c]: flags of c's event in what is left of _events_arr, {} if it has none
  backlog,    \* a peer waits to be accepted
  listening   \* the event of the listening socket is still in the batch

table == <<registered, size, closed>>
heap  == <<role, refs>>
wire  == <<backlog, listening>>
vars  == <<up, table, heap, conn, job, batch, wire>>

Clients == {c \in Ctx : role[c] = "client"}
Jobs    == {c \in Ctx : role[c] = "job"}
Free    == {c \in Ctx : role[c] = "free"}

NewConn == [gone |-> FALSE, req |-> "none", sent |-> 0, rcvd |-> 0, status |-> "ok",
            job |-> NULL, finished |-> FALSE, closing |-> FALSE, misled |-> FALSE]

NewJob(c) == [owner |-> c, script |-> "running", written |-> FALSE, got |-> FALSE,
              expired |-> FALSE, body |-> "none", closing |-> FALSE, left |-> FALSE]

\* Two fields are observed only: the client of a job has left it before its answer, and
\* a client has been marked finished by a job that was left.

-----------------------------------------------------------------------------
(* The request of a connection k. *)

HeaderParsed(k) == \/ k.req \in {"page", "script"} /\ k.rcvd = 2
                   \/ k.req = "post" /\ k.rcvd > 0
IsCgi(k)        == HeaderParsed(k) /\ k.req \in {"script", "post"}
IsReady(k)      == k.rcvd = 2

\* read_and_parse(): the status it leaves in _status.
Status(k) == IF HeaderParsed(k) THEN "ok" ELSE IF k.rcvd < 2 THEN "notready" ELSE "error"

\* handle(), up to EPOLLOUT: once a header names a script, nothing more is read.
Received_stale(c) ==                \* mutant: _status is not assigned
  IF "in" \in batch[c] /\ ~IsCgi(conn[c])
  THEN [conn[c] EXCEPT !.rcvd = conn[c].sent] ELSE conn[c]
Received(c) ==
  LET k == [conn[c] EXCEPT !.rcvd = conn[c].sent]
  IN  IF "in" \in batch[c] /\ ~IsCgi(conn[c]) THEN [k EXCEPT !.status = Status(k)] ELSE conn[c]

\* handle_default_request(): whether it sends anything.
IsDue(k) == ~IsCgi(k) /\ k.status # "notready" /\ (HeaderParsed(k) \/ k.status = "error")

\* IOClientContext::reset(); the peer has its answer, _status stays.
Reset_flag(k) ==                    \* mutant: is_cgi_request_finished is not reset
  [NewConn EXCEPT !.gone = k.gone, !.status = k.status, !.finished = k.finished]
Reset(k) == [NewConn EXCEPT !.gone = k.gone, !.status = k.status]

-----------------------------------------------------------------------------
(* ServerEvent and DolbayobPTR. *)

\* register_event() of a new context at c, which n pointers refer to when it returns.
Register(c, what, n) ==
  /\ role' = [role EXCEPT ![c] = what]
  /\ refs' = [refs EXCEPT ![c] = n]
  /\ registered' = registered \cup {c}
  /\ size' = size + 1
  /\ UNCHANGED closed

\* unregister_event(): the reference moves from the map to the list.
Unregister_now(c) ==                \* mutant: nothing when the context is in the map ...
  /\ registered' = registered \ {c}
  /\ closed' = closed \cup {c}
  /\ size' = size - 1               \* ... is checked first
Unregister(c) ==
  IF c \in registered
  THEN /\ registered' = registered \ {c}
       /\ closed' = closed \cup {c}
       /\ size' = size - 1
  ELSE UNCHANGED table

\* The new contents of the heap when drop[c] pointers to c have been unlinked.
Unlink(drop) ==
  /\ refs' = [c \in Ctx |-> refs[c] - drop[c]]
  /\ role' = [c \in Ctx |-> IF refs[c] = drop[c] THEN "free" ELSE role[c]]

Gone(c, drop) == refs[c] = drop[c]

\* wait_event(), first half: clients that lose their last pointer let go of their job.
Doomed == {c \in closed \cap Clients : refs[c] = 1}

Dropped_kept == [c \in Ctx |-> IF c \in closed THEN 1 ELSE 0]   \* mutant: no reset() in the destructor
Dropped_none == [c \in Ctx |-> 0]   \* mutant: ~DolbayobPTR() does not unlink_ptr()
Dropped ==
  [c \in Ctx |-> (IF c \in closed THEN 1 ELSE 0)
                   + (IF \E d \in Doomed : conn[d].job = c THEN 1 ELSE 0)]

LeftAlone(g) == [job[g] EXCEPT !.left = @ \/ \E d \in Doomed : conn[d].gone /\ conn[d].job = g]

\* epoll_wait(): a client can always be written to; a pipe reports data and its end.
Flags(c) ==
  CASE role[c] = "client" -> {"out"} \cup (IF conn[c].sent > conn[c].rcvd THEN {"in"} ELSE {})
                                     \cup (IF conn[c].gone THEN {"hup"} ELSE {})
    [] role[c] = "job"    -> (IF job[c].written /\ ~job[c].got THEN {"in"} ELSE {})
                               \cup (IF job[c].script # "running" THEN {"hup"} ELSE {})
    [] OTHER              -> {}

BatchDone == ~listening /\ \A c \in Ctx : batch[c] = {}

WaitEvent_early ==                  \* mutant: the list is cleared between two events as well
  /\ up
  /\ Unlink(Dropped)
  /\ conn' = [c \in Ctx |-> IF role'[c] = "free" THEN NewConn ELSE conn[c]]
  /\ job' = [c \in Ctx |-> IF role'[c] = "free" THEN NewJob(NULL) ELSE LeftAlone(c)]
  /\ closed' = {}
  /\ batch' = IF BatchDone THEN [c \in Ctx |-> IF c \in registered THEN Flags(c) ELSE {}] ELSE batch
  /\ listening' = IF BatchDone THEN backlog ELSE listening
  /\ UNCHANGED <<up, registered, size, backlog>>
WaitEvent ==
  /\ up
  /\ BatchDone
  /\ Unlink(Dropped)
  /\ conn' = [c \in Ctx |-> IF role'[c] = "free" THEN NewConn ELSE conn[c]]
  /\ job' = [c \in Ctx |-> IF role'[c] = "free" THEN NewJob(NULL) ELSE LeftAlone(c)]
  /\ closed' = {}
  /\ batch' = [c \in Ctx |-> IF c \in registered THEN Flags(c) ELSE {}]
  /\ listening' = backlog
  /\ UNCHANGED <<up, registered, size, backlog>>

Handled(c) == batch' = [batch EXCEPT ![c] = {}]

-----------------------------------------------------------------------------
(* The listening socket: IOServerHandler::handle(). *)

\* No address left is std::bad_alloc; at Capacity the handlers call exit(127).
CannotRegister == Free = {} \/ size = Capacity

Accept ==
  /\ up
  /\ listening
  /\ ~CannotRegister
  /\ \E c \in Free : Register(c, "client", 1) /\ conn' = [conn EXCEPT ![c] = NewConn]
  /\ backlog' = FALSE
  /\ listening' = FALSE
  /\ UNCHANGED <<up, job, batch>>

\* What a handler throws leaves launch() and main().
AcceptFails ==
  /\ up
  /\ listening
  /\ Faults \/ CannotRegister
  /\ up' = FALSE
  /\ UNCHANGED <<table, heap, conn, job, batch, wire>>

-----------------------------------------------------------------------------
(* A client: IOClientHandler::handle(). *)

ClientEvent(c) == up /\ role[c] = "client" /\ batch[c] # {}
ToAnswer(c)    == ClientEvent(c) /\ "hup" \notin batch[c]

Hangup(c) ==
  /\ ClientEvent(c)
  /\ "hup" \in batch[c]
  /\ conn' = [conn EXCEPT ![c].closing = TRUE]
  /\ Unregister(c)
  /\ Handled(c)
  /\ UNCHANGED <<up, heap, job, wire>>

Waits(k) == k.job # NULL /\ ~job[k.job].expired /\ ~k.finished

\* Reads what there is to read, and has nothing to write.
ReadOnly(c) ==
  LET k == Received(c) IN
  /\ ToAnswer(c)
  /\ IF IsCgi(k) THEN (k.job = NULL /\ ~IsReady(k)) \/ Waits(k) ELSE ~IsDue(k)
  /\ conn' = [conn EXCEPT ![c] = k]
  /\ Handled(c)
  /\ UNCHANGED <<up, table, heap, job, wire>>

\* handle_default_request(): the answer is sent, the connection stays.
AnswerPage(c) ==
  LET k == Received(c) IN
  /\ ToAnswer(c)
  /\ IsDue(k)
  /\ k.status = "ok"
  /\ conn' = [conn EXCEPT ![c] = Reset(k)]
  /\ Handled(c)
  /\ UNCHANGED <<up, table, heap, job, wire>>

\* ... an answer with an error status is sent, or write() fails: the connection closes.
AnswerAndClose(c) ==
  LET k == Received(c) IN
  /\ ToAnswer(c)
  /\ IsDue(k)
  /\ conn' = [conn EXCEPT ![c] = [k EXCEPT !.closing = TRUE]]
  /\ Unregister(c)
  /\ Handled(c)
  /\ UNCHANGED <<up, heap, job, wire>>

\* ... or the peer has gone: SIGPIPE, for which there is no handler.
BrokenPipe(c) ==
  LET k == Received(c) IN
  /\ ToAnswer(c)
  /\ k.gone
  /\ IsDue(k) \/ (IsCgi(k) /\ k.job # NULL /\ ~Waits(k))
  /\ up' = FALSE
  /\ UNCHANGED <<table, heap, conn, job, batch, wire>>

ToStart(c) == LET k == Received(c)
              IN  ToAnswer(c) /\ IsCgi(k) /\ k.job = NULL /\ IsReady(k)

\* create_cgi_process()
StartScript_unlinked(c) ==          \* mutant: the client's pointer is not counted
  /\ ToStart(c)
  /\ ~CannotRegister
  /\ \E g \in Free :
       /\ Register(g, "job", 1)
       /\ job' = [job EXCEPT ![g] = NewJob(c)]
       /\ conn' = [conn EXCEPT ![c] = [Received(c) EXCEPT !.job = g]]
  /\ Handled(c)
  /\ UNCHANGED <<up, wire>>
StartScript(c) ==
  /\ ToStart(c)
  /\ ~CannotRegister
  /\ \E g \in Free :
       /\ Register(g, "job", 2)
       /\ job' = [job EXCEPT ![g] = NewJob(c)]
       /\ conn' = [conn EXCEPT ![c] = [Received(c) EXCEPT !.job = g]]
  /\ Handled(c)
  /\ UNCHANGED <<up, wire>>

\* ... a 500 is sent and the exception thrown on.
StartFails(c) ==
  /\ ToStart(c)
  /\ Faults \/ CannotRegister
  /\ up' = FALSE
  /\ UNCHANGED <<table, heap, conn, job, batch, wire>>

-----------------------------------------------------------------------------
(* A script's job: IOCGIHandler. *)

\* parse(): a second call appends to what the first one was given.
Parse(j, text) == IF j.body = "none" THEN text ELSE "mixed"

\* handle() of an expired timer: 504, kill(), no waitpid(); cgi_pid becomes -1.
TimedOut(j) ==
  [j EXCEPT !.body = Parse(j, "e504"), !.closing = TRUE,
            !.script = IF j.script = "running" THEN "killed" ELSE j.script]

\* A second time it is kill(-1, SIGKILL), which ends every script.
Survivors(g) ==
  IF job[g].body # "e504" THEN job
  ELSE [d \in Ctx |-> IF role[d] = "job" /\ job[d].script = "running"
                       THEN [job[d] EXCEPT !.script = "crashed"] ELSE job[d]]

\* is_cgi_request_finished is written through a reference, whatever is there by now.
Finish(k, j) == [k EXCEPT !.finished = TRUE, !.misled = @ \/ j.left]

MarkFinished(g) ==
  LET o == job[g].owner
  IN  conn' = IF role[o] # "client" THEN conn ELSE [conn EXCEPT ![o] = Finish(@, job[g])]

JobEvent(g) == up /\ role[g] = "job" /\ batch[g] # {}

\* An earlier event of the batch has closed it: unregister_event() again.
JobStale(g) ==
  /\ JobEvent(g)
  /\ job[g].closing
  /\ Unregister(g)
  /\ Handled(g)
  /\ UNCHANGED <<up, heap, conn, job, wire>>

JobTimeout(g) ==
  /\ JobEvent(g)
  /\ ~job[g].closing
  /\ job[g].expired
  /\ job' = [job EXCEPT ![g] = TimedOut(job[g])]
  /\ MarkFinished(g)
  /\ Unregister(g)
  /\ Handled(g)
  /\ UNCHANGED <<up, heap, wire>>

\* What the script of j may have become by the next system call.
Ahead(j) ==
  IF j.script # "running" THEN {j}
  ELSE {i \in [owner : {j.owner}, script : {"running", "exited", "failed", "crashed"},
               written : {j.written, TRUE}, got : {j.got}, expired : {j.expired},
               body : {j.body}, closing : {j.closing}, left : {j.left}] : i.script = "exited" => i.written}

Ended(j) == j.script \in {"exited", "failed", "crashed"}

\* handle_default() after the read(): waitpid(), and the text that is parsed.
\* WEXITSTATUS is 0 for a script a signal has ended.
Output(j) == IF j.script = "failed" THEN "e500" ELSE IF j.got THEN "full" ELSE "partial"

JobRead(g) ==
  /\ JobEvent(g)
  /\ ~job[g].closing
  /\ ~job[g].expired
  /\ \E j \in Ahead([job[g] EXCEPT !.got = job[g].written]), late \in BOOLEAN :
       IF Ended(j) \/ late
       THEN /\ job' = [job EXCEPT ![g] = [j EXCEPT !.expired = late, !.closing = TRUE,
                         !.body = Parse(j, Output(j)),
                         !.script = IF Ended(j) THEN "reaped" ELSE j.script]]
            /\ MarkFinished(g)
            /\ Unregister(g)
       ELSE /\ job' = [job EXCEPT ![g] = j]
            /\ UNCHANGED <<table, conn>>
  /\ Handled(g)
  /\ UNCHANGED <<up, heap, wire>>

Let(c, g) == [job[g] EXCEPT !.left = @ \/ conn[c].misled]

\* handle_cgi_request() of a started script: its answer, or a 504.
AnswerScript_registered(c) ==       \* mutant: the job's event is left registered
  LET k == Received(c)
      g == k.job
      late == job[g].expired
      drop == [d \in Ctx |-> IF d = g THEN 1 ELSE 0]
  IN
  /\ ToAnswer(c)
  /\ IsCgi(k)
  /\ g # NULL
  /\ ~Waits(k)
  /\ UNCHANGED table
  /\ Unlink(drop)
  /\ job' = [(IF late THEN Survivors(g) ELSE job) EXCEPT ![g] =
                IF Gone(g, drop) THEN NewJob(NULL)
                ELSE IF late THEN TimedOut(Let(c, g)) ELSE Let(c, g)]
  /\ conn' = [conn EXCEPT ![c] = Reset(k)]
  /\ Handled(c)
  /\ UNCHANGED <<up, wire>>
AnswerScript(c) ==
  LET k == Received(c)
      g == k.job
      late == job[g].expired
      drop == [d \in Ctx |-> IF d = g THEN 1 ELSE 0]
  IN
  /\ ToAnswer(c)
  /\ IsCgi(k)
  /\ g # NULL
  /\ ~Waits(k)
  /\ IF late THEN Unregister(g) ELSE UNCHANGED table
  /\ Unlink(drop)
  /\ job' = [(IF late THEN Survivors(g) ELSE job) EXCEPT ![g] =
                IF Gone(g, drop) THEN NewJob(NULL)
                ELSE IF late THEN TimedOut(Let(c, g)) ELSE Let(c, g)]
  /\ conn' = [conn EXCEPT ![c] = Reset(k)]
  /\ Handled(c)
  /\ UNCHANGED <<up, wire>>

-----------------------------------------------------------------------------
(* Peers, scripts and the clock. *)

Connect ==
  /\ up
  /\ ~backlog
  /\ Cardinality(Clients) < MaxPeers
  /\ backlog' = TRUE
  /\ UNCHANGED <<up, table, heap, conn, job, batch, listening>>

Send(c) ==
  /\ up
  /\ role[c] = "client"
  /\ ~conn[c].gone
  /\ \E r \in Requests, n \in {1, 2} :
       /\ conn[c].sent < n
       /\ conn[c].sent > 0 => r = conn[c].req
       /\ conn' = [conn EXCEPT ![c] = [@ EXCEPT !.req = r, !.sent = n]]
  /\ UNCHANGED <<up, table, heap, job, batch, wire>>

Leave(c) ==
  /\ up
  /\ role[c] = "client"
  /\ ~conn[c].gone
  /\ conn' = [conn EXCEPT ![c].gone = TRUE]
  /\ UNCHANGED <<up, table, heap, job, batch, wire>>

\* The script writes, ends, or both.
Run(g) ==
  /\ up
  /\ role[g] = "job"
  /\ \E j \in Ahead(job[g]) : job' = [job EXCEPT ![g] = j]
  /\ UNCHANGED <<up, table, heap, conn, batch, wire>>

\* The five seconds of the script's timer are over.
Expire(g) ==
  /\ up
  /\ role[g] = "job"
  /\ job' = [job EXCEPT ![g].expired = TRUE]
  /\ UNCHANGED <<up, table, heap, conn, batch, wire>>

Terminated == ~up /\ UNCHANGED vars

-----------------------------------------------------------------------------
Init ==
  /\ up = TRUE
  /\ registered = {}
  /\ size = 1
  /\ closed = {}
  /\ role = [c \in Ctx |-> "free"]
  /\ refs = [c \in Ctx |-> 0]
  /\ conn = [c \in Ctx |-> NewConn]
  /\ job = [c \in Ctx |-> NewJob(NULL)]
  /\ batch = [c \in Ctx |-> {}]
  /\ backlog = FALSE
  /\ listening = FALSE

Handle(c) == \/ Hangup(c) \/ ReadOnly(c) \/ AnswerPage(c) \/ AnswerAndClose(c) \/ BrokenPipe(c)
             \/ StartScript(c) \/ StartFails(c) \/ AnswerScript(c)
             \/ JobStale(c) \/ JobTimeout(c) \/ JobRead(c)

Server == WaitEvent \/ Accept \/ AcceptFails \/ \E c \in Ctx : Handle(c)

World == Connect \/ \E c \in Ctx : Send(c) \/ Leave(c) \/ Run(c) \/ Expire(c)

Next == Server \/ World \/ Terminated

Spec == Init /\ [][Next]_vars

\* The thread of the server runs, and time passes.
FairSpec == Spec /\ WF_vars(Server) /\ \A c \in Ctx : WF_vars(Expire(c))

-----------------------------------------------------------------------------
ConnType == [gone : BOOLEAN, req : Requests \cup {"none"}, sent : 0..2, rcvd : 0..2,
             status : {"ok", "notready", "error"}, job : Ctx \cup {NULL},
             finished : BOOLEAN, closing : BOOLEAN, misled : BOOLEAN]

JobType == [owner : Ctx \cup {NULL},
            script : {"running", "exited", "failed", "crashed", "reaped", "killed"},
            written : BOOLEAN, got : BOOLEAN, expired : BOOLEAN,
            body : {"none", "full", "partial", "e500", "e504", "mixed"},
            closing : BOOLEAN, left : BOOLEAN]

\* Every variable has its type; the counter of registered events stays within the
\* array epoll_wait() fills and does not run below the listening socket's event.
TypeOK ==
  /\ up \in BOOLEAN
  /\ registered \subseteq Ctx
  /\ size \in 1..Capacity
  /\ closed \subseteq Ctx
  /\ role \in [Ctx -> {"client", "job", "free"}]
  /\ refs \in [Ctx -> 0..2]
  /\ conn \in [Ctx -> ConnType]
  /\ job \in [Ctx -> JobType]
  /\ batch \in [Ctx -> SUBSET {"in", "out", "hup"}]
  /\ backlog \in BOOLEAN
  /\ listening \in BOOLEAN

\* handle_epoll_event() follows event.data.ptr of the events still in the batch:
\* each of them points to a context that has not been destroyed, also when the
\* handler of an earlier event has unregistered or released it.
EventsAreLive == \A c \in Ctx : batch[c] # {} => role[c] # "free"

Holders(c) == {d \in Clients : conn[d].job = c}
One(b)     == IF b THEN 1 ELSE 0

\* *_ref_counter is the number of DolbayobPTRs that refer to a context: the map's,
\* the list's and its client's; a context is destroyed when the last is unlinked.
RefsAreExact ==
  \A c \in Ctx : refs[c] = One(c \in registered) + One(c \in closed) + One(Holders(c) # {})

\* The capacity check of register_event() reads a counter: it is the number of
\* entries of the map, and the listening socket's event, whatever order the
\* client and the job of a script are unregistered in.
SizeIsExact == size = 1 + Cardinality(registered)

\* Both: nothing is freed early or kept, and no event is refused for want of room.
CountsAreExact == RefsAreExact /\ SizeIsExact

\* While cgi_started, handle_cgi_request() follows cgi_event_context into the job's
\* handler, context and timer: it is a job, alive, and the one started for this client.
HeldJobIsOwn ==
  \A c \in Clients : conn[c].job # NULL => role[conn[c].job] = "job" /\ job[conn[c].job].owner = c

\* An IOCGIHandler keeps a reference to its client's context.  While its event is
\* registered the client is alive and still waits for this job and no other, or has
\* gone: its peer has hung up before the answer, or another job whose client had gone
\* has marked it finished too early.
OwnerOutlivesJob ==
  \A g \in Jobs : g \in registered =>
    (job[g].owner \in Clients /\ conn[job[g].owner].job = g) \/ job[g].left

\* handle_cgi_request() sends the job's request when is_cgi_request_finished is set:
\* the flag is never left from an earlier script of the client, and the output has been
\* parsed, but for a flag that came from a job whose client had gone.
FinishedIsParsed ==
  \A c \in Clients : conn[c].finished =>
    \/ conn[c].job # NULL /\ job[conn[c].job].body # "none" /\ job[conn[c].job].closing
    \/ conn[c].misled

\* A request for a script whose body arrives after its header is never completed:
\* handle() does not read once the header has named the script.
IsStuck(k) == IsCgi(k) /\ ~IsReady(k)

\* Every request that has arrived is answered, or its connection closed, whatever
\* its script does: it is answered, or killed when its time is over.  A server that
\* ends because accept() or fork() fails closes everything.
EveryRequestIsAnswered ==
  \A c \in Ctx : (role[c] = "client" /\ conn[c].sent = 2 /\ ~IsStuck(conn[c]))
                   ~> ~up \/ ~(role[c] = "client" /\ conn[c].sent = 2)

\* A context that is closing is destroyed, and with it its descriptor closed: the
\* list is emptied and, for a job, its client lets go of it.
ClosedIsDestroyed ==
  \A c \in Ctx : ((role[c] = "client" /\ conn[c].closing) \/ (role[c] = "job" /\ job[c].closing))
                   ~> ~up \/ role[c] = "free"

\* "cgi context should be non-resetable(can be used only once)": the parser of a
\* job is given one answer.
ContextUsedOnce == \A g \in Jobs : job[g].body # "mixed"

-----------------------------------------------------------------------------
(* What the invariants above need to be inductive. *)

\* A context is in the map or in the list, never in both; it is destroyed when its
\* counter is zero, and only then; an event of the batch is of a context in one of them.
HeapOK ==
  /\ registered \cap closed = {}
  /\ \A c \in Ctx : role[c] = "free" <=> refs[c] = 0
  /\ \A c \in Ctx : batch[c] # {} => c \in registered \cup closed

\* A client has a job when its whole request for a script has been read.
StartedOK ==
  \A c \in Clients :
    /\ conn[c].rcvd <= conn[c].sent
    /\ conn[c].job # NULL => conn[c].req \in {"script", "post"} /\ conn[c].rcvd = 2

\* A client that has been unregistered while it has a job has lost its peer; a job is
\* closing when it is not registered; what has misled a client has marked it finished.
LeavingOK ==
  /\ \A c \in Clients : "hup" \in batch[c] => conn[c].gone
  /\ \A c \in Clients \cap closed : batch[c] = {} /\ (conn[c].job # NULL => conn[c].gone)
  /\ \A g \in Jobs : job[g].closing <=> g \notin registered
=============================================================================
