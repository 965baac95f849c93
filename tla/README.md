# TLA+ models of the 42 repository

The repository is a collection of programs written at school 42.  Three of them are
concurrent or reactive and are where a test reaches least: `42_philosophers`
(threads and mutexes), `webserv` (an HTTP server around one epoll loop, with
scripts in child processes) and `42_minishell` (processes, pipes and
descriptors).  They are modelled component by component, checked with TLC on
small instances, and proved about with TLAPS for every instance where a proof is
in reach.  The others - `pipex`, `get_next_line`, `push_swap`, `so_long`, `cub3d`, the two
libraries `libft` and `printf`, and those exercises of `CPP` that keep a state - are
modelled as state machines that share one run.

    Dining.tla               what the table of the philosophers promises
    Philosophers.tla         the threads of 42_philosophers/philo
    Philosophers_proofs.tla  theorems about Philosophers
    Arguments.tla            what 42_philosophers is started with
    Philosophers_*.cfg       the instances TLC checks

    EventLoop.tla            webserv: the event loop and its contexts
    EventLoop_proofs.tla     theorems about EventLoop
    MCEventLoop*.tla/cfg     the instances TLC checks
    ChunkStream.tla          webserv: a file that is sent in chunks
    ChunkStream_proofs.tla   theorems about ChunkStream and Upload
    ChunkStream.cfg          the instance TLC checks
    Upload.tla               webserv: files that clients upload
    MCUpload*.tla/cfg        the instance of the finding about it
    Tokens.tla               webserv: how a text is cut into tokens
    Fields.tla               webserv: the address and the fields of a header
    Reading.tla              webserv: one connection from its bytes to its answers
    Sessions.tla             webserv: log in, look up, log out
    Sessions_proofs.tla      theorems about Sessions, Answers, ScriptAnswer and Reading
    Answers.tla              webserv: which file, list or error a request is answered with
    ScriptAnswer.tla         webserv: one script, its parser, its timer and its client
    ConfigFile.tla           webserv: the configuration file
    MCRequests*.tla/cfg      the instances TLC checks of the last six and of Upload

    Descriptors.tla          tables of file descriptors
    Pipeline.tla             minishell: how a line is run
    MCPipeline.tla/cfg       the instance TLC checks
    Store.tla                what a shell promises of its variables
    Environment.tla          minishell: the variables and the builtins, refines Store
    Parsing.tla              minishell: from a line to commands and words
    Pipex.tla                42_pipex, on Descriptors (theorem in Pipeline_proofs)
    NextLine.tla             get_next_line() and its bonus
    SoLong.tla               the check of a map and the game of 42_so_long
    PushSwap.tla             the two stacks of 42_push_swap
    Algorithms_proofs.tla    theorems about NextLine and PushSwap
    RayCaster.tla            the map, the player and the rays of cub3d
    RayCaster_proofs.tla     theorem about RayCaster
    MergeInsertion.tla       PmergeMe of CPP09/ex02
    Libft.tla, Printf.tla    the functions of 42_libft, ft_printf() of 42_printf
    PhoneBook.tla            the phone book of CPP00/ex01
    Materias.tla             the sources and characters of CPP04/ex03
    Exchange.tla             the rates and amounts of CPP09/ex00
    Calculator.tla           the expressions of CPP09/ex01
    FixedPoint.tla           the fixed-point numbers of CPP02/ex02
    Forms.tla                the bureaucrats and forms of CPP05/ex03
    Spans.tla                the spans of CPP08/ex01
    Programs_proofs.tla      theorems about Environment, Forms, Materias, SoLong, PhoneBook and Calculator
    MCPrograms*.tla/cfg      the instances TLC checks of all from Environment on, Store as
                             what Environment implements, and of Arguments

`PROJECT.json` lists the components, the runs with their properties, for every
property a mutant of the code that violates it, the source lines of every
definition, the hazards and the main theorems.  In the modules an operator
`Name_word` directly above `Name` is such a mutant; no specification uses it.

## 1. Inventory

| component | state | operations | interacts through | hard behaviour |
|---|---|---|---|---|
| philosophers: threads, monitor | `dead`, `full`, `meals`, `last_meal`, one mutex per fork, `deadmutex`, `mealmutex` | `routine`, `take_forks`, `eat`, `philo_sleep`, `print_message`, `dead_or_full`, `monitor`, `clean_exit` | shared memory | interleavings of up to 201 threads, circular wait, starvation, the stop racing a meal |
| philosophers: arguments | `table` | `input_valid`, `fill_values`, `ft_atol` | argv | an error in one argument while the next are read, numbers at the limit |
| webserv: event loop | epoll set, `_events_contexts`, `_closed_events_contexts`, `_events_size`, reference counts | `wait_event`, `handle_epoll_event`, `register_event`, `unregister_event`, copy/drop of a `DolbayobPTR` | raw pointers in epoll events | contexts released while later events of a batch still point to them, double unregister, exact counts |
| webserv: handlers | per connection `request`, `parser`, `_status`, `cgi_started`, `is_cgi_request_finished`; per script `_buffer`, `cgi_pid`, timer | read and parse, answer, close, start, read, reap or time out a script | references between the two contexts, pipes, signals | stale flags and references, timer against end of script, half-arrived requests, hangups, failing system calls |
| webserv: request parser | buffers, header/body parser, `_data_size`, `_finished` | `parse`, `feed`, `apply`, `reset` | called per read | the result must not depend on how the bytes are cut |
| webserv: script response parser | buffer, `_header_parsed` | `parse` | called when a script ends and when its time is over | called twice |
| webserv: responses, streaming | `stream_offset`, `stream_pending_data/sent`, `is_streaming` | `generate_response`, `choose_method`, `serve_file`, `stream_file_chunked`, `send` | socket, file system | locations that return to each other, short and failing writes |
| webserv: sessions | `_store` | `create_session`, `get_username`, `destroy_session` | one cookie, several servers | expiry, logging out while requests are on their way |
| webserv: configuration | `tempConfig`, one temporary location, `_tokens` | `scanTokens`, `parseConfig` and one parser per directive | a file | what is left of the block before, columns that stand for blanks |
| webserv: logger, sockets, utilities | - | print; wrap system calls | - | - |
| minishell: executor | descriptors 0 and 1, saved copies, pipe ends | `command_processor`, `executor`, `wire_files`, `wait_and_restore` | pipes, fork, wait | descriptor leaks and double closes on early returns, who keeps a pipe end open |
| minishell: builtins, environment | `envp` list, `path`, `exit_status` | export, unset, cd, exit ... | - | keys that are found by their beginning, and hold one of the value |
| minishell: parsing, heredoc, signals | `g_signal`, static state of `token.c` | `expand_message`, `redirection_with_no_space`, `create_linked_list` | one `/tmp/heredoc` for all shells | positions in a text that changes its length, counts made by another walk |
| pipex | two pipe ends | two children and a parent | a pipe | an end kept open while waiting |
| push_swap | two stacks, positions, costs | `sa` ... `rrr`, `target`, `cost`, the final rotation | - | correct for every permutation |
| get_next_line | one static remainder, or one for each descriptor | `get_next_line` | `read` | short reads, errors, several descriptors |
| so_long | map, player, collectibles, `end` | moves, `flood_fill`, `check_map` | key events | order of exit and collectibles |
| cub3d | map, player position (double) | parse, move, cast rays | key events | indices outside ragged maps |
| CPP09/ex02 | container, level, chains | `_merge_insertion_sort` | - | bounds of the insertions |
| CPP04/ex03 | materias in slots and inventories | learn, create, equip, unequip, copy, assign, delete | raw pointers | who deletes what, copies that share |
| CPP09/ex01, ex00 | a stack; the rates by day | one token; one line | a file | operators with too few operands, days without a rate, the first and the last day |
| CPP05/ex03 | grades, signs | make, copy, assign, sign, execute | - | who signed, when forms and grades have changed since |
| CPP02/ex02, CPP08/ex01 | one int; a store with a limit | arithmetic by way of float; add, copy, ask | - | rounding twice, lists that do not fit, distances that do not |
| CPP00/ex01 | contacts | add, search, exit | - | the shift when the book is full |
| other CPP exercises | small objects | constructors, casts, templates | - | - |
| printf | `buffer`, never set at the start, emptied to its first NUL | `ft_printf` and one function per conversion | `write` | what one number leaves for the next |
| libft | none | functions on memory, text, numbers, lists | - | overlaps, sizes of nothing, memory that is refused half-way |
| Piscine_reloaded | none | pure functions | - | - |
| inception, cloud-1 | - | container and Ansible files | - | - |
| mlx, copies of libft/printf/gnl | - | vendored | - | - |

What makes each correct:

* philosophers - every mutex is held exactly by the thread that is between its
  lock and its unlock, also on the early returns; neighbours do not eat together;
  nothing waits in a circle; what is read under the locks is still so when it is
  acted on; one verdict; the stop reaches everybody; starvation is found.
* webserv event loop - no event is dispatched to a destroyed context; counts are
  exact; what is closed is destroyed.
* webserv handlers - a client follows a pointer to its own script's context; the
  script's reference to its client does not dangle; the finished flag means a
  parsed answer of this request; every complete request is answered or its
  connection closed; a client is told what its script said.
* request parser - header, body and leftovers are a function of the bytes and not
  of the cuts, and mean what the client meant.  Streaming - what arrives is the
  file, whole and framed.  Answers - what is given or deleted is what the location
  allows.  Sessions - no name for an expired or destroyed session.  Configuration -
  what is read is what is written.
* minishell and pipex - every descriptor opened in the shell is closed once, and
  no process keeps a write end that a reader waits on; a command changes the variable it
  names and no other; a line is read as a shell reads it.
* push_swap, get_next_line, so_long, cub3d, PmergeMe - against a reference
  definition.

## 2. Plan

1. `Dining`, `Philosophers` and proofs.  *Done.*
2. `EventLoop` and proofs, `ChunkStream` and proofs.  *Done.*
3. `Upload`, `Reading` on `Tokens` and `Fields`, `Sessions`, `Answers`,
   `ScriptAnswer`, `ConfigFile`.  *Done* with TLC.  They are mostly text, cut by
   recursive functions and folds.  `Sessions` is not; it, `Answers`, `ScriptAnswer` and
   `Reading` are proved about.
4. `Pipeline` and proofs, `Environment` and the proof that it implements `Store`.  *Done.*
   `Parsing`.  *Done* with TLC.
5. `Pipex`, `NextLine`, `SoLong`, `PushSwap`, `RayCaster`, `MergeInsertion`.  *Done*
   with TLC; `RayCaster`, `NextLine`, `SoLong`, `PushSwap` and `Pipex` with proofs.
6. `Arguments`, `Libft`, `Printf`, `PhoneBook`, `Materias`, `Exchange`, `Calculator`,
   `Forms`, `Spans`, `FixedPoint`.  *Done* with TLC; `Forms`, `Materias`, `PhoneBook` and
   `Calculator` with proofs.
7. What is left: see the last section.

How the modules compose.  `EventLoop` is the composition point of the web server:
it has the connections, scripts and contexts with the order in which they are
handled, and requests as atoms.  The others open these atoms: `Reading` what its
`Received` stands for, `ScriptAnswer` what a job does, `Answers` what an answer is,
`ChunkStream` an answer that takes many events, `Upload` a request that takes many.
`Reading` and `Upload` meet at the hand-over of a form's body (`HandOver`);
`ConfigFile` makes the locations that `Fields` and `Answers` are given.  In the
shell, `Parsing` makes what `Pipeline` runs, and `Environment` has the builtins that
run in the shell itself.  `Pipeline` and `Pipex` share `Descriptors`.

Programs that share nothing are put into one specification as a sum: `Init` chooses
one of them, each has variables of its own, and a property says something of one of
them.  `MCPrograms` is the sum of the programs that run alone, `MCRequests` that of what
webserv does one request at a time.  Each of the two extends the one summand whose
property a theorem states as it is, `RayCaster` and `Sessions`, whose variables, constants and property it
takes as they are; the others share the variables `s1` ... `s9`.  Nothing is lost by
this, since no step is common to two summands, and TLC starts once for all.

## 3. Philosophers

### Correspondence

`pc[t]` names the call thread `t` is about to make, `sec[t]` how far it is inside
the critical section of that call.  One step is

* a `pthread_mutex_lock` with the accesses up to the next lock or unlock, or
* a `pthread_mutex_unlock` (two in a row where the code has two) with the branch
  that follows, or
* the return of an `ft_usleep`, of `pthread_create` or of `pthread_join`.

Nothing another thread may do between two accesses inside a critical section can
be seen by it: the accesses merged into one step are to data which that mutex
protects, with the exceptions listed here.  `eat()` and `take_forks()` read
`meals` without a lock, but only its own thread writes it.  `dead` is written
under `deadmutex` and `full` under `mealmutex`; readers hold both; this is what
`VerdictIsCurrent` relies on and `IInv` proves.  Releasing `deadmutex` a moment
before `mealmutex` (or after) is merged with the other unlock: a thread that
takes the first in between can only wait for the second.

| model | code |
|---|---|
| `LockDead`, `LockMeal`, `SayEnd`, `CheckEnd` | `print_message()`, `dead_or_full()` of every caller, the main thread included |
| `MealLock`, `MealUnlock` | the first deadline in `routine()`, the meal in `eat()` |
| `LockFork`, `UnlockFork` | `take_left_fork()`, `take_right_fork()`, both ways out of `take_forks()`, the end of `eat()` |
| `Wake` | the sleeps of `take_forks()`, `eat()`, `philo_sleep()` |
| `Create`, `Grace`, `ScanLock`, `ScanUnlock`, `SetDead`, `SetFull` | `main()`, `monitor()`, `check_is_dead()`, `check_is_full()` |
| `Join`, `Destroy`, `Exited` | `clean_exit()` and the return of `main()` |
| `Expire(p)` | the clock passes `philos[p].last_meal` |

Abstractions.  Of the time the program only ever asks whether
`get_time() > last_meal`; that is `overdue[p]`, which becomes TRUE at any moment
and FALSE when the deadline is moved.  A sleep takes arbitrarily long.  So the
model has every timing, those the arguments would exclude too: what is checked
holds however slow or fast the machine is.  `meals` saturates at `MealCap`, the
largest value the code can tell from a larger one (`rounds`, or 1 for the test
`meals == 0`).  Printing is `report`, the philosophers a "died" line was printed for.

### Runs

| run | instance | properties | states |
|---|---|---|---|
| `philo_two` | N = 2, two meals | `TypeOK`, `MutexesAreOwned`, `NeighboursTakeTurns`, `NoCircularWait`, `FlagsAreHeeded`, `EndsInOrder`, `ImplementsDining`; with strong fairness `EveryRunEnds` | all |
| `philo_starve` | N = 2, no number of meals, fairness of the monitor | `StarvingEnds` | all |

`MutexesAreOwned` is `ForkOwnership` and `TableOwnership`: each mutex is held by
exactly the thread that is between its lock and its unlock.  `FlagsAreHeeded` is
`VerdictIsCurrent`, that flags read under the locks are still so when they are acted
on, and `LeavesOnlyAfterStop`.  `EndsInOrder` is `OneVerdict`, never both verdicts
and "full" only when everybody has eaten, and `DestroysOnlyFree`, that no mutex is
destroyed while somebody has it or waits for it.  `StarvingEnds`: who starves is found, and then every thread
comes to its end.

Two philosophers share both forks and are each other's left and right neighbour,
so every conflict over forks, flags and table mutexes occurs; two meals are the
least for which "full", "not yet full" and "the first is full, the second is not"
differ.  From three on a ring may be odd, and parity alone does not alternate
(philosophers 1 and 3 both start on the left): `NoCircularWait`, `NeighboursTakeTurns`
and `ImplementsDining` of larger rings are left to the theorems, which have no bound
on N.

### Fairness

* `EveryRunEnds` assumes that a thread whose mutex is free again and again gets it
  (strong fairness per thread).  POSIX mutexes do not promise it for each lock,
  the scheduler of the platform gives it in practice; without it one philosopher
  may be kept from `mealmutex` for ever, and TLC shows that run when the
  assumption is weakened.
* `StarvingEnds` assumes it of the main thread only, and of the philosophers that a
  thread that can continuously go on does (weak fairness): neither property needs a
  philosopher to win a contended mutex.

### Proofs

`Philosophers_proofs` proves, for every `N >= 2` and every `Rounds`:
`TypeCorrect`, `Ownership` (of `MutexesAreOwned`), `VerdictCurrent` (of
`FlagsAreHeeded`), `TakeTurns`, `NoDeadlock`, `Refinement` and `OrderlyEnd` (of
`EndsInOrder`).  The inductive invariant `IInv` is

    TypeOK /\ SectionsOK /\ CreatesOnce /\ IndexOK /\ ForkOwnership
    /\ TableOwnership /\ VerdictIsCurrent /\ LeavesOnlyAfterStop

`ForkOwnership` and `TableOwnership` are equivalences between the owner of a
mutex and the place of a thread in the code; they are what turns a fact about
mutexes into one about program counters, and need `SectionsOK` (a critical
section is only at a place that has one) and `CreatesOnce` (a thread that is not
yet created holds nothing) to be inductive.  `TakeTurns` follows because a fork
has one owner.  `NoDeadlock` ranks what a thread can wait for:
the join of `clean_exit()` lowest, then the forks with even index, fork N-1 if
that is even (the one fork that is first for one philosopher and second for
another), the forks with odd index, `deadmutex`, `mealmutex`.  A thread that waits
for another one that waits has the lower rank (`WaitersRise`), so no non-empty set
of threads can wait for itself.  `Refinement` maps `pc` to the activities of `Dining`
and shows each step to be a step or a stutter there; the stop of `Dining` is
`dead \/ full`, and `VerdictIsCurrent` is what makes `Reach` and `Leave` legal.

`OrderlyEnd` has an invariant of its own, `EndInv`, which is `IInv` with four facts.
`OneCause`: until `monitor()` sets a flag nothing is said of a death, and when it sets
one the other is not set and the reason is there.  `Enough` and `ScanHolds`: what
`check_is_full()` has counted so far it has counted rightly, since meals only grow and it
holds `mealmutex`.  `Joined`: a thread `clean_exit()` has passed is gone, and who is gone
holds nothing (`ForkOwnership`, `TableOwnership`), so that a mutex it destroys is free.

Only model-checked: the two liveness properties.

### What the model shows beside its properties

No document of the repository states a rule about these, so they are no
properties: a philosopher may finish a meal between the scan that finds it
overdue and the "died" line (`check.c:25`); a line of another philosopher may
follow "died", because the flag is set after the line in a section of its own
(`check.c:26-28`); and a thread that gets no time in the first 50 ms is declared
dead, its `last_meal` still being 0 (`check.c:78`).

## 4. EventLoop

### Correspondence

The server is one thread that alternates `wait_event()` and, per event of the
batch, `handle_epoll_event()`.  One step is one call of a handler, with every
call it makes; between two steps, peers send, hang up and connect, scripts write
and end, timers pass.  Where one handler makes two system calls that a script can
come between - `read()` and `waitpid()` - or reads the clock twice, the step
`JobRead` has that inside (`Ahead`, `late`).

| model | code |
|---|---|
| `registered`, `closed`, `size` | `_events_contexts`, `_closed_events_contexts`, `_events_size` |
| `role`, `refs` | what is allocated at an address, `*_ref_counter` |
| `conn[c]` | peer, `IOClientHandler` and `IOClientContext`: bytes sent and read, `_status`, `cgi_event_context` (`job`, with `cgi_started`), `is_cgi_request_finished`, `_is_closing` |
| `job[c]` | script, `IOCGIHandler` and `IOCGIContext`: reference to the client (`owner`), output read (`got`), timer (`expired`), text given to `cgi_parser` (`body`), `_is_closing` |
| `batch`, `listening` | events of `_events_arr` not yet handled, with the flags epoll returned |
| `WaitEvent` | `ServerEvent::wait_event()`: clearing the list runs the destructors, then `epoll_wait()` |
| `Accept`, `AcceptFails` | `IOServerHandler::handle()` |
| `Hangup`, `ReadOnly`, `AnswerPage`, `AnswerAndClose`, `BrokenPipe`, `StartScript`, `StartFails`, `AnswerScript` | `IOClientHandler::handle()`, split by outcome |
| `JobStale`, `JobTimeout`, `JobRead` | `IOCGIHandler::handle()`, split by outcome |

The events of a batch are handled in any order: `epoll_wait()` promises none, and
the properties do not depend on it.

Abstractions.  An address stands for a context with all it owns, its descriptor
included; both are reused after destruction, which is the interesting part.  A
request has two parts that arrive together or apart: two halves of a header, or
header and body for "post".  A peer does not send the next request before it has
the answer.  An answer fits the send buffer and a client is always ready to be
written to.  `EPOLLERR` is treated like `EPOLLHUP`.  A write to a peer that has gone
succeeds, fails, or is a `SIGPIPE`, for which there is no handler (`BrokenPipe`).  The second
`handle_timeout()` of a script is `kill(-1, SIGKILL)` (`IOCGIHandler.cpp:73-74`): it ends
all scripts that run (`Survivors`); other processes it ends are outside the model.  A script's output is written or not
written; it keeps its pipe open until it ends.  A failed `accept()`, `pipe()` or
`fork()`, no memory, and a full event table end the server (`up = FALSE`): the
handlers throw or call `exit()`, and nothing above catches it.  A write through a
dangling reference hits whatever client is at that address by then, or nothing.
Two fields are observed and change nothing: `left`, a job's client has left it before the
answer, and `misled`, a client has been told by such a job that its script has finished.
One listening socket stands for all; `SIGINT` only ends the loop and is left out.

Bounds: `Ctx` addresses, `MaxPeers` connections at a time, and `Capacity`, which is
2000 in the code.  No counter of the model is otherwise unbounded.

### Runs

| run | instance | properties |
|---|---|---|
| `loop_heap` | 3 addresses, capacity 4, 2 peers that hang up at any time, scripts | `TypeOK`, `EventsAreLive`, `CountsAreExact`, `HeldJobIsOwn`, `OwnerOutlivesJob`, `FinishedIsParsed` |
| `loop_live` | 2 addresses, 1 peer that hangs up at any time, all kinds of request, failing system calls, fairness | `EveryRequestIsAnswered`, `ClosedIsDestroyed` |
| `loop_once` | violated | `ContextUsedOnce` |

`CountsAreExact` is `RefsAreExact`, of the counters of references, and `SizeIsExact`,
of the number of registered events.

Three addresses are a client with its script and one more that is taken by a new
client or by the script of a second one, at the moment the first is released: the
least in which an address is reused while somebody still refers to it.  Capacity
is met (three contexts and the listening socket).  `loop_live` has one connection
at a time and two addresses, because a second connection can delay the first but not change
what is owed to it: the loop handles every event of a batch before it asks for the next.

The violation:

* `loop_once` - `IOCGIContext.hpp:36` says "The cgi context should be
  non-resetable(can be used only once)".  A script finishes and its output is
  parsed; its client's event is handled after the timer has passed;
  `handle_cgi_request()` asks the timer before it asks whether the request is
  finished, and has the same parser given the 504 text on top of the output.

No property says that a script is ended when its time is over ("5 seconds is standard for
us.", `IOClientHandler.cpp:273`).  It would not hold: a peer hangs up and its client is
destroyed while the script neither writes nor ends; nobody looks at the timer again, and the
process, the pipe and the context stay.

### Fairness

`FairSpec` assumes that the server's thread runs (weak fairness of `Server`: it
polls without blocking, so some step of it is always possible) and that a timer
that has been started passes (weak fairness of `Expire`).  Nothing is assumed of
peers or scripts.  `EveryRequestIsAnswered` leaves out requests to scripts whose body
comes after the header (`IsStuck`): `handle()` does not read once a header has named
a script (`IOClientHandler.cpp:71`), so they are never complete.

### Proofs

`EventLoop_proofs` proves, for any finite set of addresses, any capacity and
number of peers and every kind of request: `TypeCorrect`, `NoDeadEvent`,
`ExactCounts`, `OwnJob`, `OwnerIsThere` and `FinishedMeansParsed`, whenever peers hang up.

The inductive invariant `HeapInv` is the data types with `HeapOK` (a context is in
the map or the list, not both; it is free exactly when its counter is 0; an event
in the batch belongs to a registered or closed context), `RefsAreExact`,
`SizeIsExact`, the bound of `size`, `HeldJobIsOwn` and `StartedOK` (a client with a
job has read its whole request).  `EventsAreLive` follows from `HeapOK` and
`RefsAreExact`: what is registered or closed has a positive counter.  It is not
inductive alone because a handler may release a context another event
points to; that the closed list keeps it is what `HeapOK` adds.

`OwnerOutlivesJob` and `FinishedIsParsed` say what a handler of a script can rely on when
clients go at any time: a registered job has its client and is the one it waits for, or
that client has gone before the answer, or was told by such a job that it had its answer;
and a client that is told its script has finished finds the parsed output, or was told so by a
job that was left.  Each needs the other.  The second invariant (`OwnersOK`) adds `LeavingOK`: a
client that is unregistered with a job has lost its peer and has no event in the batch, and a
job is closing exactly when it is not registered.  When the list is cleared, the job of a client
that goes with it is therefore left (`OwnersWait`); the answer to a client that was misled leaves its
job (`OwnersAnswer`); a job marks its own client, or is left (`JobKeeps`).

Only model-checked: the two liveness properties.

### What the model shows beside its properties

* An `IOCGIHandler` keeps a plain reference to a context that is destroyed with its client,
  and sets `is_cgi_request_finished` there (`IOCGIHandler.cpp:52`).  If the address belongs to
  another client by then, that one answers before its own script has ended, and leaves it
  in the same way: the jobs `left` and the clients `misled`.
* Output a script writes between the `read()` and its end is dropped
  (`IOCGIHandler.cpp:83-92`), and a script ended by a signal counts as successful
  (`:98`): bodies "partial" and "full" of a job that ended, in `Output`.
* A script that is killed by the timer is not waited for (`:73`): state "killed".

## 5. ChunkStream

### Correspondence

A file of at least `chunked_threshold` bytes is not put into the answer.  While
`is_streaming` is set, `handle_default_request()` calls `send()` each time the
socket can be written to, and `send()` calls `stream_file_chunked()` once.  One
step of the model is one such call; it makes up to three `write()`s (headers, rest
of the pending text, next chunk).

| model | code |
|---|---|
| `state` | a request is being answered or not; the connection closed |
| `streaming` | `is_streaming` and `stream_headers_sent`, set in the same call and reset in the same call |
| `offset`, `pending`, `sent` | `stream_offset`, `stream_pending_data`, `stream_pending_sent` |
| `peer`, `cut` | a client that decodes what it gets (external), and whether a chunk was not taken whole (observed) |
| `PartOfPending` | the returns at `Chunk.cpp:56-64` |
| `Finished` | the return at `:65-71`, the reset in `send()` and `_client_context.reset()` |
| `NoChunk`, `PartOfChunk`, `WholeChunk` | `:76-85`, `:103-116`, `:118-129`, each behind the flush of the pending text |
| `Fail` | `write()` of the headers or opening of the file fails: `set_is_closing()` |

Abstractions.  A chunk is the range of the file it carries; on the wire it has
`Wire` units and `write()` takes any number of them.  A failed `write()` of a chunk
(`EAGAIN` or an error) takes none: the code treats it like a write of nothing.  The
file does not change between the calls, the headers are taken whole or not at
all, and the request has no body left to read.  The read of `bytes_read <= 0`
before the end of the file (`:92`) then does not occur.

### Run

`chunk_stream`: files of 0, 2, 3 and 6 bytes with chunks of 2 (no chunk, one, two
with a short last one, three), one request after another on the same connection,
and `Wire = 3`, so that a write can be cut before, after the first, and after the
second unit of every text.  Sizes need not be larger: a call looks at one chunk and
the text pending from the call before.

* `ClientIsServed` - of two parts.  `NeverTorn`: headers once and first, each chunk to its end before the next
  begins, nothing after the last.
  `AnsweredIsWhole`: the request is over only when the client has the whole file.
* `OnceUnlessCut` - a chunk comes twice only if a write of a chunk was cut.
* `StreamEnds` - the stream ends, or the connection is closed.  The fairness is
  that of the socket: again and again it takes all that is offered in one call
  (weak fairness of `AllTaken`), which is what a client that reads does to a send
  buffer larger than a chunk.

### Proofs

`ChunkStream_proofs` proves the type invariant, `WholeAnswers` (of `ClientIsServed`) and
`NothingTwice` (of `OnceUnlessCut`) for any set of file sizes, any chunk size and any wire length.  The inductive
invariant is their conjunction with `InStep`: the client waits for exactly the
rest of `pending`; what is pending is the last chunk at the end of the file, or
the chunk at the offset after a cut; and the client has the file up to the
offset at least, and exactly so if no write was cut.

### What the model shows beside its properties

When the first `write()` of a chunk is short, the text is kept, its rest is sent by
the next call, and then the offset is still before that chunk (`Chunk.cpp:111-118`):
the same call encodes and sends it again.  So the client gets those bytes twice
(`peer.twice`), and a socket that cuts the first write of a chunk every time gets
the same chunk for ever; with mere progress of the socket in place of `AllTaken`,
`StreamEnds` is violated.  No document of the repository says that a chunk is sent
once, so this is a hazard in `PROJECT.json` and no finding.

## 6. Upload

### Correspondence

A file is sent as one part of a `multipart/form-data` request.  Its text arrives in
pieces of any size; after each piece the parser hands over what it is sure of,
and the handler appends that to the file and keeps the rest of the part open.  One
step of the model is one epoll event of a connection.

| model | code |
|---|---|
| `up[c].left` | what the client has still to send (external) |
| `parser`: `buffer`, `parts`, `first`, `finished` | `_buffer`, `_content_data`, `_first_header_found`, `_finished` of `RequestMultipartParser` |
| `items` | `request.content_data`, with `created` for `created_by_me` |
| `replies`, `state`, `lost` | answers sent; request being received, reset, or closed; a piece that could not be written (observed) |
| `disk` | the files of the location |
| `Feed`, `FeedOnce` and its branches | `feed()` |
| `Applied` | `apply()`, with its two ways to hand parts over |
| `FileUpload`, `MultipartUpload`, `Save` | `handle_file_upload()`, `handle_multipart_upload()`, one turn of its loop |
| `Read`, `Writable` | `IOClientHandler::handle()` when something has arrived, and when not |
| `Delete` | `handle_file_delete()` of a request of somebody else |

Text is a sequence of units: a line break, `--boundary`, `--`, the header lines of a
part (as the name of its file), one letter of content.  A unit arrives whole.  The
parser only compares text with the two boundaries and lengths with theirs, so
with contents shorter and longer than the boundary in units every comparison
goes both ways.

Three things of the code show in the model as they are.  `parse_body()` calls
`apply()` unless `status != DataIsNotReady`, where the status is converted to bool
and compared with 610 (`ServerRequestParser.cpp:83`), so it is called after every
`feed()` that did not fail.  `_last_content` is not reset when `apply()` moves the part
it points to; what is read through it then is either answer (`stale`).  The handler
runs with the header alone, and before any part.

Left out: a request whose header comes in two pieces (`Reading` has these), a form
field without a file name, `max_client_body`, a connection that is lost, and another
request on the connection.

### Runs

| run | instance | properties |
|---|---|---|
| `web_requests` | two clients with a file each, of 1, 2 or 5 units, of one name or two; each file there before or not; any opening of a file fails; one deletion | `UploadsAreKept` |
| `upload_split` | violated: forms of two files | `AcceptedIsWhole` |

`UploadsAreKept` has three parts.  `PrefixOnDisk`: a file is an old one or the begin of
one part that was sent.  `AcceptedIsWhole`: after a 200 every file is there, whole.
`OneReply`: a client gets one answer, and not before its request is complete.  The
parser keeps back four units, the length of the boundary that ends a form: a content
of 5 is handed over in pieces, one of 1 or 2 at the end alone.

The violation:

* `upload_split` - `RequestMultipartBodyParserTests.cpp:128-135` has a form of two parts
  that arrives in pieces and wants both.  The test calls `apply()` once at the end.
  The server calls it after each piece: if the first part was open at that moment,
  the next call completes it and takes nothing else (`:86-103`); the request has all
  its bytes, is answered 200 and reset, and the second file is gone.

### Proofs

`UploadsStayApart` (in `ChunkStream_proofs`) is the three parts of `UploadsAreKept`, for any
number of clients and files, contents of any length, and any way their text is cut into
pieces.  The assumption is the one the run checks of its instance (`Upload`'s
`ConstantsAssumption`): a client sends a form of one file with a content, `--boundary` does
not occur in the content, and the units of the text are told apart.  Deletions, files that cannot be
opened and the stale pointer are those of the model.

The text of such a form has the boundary at one place, the end at one, and the empty
line that ends the part's header at one (`FormText`, `BoundariesAre`).  So one turn of
`feed()` does one of four things, by what its buffer is as a piece of that text: it waits for
the header, begins the part, takes the content that cannot be the begin of the end
boundary, or ends the part (`TurnWaits`, `TurnBegins`, `TurnTakes`, `TurnEnds`).  A turn that begins the part is
followed by at most one more and every other turn is the last, so the loop, a recursive function
`turn` in `FeedLoop`, keeps its value from there on (`FeedIsOne`, `FeedIsTwo`).  `apply()` then hands over exactly the piece of the content between where the last event stopped and where
this one does (`FirstApplied`, `MoreApplied`), and one turn of
`handle_multipart_upload()` writes that (`UploadIs`).

The invariant (`UploadInv`) says of each connection that it has not begun, is over with a 200,
is closed with one answer, or stands at a place `e` of the text (`GoesUp`): what is behind `e` and has come is in the
parser's buffer, and its one item is empty and open.  To that it adds how connections and files fit together: of an
intact file, the disk holds exactly the text up to `e` (`EachKeeps`), and at most one
connection has made it (`OneMakes`).  Neither holds alone: that a piece goes behind what the same client
wrote before needs that no other has written to the file, and that no other does needs that the
file is there when it begins (`Conflict`).  The latter is why a content may not be what stands for no
file.  A piece that is lost or a deletion only makes files less intact (`IntactBefore`).

### What the model shows beside its properties

* `Tests/global/test.py:95-112` posts a file and expects it at its place.  When the
  first read ends before the first part's header does, `handle_file_upload()` finds
  no data and answers 400 (`ServerResponse.cpp:239`).  The test is written, and not
  among those that run (`:153`).
* A file of no content gets no answer: what is left in the buffer is exactly as
  long as the boundary, and the loop of `feed()` stops there (`:70`); the request is
  reset all the same.  So the contents that are sent are not empty.
* A form of two files that is cut between them is answered 200 for the first, and
  400 or 200 for the rest; `OneReply` is checked for forms of one part.
* A file that is deleted while it is uploaded starts again with the next piece, and
  another upload of that name mixes with it.  `Intact` leaves such files out.
* A piece whose file cannot be opened is dropped and the answer is that of the last
  piece (`FileUtils.cpp:88`); `Intact` leaves these out too.

## 7. Pipeline

### Correspondence

For each command of a line the shell redirects its own descriptors 0 and 1, forks,
and puts them back; the child inherits all that is open at that moment.  One step
of the shell is one function `executor()` calls; commands read, write and end in
between.

| model | code |
|---|---|
| `fd[0]` | the descriptors of the shell; `Descriptors` has what `open`, `dup`, `dup2` and `close` do to a table |
| `sh` | the place in `command_processor()` and `executor()`, `fds`, `prev_fd`, `last_pid`, `exec`, `temp_in`, `temp_out`, `exit_status` |
| `fd[i]`, `proc[i]`, `pipe[i]` | command `i` of the line as a process, and what is in the pipe behind it (external) |
| `Pipe`, `PipeFails`, `NextCommand` | a turn of `command_processor()` |
| `Originals`, `WireFile`, `Handle` | `create_original_fds()`, a turn of `wire_files()`, `handle_input_output()` with the early return of `executor()` |
| `Builtin`, `Exit`, `Fork`, `ForkFails` | the start of the command; a builtin runs in the shell |
| `Restored` | the closings at the end of `executor()` |
| `Wait`, `WaitEnds` | `wait_and_restore()` |
| `ReadLine` | `minishell_loop()`: any of `Lines`; any of the files it names may be missing |

A command writes a few units ("gen"), passes on what it reads to its end ("copy") or
one unit of it ("head"), or is not found ("missing": it writes one message and exits
with 127).  A file and the terminal hold `Volume` units.  Whatever can fail for want of
descriptors does: `pipe()`, `open()`, `dup()`; `fork()` at any time.  Left out: what
`printf()` has buffered when the shell forks, signals, and how a line is split.

### Run

`shell_lines`: every line of one command, of two commands of which at most one has
redirections, and some of three, one after the other for ever; pipes of one unit and
commands that write two, so that a pipe is full and a writer blocks; ten
descriptors, which the longest line fits in, and which lines without a word use up.

* `WiredAsAsked` - a command has its redirections, else the pipes beside it, else the
  terminal.
* `DescriptorsRestored` - when all is started the shell has its own three and nothing
  else.  `executor()` closes both ends of the pipe a second time
  (`command.c:90-93`, `:113`, `:118`); this shows that no number is given out again between.
* `LineIsRun` - nobody else keeps a write end, so that an end of input is seen
  (`EndIsSeen`), and the status is that of the last command, in whatever order they
  end (`StatusIsLast`).
* `EveryLineEnds` - with a shell and commands that run (weak fairness of each), a line
  whose commands read what the pipe gives them comes to its end.

The system may stop: a line may hang, and `exit` or a failed `fork()` end the shell.
So deadlock is not checked.

### Proofs

`Pipeline_proofs` proves `Typed`, `CommandsAreWired` (of `WiredAsAsked`),
`NothingStaysOpen` (of `DescriptorsRestored`) and `LinesAreRun` (of `LineIsRun`) for
lines of any length with any redirections, any files, pipes and volumes, and however often
a call fails.  The assumptions are `LinesAssumption` (a line has a command),
`SizeAssumption`, `NoneAssumption` and `RoomAssumption`: a process may have ten files open,
where POSIX promises twenty.  That many are needed: in a turn at most nine
numbers are in use, and with none left `dup()` in `create_original_fds()` fails, which the
code does not look at.

The inductive invariant `IInv` has two halves.  `TypeOK`, `LineOK` (where the shell is in
its line), `ChildrenOK` (which commands have been started) and `StatusOK` hold always.
The others hold as long as no line without a word was run (`~marred`):

* `TableOK` says for each place of the shell which numbers are open and on what.  What
  makes it inductive is that the numbers the shell still counts on are never those
  a redirection was given, so that a second `close()` of a number finds it closed.
* `WiringOK` - `temp_in` and `temp_out` are the last file of that direction that could be
  opened.
* `WiredOK` - a command that runs has what `WiredAsAsked` says, although what it was
  given is derived from the shell's table at the moment of the `fork()`.
* `OwnEnds` - a command has the write end of its own pipe alone; with `TableOK`, by which
  the shell has at most that of the command of this turn, `EndIsSeen` follows.

They are conditional because such a line leaves the shell with other descriptors than it
began with, and nothing is promised of what comes after it.

Only model-checked: `EveryLineEnds`.

### What the model shows beside its properties

No document of the repository speaks of these.

* With redirections both ways (`cat < a > b`) the command is connected wrongly:
  `temp_in` still has the number of the turn before, and `assign_and_close()`
  closes the descriptor it is to keep (`command.c:64-67`).  `OneWay` leaves this out.
* A line that is only redirections leaves them in force in the shell, and two
  descriptors are lost (`command.c:79-80`): `marred`.
* A child holds the read end of the pipe it writes to, and the shell that of the
  pipe a builtin writes to.  So a writer whose reader has ended blocks instead of
  being told, and the line never ends (`gen | head`, `gen | builtin`): `ReadsOn`.

## 8. Requests of the web server

Six models share the run `web_requests`.  In all of them a text is a sequence of
characters, or of words where no part of the word is looked at.

### Reading, with Tokens and Fields

| model | code |
|---|---|
| `Tokens` | `ServerRequestParserHelpers`: `get_token_with_delims`, `skip_ws`, `unfold_string`, `utf8_char_decoder`, quoted strings |
| `Fields`, the address | `parse_absolute_path()` with its queries; `server_utils`: file name, directory, extension, location of scripts, limit on a body |
| `Fields`, the fields | `parse_content_type`, `parse_content_length`, `parse_accept`, `parse_cookie`, ... |
| `parse`, `HeaderOf` | `ServerRequestParser::parse()`, `RequestHeaderParser::feed()` and `parse_complete_header()` |
| `c` | the connection's parsers, request and what is left over; `status` what the last parse said |
| `Read(n)`, `MayWrite` | `IOClientHandler::handle()` of an event with and without something to read |
| `Reply`, `RunScript`, `HandOver` | `handle_default_request()`, `handle_cgi_request()`, and the handler of an upload, which is where `Upload` goes on |

A client sends one to three requests, each with what it means by it beside its text:
the meaning is stated in `MCRequests`, not computed by the parser.  It waits for its
answers (`patient`) or sends all at once.  Reads are of 1, 2 or 5 characters or of all
there is, so that every line end and every blank is cut somewhere.  The two widths of a
number are kept apart: a length has 64 bits in the code and is at most 63 here
(`MaxLength`), and the parser of a raw body takes it as an int, at most 15 here (`INT_MAX`,
`AsInt`).  There are bodies on both sides of each.

A raw body is refused by every method that `choose_method()` finds.  `/login`, `/session`,
`/logout`, and `/` in a server without a location for it, are answered before
(`ServerResponse.cpp:60-83`, `AnyMethod`): with 200, whatever the method, and again at each
event until the body is thought to be there.

`RequestIsAnswered`: what is answered is the request that was meant, or a refusal for
the right reason, in whatever pieces it came; and none waits with nothing left to read.
What it leaves out, because the code does otherwise and no document speaks of it:

* Once a header has named a script nothing more is read (`IOClientHandler.cpp:71`).  A
  body that was not in the same read as the end of the header never arrives: `BodyIsLate`.
* The script of a request that was refused is started all the same.
* A request that has a length and no body that is read is answered at every event.
* What comes after the first answer to a raw body where any method will do (`Tolerated`): the
  body is counted more than once, see below, and a rest of it may be taken for a request.
* The n-th answer is to the n-th request for clients that wait.  What an impatient
  client sends behind its request is lost with the rest of that read.

`Sessions_proofs` proves it (`EveryRequestIsUnderstood`) for any requests, however many
in a row, and for pieces of any sizes. What the parser makes of one header that lies
there whole is taken as given (`ConstantsAssumption`: it is understood as meant, or
loops; a header has one end; a body is no longer than announced, and that of a script
not longer than an int can say; what others follow is no form, announces no body that
nobody reads, and is no raw body where any method will do; TLC evaluates this for the
requests of the instance, `RdAssumption`). The theorem is about the rest: that pieces, wherever they
are cut, are put together to this header, and that what is behind it is neither lost nor
taken twice, over all the requests of a client.

The lengths and the text of the client are recursive functions; that they exist and grow
is shown first (`EndsGrow`, `StreamHas`). Then, for a piece that comes (`Arrived`): what
is in the buffer and the piece is what the client has sent from the last end on
(`Come`); the end of a header is found in it exactly when the header has all come, also
when the end itself is cut; and what is behind it is where the body begins. The
inductive invariant says where an open connection is (`At`): a header is on its way and
the buffer has the part that came (`Waits`); all is answered and nothing is left over
(`Over`); a script waits for the rest of its body (`Late`); or the last request is
answered again and again (`Again`). It speaks of a client that does not wait for its
answers only up to the first of them, for after that the buffer may have lost a part
(`IsSomewhere`).

Two violations.  `web_folded`: `RequestHeaderParser.cpp:665` unfolds the header ("remove
\r\n + ws") after `:660` has taken its length.  The text gets shorter, the loop over
the fields waits for a position that never comes, and the server stands still.

`web_counted`: `ServerRequest.hpp:79` says that `transfered_length` is the "length of the
whole request that was transfered".  `RequestRawBodyParser::apply()` runs after every read
and adds all that has been counted so far (`:35`), so of a body that comes in pieces more is
counted than has come; the request is ready (`is_request_ready()`) and is reset before its
body is there, and the rest is read as the next request.

### Sessions

Each server has its `store`; a browser has one cookie (`jar`) for all ports of a host.
Requests are on their way (`sent`) and are handled in any order; a session lives one
tick (`TTL`) of two (`MaxTime`), and two requests at a time (`MaxSent`) are enough for a log
out and a look-up that overtake each other.  `SessionIsTheUsers`: `/session` answers with
the user who logged in, exactly while the session lives.  A log out at another port throws
the cookie away and leaves the session; one that nobody asks for is never erased
(`SessionStore.cpp:14`).

`Sessions_proofs` proves it (`AnsweredRightly`) for any servers, browsers, users and
identifiers, any number of requests on their way and any `TTL` (`TTLAssumption`: a
natural number).  The property speaks of the step that answers, and what it needs of the
state before is the inductive invariant: `GivenOnce`, an identifier was given to one
login; `NoneInvented`, what a store has under an identifier is what was entered when that
was given, at this server, and it was not logged out since; `NoneForgotten`, what was
given, not logged out and is not over is in the store of its server.  The last two say
that a store and the history of what was made agree, and `GivenOnce` is what keeps a
log out of one session from taking another with it.

### Answers

`generate_response()`: `find_best_location_match`, `choose_method` with its returns
(`Rewritten`, at most `REWRITES`), `serve_file`, `handle_directory`, `handle_file_delete`.
Three servers: locations in each other, a chain of two returns, a circle of returns.
Files appear while requests come.  `AnsweredByItsLocation`: what is given or deleted lies
under a location that allows it, and a returned address is answered like the one it
returns to.  Three things are as in the code and part of the statement: the home page
of a server without a location for it is given to every method (`HomePage`); the limit on a
body is that of the first location; whether its directory is listed was never set
(`wild`, either way).

`Sessions_proofs` proves it (`ServedByItsLocation`) for any configurations, requests and
files.  What it assumes (`ConstantsAssumption`, which TLC evaluates for the instance) is that
addresses are texts over some characters, among them `/` and those of `index`, that a
request has one of the three methods, and that at least one return is allowed.  A step
answers one request whatever the state, so the inductive invariant is small and the work
is in the answer.  The returns are a fold over the numbers up to `REWRITES`, which is first
shown to be a function of the turns taken (`Turns`, `ChosenIs`); then, that one more turn changes nothing
once an answer is chosen (`ChosenReturns`), which is why an address and the one it
returns to have the same answer as long as the turns last; then, that a file that is
given is the root of the location it was found by, behind which the rest of the address stands (`PathIs`, `PlaceGiven`),
for index files, lists and plain files one after the other; and the same for what is deleted.

### ScriptAnswer

The script writes (`Write`), closes its pipe (`Leave`), ends (`End`) and is reaped; the
clock runs out (`Expire`); the server reads the pipe (`ReadPipe`) and looks for the end
(`Wait`) in one event, between which the others move; and the client's turn comes.
`ScriptIsHeard`: a client that can be written to in time is told the script's status and
whole body, or that it failed, or that time was up.  What is lost, by the code: output
between the last read and the end of the script.  Line ends at the start of a body are
taken for those behind the header.  A script that was killed counts as one that
succeeded, with what it had said (`WEXITSTATUS` is 0).

`Sessions_proofs` proves it (`ScriptsAreHeard`) for any scripts and any sizes of what they write
at once.  What the parser makes of one text that lies there whole is taken as given (`ScriptOK`:
the text of a script is parsed as meant, and each beginning of it as a beginning; TLC
evaluates this for the scripts of the instance, `SaAssumption`).  The theorem is about the rest,
which is where the code could lose or repeat something: the script, the clock, the reads
and the client in any order.  The inductive invariant has three parts: `ScriptTyped`, nobody has
read more than was written, and a script that ends well has written everything when it is
no longer running; `HandlerAt`, a handler in the middle of an event has told nothing yet, and when
it has seen the pipe closed it has read all of it before it looks for the end; `ParserHas`, the
parser is fresh until the handler is through and then has been given exactly what was read.

### ConfigFile

The scanner cuts the text into tokens (`scanTokens`), and each step reads one directive.
Every directive occurs in a server, in a location and behind one, with blanks and
comments between them.  `ConfigIsAsWritten`: what is read is what is written, and what
makes no sense is refused.  As in the code: an `error_page` whose codes are not followed by
exactly one blank keeps nothing; `return` of one server is found in the next one, since
`returnPath` of the temporary server is not reset.

A location takes `auto_index` from its server before its own directives are read
(`Parser.cpp:343`).  `parser_test.cpp:44` expects the opposite, `EXPECT_FALSE`, of the location
`/api/files` of `goodconfig.conf`, which says nothing of it in a server that has it on
(`:17`).  So `ConfigIsAsWritten` does not compare it where a location leaves it out
(`LeftUnsaid`): there the code and the test disagree, and the model has what the code does.

### The run

`web_requests` has the properties above and `UploadsAreKept` of section 6; `web_folded`
and `web_counted` have one property each, which is violated, on the same instance.  Nothing is assumed fair: all are safety.  Deadlock is not checked, since a connection closes, a
configuration has an end, and time is bounded.

## 9. Programs that run alone

They share the run `programs`.

| model | one step | instance | property |
|---|---|---|---|
| `Environment` | a command | two names of which one begins the other, four values of which two begin alike and one is empty, at most 3 entries | `ImplementsStore` |
| `Parsing` | one phase of `minishell_loop()` | every line of up to 5 characters, once with `$`, once with quotes, bars and `>` | `LineIsUnderstood` |
| `Pipex` | a system call of the parent, or of a command | a pipe of 1 unit, commands that write 2; what is missing may be missing | `PairIsRun` |
| `NextLine` | entry, one `read()`, return | two texts of up to 3 units, `BUFFER_SIZE` 2, one static or one for each | `LinesAreGiven` |
| `SoLong` | the check, one call of `flood_fill()`, a key | all rooms of 2 x 3, a corridor and a well longer than the window, maps that are no maps | `GameStaysWinnable` |
| `PushSwap` | the parse, one operation, one choice | every order of up to 7 numbers, every pair of texts of up to 3 characters, every single text of up to 5, blanks among them | `SortsAnything` |
| `RayCaster` | a line of the scene, one call of `fill()`, one move, one step of a ray | all small maps, some longer, some too big (`MAP_MAX` 7), files that are none; 8 headings | `RaysStayInside` |
| `MergeInsertion` | one level of the recursion | every order of up to 7, up to 8 of two values, 13 to 30 spread | `MergesFrugally` |
| `Libft` | one call | memory of 4, texts of up to 5 characters, memory that overlaps, is too short, or is refused; `INT_MAX` 127 | `FunctionsAgree` |
| `Printf` | one turn of the loop | formats of one and two pieces out of 17, of three out of 8; a buffer of 4 with anything in it | `FunctionsAgree` |
| `Arguments` | one call of `ft_atol()` | 3 to 6 arguments; `INT_MAX` 20, at most 2 philosophers | `FunctionsAgree` |
| `Materias` | a member function | 5 materias, 2 slots, inventories of 2 or 3, two sources, two characters | `ObjectsKeepTheirWord` |
| `Calculator` | a token | all expressions of up to 4 tokens, many of 5 and 7; `LONG_MAX` 127 | `ObjectsKeepTheirWord` |
| `Exchange` | a line | three days with a rate, one or two lines; dates of all forms | `ObjectsKeepTheirWord` |
| `PhoneBook` | a command | room for 3, 5 commands | `ObjectsKeepTheirWord` |
| `Forms` | a member function | two bureaucrats, two forms of two kinds, 4 grades | `ObjectsKeepTheirWord` |
| `Spans` | a member function | two objects with room for 0, 1 or 3, lists of up to 3; `INT_MAX` 7 | `ObjectsKeepTheirWord` |
| `FixedPoint` | a member function | all pairs; `INT_MAX` 15, 2 binary places, a float of 3 digits, so that some numbers are longer than a float, as in the code | `ObjectsKeepTheirWord` |

* `ImplementsStore` - the list of texts refines `Store`, in which a command changes the
  variable it names and no other.  `Store` promises less than a shell would.  The key that
  `export_key()` makes ends with the first character of the value, not with `=`
  (`builtins_sec.c:54-59`): `export A=b` looks for an entry that begins with `A=b`, replaces it
  when there is one, and otherwise adds a second entry for `A`, which `value_finder()` does not
  find as long as the first is there.  So a value waits behind the one that is seen
  (`behind`) until that is unset.  And `PATH=/` is no beginning of `PATH=`, so a value given to
  `PATH` does not change where commands are searched (`search`, `builtins_sec.c:75`); only the
  empty one and `unset` do.  A key is found when the entry begins with it
  (`multidimensional.c:54`), so a command that names the beginning of another name, or exports one
  without a value, leaves the refinement: from then on `wild` is set and nothing is promised.
  No document of the repository says what `export` is to do, so this is no finding.
* `LineIsUnderstood` - variables and the status are put in, commands are cut and words
  get their roles as a shell does it, on lines that are `Plain` (of variables) and `Tidy` (of
  quotes: closed, and holding neither quotes nor redirections).  On every line without
  tabs the arrays are large enough.
* `PairIsRun` - the status is the second command's, `file2` has what went through both,
  and both end.  The parent keeps the read end while it waits for the first command,
  so a first command that writes more than the pipe holds to a second that stops
  reading hangs; `Modest` leaves out exactly that.  Weak fairness of the processes of
  `Pipex` is the only fairness of this run.
* `LinesAreGiven` - whatever `read()` returns at a time, no character is lost, doubled or
  moved, for the mandatory version and for the bonus asked in turns.
* `GameStaysWinnable` - the maps that are let in are those that can be won, and they stay so
  wherever the player goes; the player is in the window.
* `SortsAnything` - lists of distinct numbers, and no others, are accepted, whether they are
  given one by one or in one text with blanks between (`Texts`); what is printed sorts them.
  An only text that begins with a blank is refused like an empty one (`parser.c:117`).
* `RaysStayInside` - the closed maps that are not too big are let in and no others; then no
  corner of the player, ray or texture is outside.  Too big is more than `MAP_MAX` rows
  (`main.c:30`) or a row of more than that (`fill_helper.c:80`), 1024 in the code.  A file without its colour lines ends the
  program in a read of a null pointer (`color.c:104`, phase "crash").  Lengths are
  exact here, where the code has doubles.
* `MergesFrugally` - sorted, no bound behind the chain, and not more comparisons than merge
  insertion needs.  The offset of `PmergeMe.hpp:153-157` changes neither in any of the
  instances.
* `FunctionsAgree` - three parts.  `LibraryAgrees`: each function of `libft` gives what it
  is for and writes no more than was allocated.  `PrintsAsMeant`: what `ft_printf()` prints
  is what the format means, and the count is the count of it, although its buffer is
  never set at first and is emptied to the first NUL alone (`ft_print.c:21`); a format
  that ends in a single `%` reads on behind it.  `ReadAsGiven`: the table has the numbers
  that were given, or they are refused; an argument that is empty, or a sign alone, is
  the number 0.  Two cases are left out of these, since the repository says something else of
  them than the code does: exactly 200 philosophers (`MOST` is 2 here), whom the message of
  `initialization.c:65` refuses, "Number of philosophers must be less than 200", and the
  condition above it lets in; and what `ft_strlcat()` returns for a buffer that is smaller than
  the text in it, or nothing, which is "the length of dest if dstsize is 0 or the size of
  destination and scource added together" in its comment (`ft_strlcat.c:18-19`) and the size
  of the buffer and the length of the source added together in its code.
* `ObjectsKeepTheirWord` - seven parts.  `MateriasAreOwned`: each materia has one owner and
  is deleted once.  `rough` marks the callers for whom that is not so: a copy of a source that
  has learnt something shares what it learnt, a copied character deletes slots that were
  never set, and so does an assignment from one with an empty slot or to itself; and
  an index of 4 is let in.  `Calculates`: the value is that of the tree the expression is.
  An empty expression crashes, and so does the lowest number divided by -1.
  `AmountsAreConverted`: a day without a rate has that of the day before.  A date behind
  the last day ends the reading of the file; of dates that are written in another way
  nothing is promised, and every month has 31 days.  `LatestAreFound`: the book has the
  latest contacts, and a search finds the one it is asked for.  `ExecutedWasSigned`: a
  form that is executed was signed by a grade that was high enough, whatever happened to
  grades and copies since; only `AForm::operator=` can give it the sign of another kind
  (`forged`).  `SpansAreRight`: of a list that does not fit the first numbers are kept,
  and both spans are right as long as a distance fits in an int.  `RightlyRounded`: sums are
  exact, products and quotients less than one unit away - not always the nearest, since
  they are rounded to a float first.

### Proofs about RayCaster

`RayCaster_proofs` proves `InsideTheWalls` (of `RaysStayInside`) for any files, sizes of
maps (`MAP_MAX`), directions of rays, screens and sizes of textures: of the maps whose tiles are
good, the closed ones that are not too big are let in, and no others.  Assumed are `FilesAssumption` (a file has lines of
characters), `HeadingsAssumption` (a direction is not zero), `ScreenAssumption` (nothing of
the screen has size 0) and `WalkAssumption`: the corners of the player are less than a
cell apart, and a step is shorter than the way between two corners.  In the code
the first are 0.2 apart and the second is 0.05.  Without either the player could step across
the corner of a wall.  The inductive invariant `IInv` is, beside the types:

* `MapOK` - what is left when the player is taken off are floor, walls and blanks.
* `FillOK` - each place of the floor is marked or still to be called for, and no marked
  place has anything open beside it; so a fill that ends has been everywhere, and
  the map is closed.  A fill that stops has found a place that is open: that the border it
  looks for is that of the longest row costs nothing, since a place in the last column
  of a row has no neighbour on its right.
* `PlayerOK` - the four cells of the corners are floor.  A step keeps this although
  `can_move()` looks at the corners alone and only for walls: a corner that gets to
  another cell leaves one behind that is in the cell it came from (`Shift`), so each new cell is
  beside one of the floor, and in a closed map that is floor or a wall.
* `RayOK` - a ray on its way is over floor, so the next cell is in the map; how far it is
  from the next line of the grid follows from its cell (`SideOK`).  `Fresh` is what makes a
  wall never be at no distance: a ray that starts on a line of the grid goes first to
  a cell that one of the player's corners is in, and that is floor.

What is proved of `FlattenSeq` (`FlattenIs`), of the longest row (`LongestRow`) and of the
lines that are looked for (`FoundAt`) are inductions, made over sets in the place of
predicates (`AllNumbers`, from `WFMin` of the library).  That lengths are exact is part of the
model and not proved of the code, which has doubles.

### Proofs about NextLine and PushSwap

`Algorithms_proofs` proves `NothingIsLost` (of the action property `NothingLost`) and
`LinesAreLines` (of the invariant `LinesAreGiven`), the two parts of the property
`LinesAreGiven` of the run, for any descriptors, texts and `BUFFER_SIZE`, with one static and
with one for each.  Assumed is `ConstantsAssumption`: texts are sequences of characters and
`NULL` is none; `MCPrograms` states it of the instance TLC checks.

A descriptor is `spoiled` when a read of it has failed or another has used its text; with
the bonus the second never happens.  The argument has to say what the others do to a text:
during a call the static is that of the descriptor that is read (`CallOK`), so whatever a
call leaves in it is that descriptor's own, and a call that finds the text of another one
spoils both (`StaysInCall`, `StaysOfOthers`).  What is left is how a text is cut: by a read (`ReadMoves`,
`MovedOn`) and by a return (`Cut`, `CutOff`), where `ft_strchr()` finds the first newline
(`FirstNewline`).  `LinesAreLines` needs `GivenOK`: behind a line without a newline nothing is kept and
nothing is left to read, so no line follows it.  That `FlattenSeq` of one line more is the
text with the line behind it (`FlattenAppend`) is again an induction over sets.

`SortsAll` of the same module is `SortsAnything`, for any arguments and any width of an int.
`ConstantsAssumption` says that arguments are sequences of texts, that each digit has its own value
from 0 to 9, and that the text the code compares with is the lowest number; `MCPrograms`
states it of the instance TLC checks.  The invariant is `Sorting`, with the numbers that the parse gives
each argument, 1 to n, for the arguments:

* `Fine` - the two stacks share 1 .. n with nothing twice (`Shared`), and are what the
  printed operations say.  Each of the eleven operations is a rotation, a swap or a push, which
  keep this (`TurningKeeps`, `SwappedKeeps`, `PushedKeeps`).
* `Circle` - `a` is sorted up to a rotation, said without counting: no element lies between
  two neighbours, the last one being the first one's neighbour.  A rotation keeps it, and so
  does a push on top of the element that is next (`IsNext`, `CircleGrows`); three elements
  that are sorted by `SwapThree` and a turn begin it (`FewSorted`).
* `Way` - the cost kept for a stack leads to the element it was reckoned for: it is what `Cost`
  gives (`CostIs`), and one rotation in its direction is one step on that way (`WayOn`), whether the
  stacks turn together or alone.  So when both are 0 the two elements are on top.

That the parse accepts exactly the distinct numbers is arithmetic.  The code compares texts: with the lowest
number, and with the others once zeros and the sign are off (`ZerolessIs`).  A value is a fold,
whose steps are stated by `Values` and found by induction over sets (`FoldExists`,
`NumeralIs`); two texts of digits without zeros in front that have the same value are the
same text (`TrimUnique`, from the last digit on).

### Proof about Pipex

`PairIsConnected` in `Pipeline_proofs` is the first half of `PairIsRun` (`PairIsRun` of `Pipex`), for any two
commands of the kinds of the model, any volume and any size of the pipe; how it ends stays with TLC.
`ConstantsAssumption`, which `MCPrograms` states of the instance TLC checks, asks for seven descriptors a process may use,
and that the files are different.  With seven the tables are known: `ParentOK` and
`TwoChildrenOK` give the table of each process at each of its places, so which numbers
the closes leave open is no matter of a bound.  `FirstOK` and `SecondOK` say where the units are:
what the first command has written (`Put1`) is in the pipe, in the hand of the second or in
file2.  The second command stops when the pipe is empty and nobody has the write end; the
first child would have it if it had not exited (`RunsIs`), so everything that was sent has arrived.
The first child is never stopped by a write that fails, since the parent keeps the read end
until it has waited for both.

### Proofs about Environment, Forms, Materias, SoLong, PhoneBook and Calculator

`Programs_proofs` has six theorems, each from the `ConstantsAssumption` of its module, which
`MCPrograms` states of the instance TLC checks.

`VariablesAreAStore` is the refinement `ImplementsStore`, for any names, values and first
characters.  Assumed is that a name is not empty, that the variables the shell itself writes
are different ones, and that a parent gives values.  The invariant (`Kept`) is that, as long as
nothing is `wild`, each entry of the list has a value; nothing is asked of how often a variable
is in it.  So the value that is seen is that of the first entry for a name (`Looked`,
`KeyIsName`, `SeenOrNot`), and those of the others are `behind` it.  An entry is put in the place of one or
behind all (`ReplacedIs`, `AppendedIs`): where the key of a value is found, that is the value
that is seen or one behind it, and where it is not, the new one is seen exactly when the variable was
not set (`AddedIs`, `AddedValue`).  Removing an entry lets the next one for the name be seen and leaves
other names as they are (`RemovedValue`, about what is left when one place of a list is taken out).
Each builtin is then a step of `Store` or none (`ExportStep`, `UnsetStep`, `ChdirStep`,
`KeepStep`).  That a text is found by its first characters stays in the model: `fits` of a key is
the set of values that begin so.

`SignedBeforeExecuted` is `ExecutedWasSigned`, for any bureaucrats, papers and kinds: the
invariant is that the one who signed had a grade high enough for the kind, which neither a change
of grades nor a copy undoes; an assignment between papers of different kinds is `forged`.

`OneOwnerEach` is `MateriasAreOwned`, for any number of sources, characters, slots, rooms and
pointers, of which there are finitely many.  The places where a materia can be are one function
(`MapOf`) from `Places` to pointers: the hand of the caller, the patterns and the shelf of each source,
the slots of each character.  `Owned` says of it and the heap that no two places have the
same, that what a place has is not free, and that what is not free has a place.  Four lemmas about any such function
carry the argument - a materia passes from a place to another (`Passed`), some places are deleted
(`Dropped`), new memory is put in empty places (`Filled`), some places are cloned into
others (`Cloned`, with `CloneFits`: if there is memory for all, each gets its own) - and
each function of the classes is one or two of them: `learnMateria()` passes what the caller
gives to the shelf and fills a pattern, or deletes what is given; an assignment drops what the target had and clones
what the other has.  Deleted twice is what `Dropped` rules out, since no two places have the
same.  `Sound` adds that a source that is no more holds nothing, which a copy to its place
needs.  The calls that set `rough` are exactly those for which no such lemma can be had:
copying a source that has learnt something puts one materia in two places.

`StaysWinnable` is `GameStaysWinnable` (and `Shown`, which is no property of a run, the
window the player is drawn in), for any maps of any size; assumed is that a map is a
sequence of lines of tiles.  Where the player can get to is said in another way than by
`Walked` of the model, whose recursion over sets of places stays with TLC: a place can be
reached when it is in every set with the player in it that no walk leaves (`CanWin`;
`Walked` is the least of these sets).  The invariant of the fill (`Filling`) is that each
place beside a marked one is marked, a wall, or still to be called for, and that a place
outside of any such set is called for only when it is a wall.  So the marks of a fill that
ends are themselves the least of them, and the map is let in exactly when they hold the exit
and all there is to collect.  No call is made for a place beside the map since calls come
from places that are no wall, which a closed rectangle has none of on its border
(`CheckedBoard`).  In the game a move changes tiles but not what is a wall
(`MoveKeepsGround`), also when the exit is stepped on and drawn again; the player can walk
back to where he was, so what he could reach he still can (`MoveReaches`); and what is left
to collect is one less exactly when he is where one of them was (`MoveKeepsPieces`).

`LatestAreKept` is `LatestAreFound`, for any room, texts and number of commands; assumed is that
there is room for one and that five texts are entered for a contact.  The invariant (`BookOK`)
is that the contact at place k is the k-th complete entry from the latest on, and the rank of an
entry is how many complete ones are not behind it.  So an entry in front adds one to each
rank if it is complete and none if it is not (`CountInFront`), and the numbers `shift()` gives
are the new ranks; when the book is full, the one it drops has the rank behind the last.  What a
search showed is what the book has at that time, and the next command takes it away (`ShownOK`).

`TreesAreCalculated` is `Calculates`, for any expressions of any length and any `LONG_MAX`.
The trees of an expression are a fold over its tokens; that the fold is what one gets token by
token is an induction over the sets of tokens (`GrownExists`, `TreesGrow`), so the tree
of a token is made from those of the tokens before it (`TreesAre`).  The invariant (`Stands`) is that what
was read is a row of trees, each beginning where the one before ends, that the stack has their values in
this order, and that none of them divides by zero.  A number is one more tree, an operator makes
one of the last two (`OperateStep`); a token that ends no tree refuses, and then no tree ends
later that has it inside, so the whole is none (`TreesAreWhole`).  As long as no value is too large
`AsLong` changes none, and the division that traps cannot come up, since its value is one
more than `LONG_MAX` (`NoTrap`).

### Deadlock

Deadlock is not checked: all but the shell end.

## 10. What is only model-checked, and what is not modelled

A remark on how the modules are written: several assignments below one index are `![i] = [@ EXCEPT !.a = .., !.b
= ..]` and never `![i].a = .., ![i].b = ..`.  Both mean the same, but from the second the
prover concludes that the earlier assignment is made and that it is not, and everything follows.

Only model-checked: the liveness properties (`EveryRunEnds`, `StarvingEnds`,
`EveryRequestIsAnswered`, `ClosedIsDestroyed`, `StreamEnds`, `EveryLineEnds`, the second
half of `PairIsRun`), since TLAPS has no rules for fairness and `ENABLED` here; what the
modules of sections 8 and 9 say of text that is cut, joined or converted, since the
recursive functions and folds there are compared with another reading of the same text,
which needs an induction over both that was not carried out, and which the library's
induction theorems, whose parameter is an operator, do not give (`Reading` and `ScriptAnswer` are proved up to this: what the parser makes of one
text that lies there whole); and of section 9 `Parsing`, `Arguments`, `Libft`, `Printf`, `Exchange`, `Spans`, `FixedPoint` and
`MergeInsertion`.

Not modelled, of the components that are modelled in part:

* philosophers - `case_one()`, a failing `pthread_create()` (the code compares what it
  returns with 1, `main.c:81-82`, and would join a thread that never was) and a failing
  `pthread_mutex_init()`.
* webserv - a file that changes while it is sent in chunks; the text of headers and pages; the
  logger; `SIGINT`; the wrappers of `socket()`, `bind()`, `listen()`; `EpollTimeoutTimer`, which
  nothing creates.
* minishell - what a heredoc reads, signals, the search for a command in `PATH`; a builtin
  writes at once in the model and by a buffered `printf()` in the code
  (`builtins_first.c:62-85`), and one that fails is left out.
* get_next_line - a descriptor below 0, or of `OPEN_MAX` and more in the bonus, for which the
  index into `my_static` is outside (`get_next_line_bonus.c:134-138`).
* pipex, so_long, cub3d - how commands are found and texts of errors; loading and
  drawing of images, sizes of windows, colours.
* libft - the functions that copy, fill or test single characters and those that
  only call another one.
* CPP - the exercises whose objects keep a name and a few numbers, and those
  about casts, templates and inheritance: each of their functions is an assignment
  or a message.

Not modelled at all: `Piscine_reloaded` (exercises of a few lines), `inception` and `cloud-1`
(descriptions of containers and hosts), the tests, and what is vendored: the graphics
library twice, and the copies of `libft`, `printf` and `get_next_line` that six
programs carry, which are represented by the one of `42_libft`, `42_printf` and
`42_get_next_line`.

This is also why the source lines the definitions name are less than a third of all
lines in the repository: the graphics libraries, those copies, the tables of colours
(five copies), the tests, the earlier stages of the same exercise in `CPP`, and drawing
and printing make up most of the rest, and none of it has a state a property could be about.
