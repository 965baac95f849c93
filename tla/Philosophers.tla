---------------------------- MODULE Philosophers ----------------------------
(***************************************************************************)
(* The threads of 42_philosophers/philo: one thread per philosopher runs   *)
(* routine(), the main thread creates them, watches them in monitor() and  *)
(* joins them in clean_exit().                                             *)
(*                                                                         *)
(* A step of the model is a pthread_mutex_lock together with the accesses  *)
(* that follow it, or a pthread_mutex_unlock together with the branch that *)
(* follows it, or the end of an ft_usleep.  Time is abstracted to the only *)
(* question the program asks of it: overdue[p] is "get_time() >            *)
(* philos[p].last_meal".  It becomes TRUE at any moment and is FALSE again *)
(* when the thread writes last_meal = get_time() + time_to_die.            *)
(***************************************************************************)
EXTENDS Integers

CONSTANTS
  N,        \* nmbr_of_philos
  Rounds    \* table->rounds: meals that make a philosopher full, -1 for none

\* main() runs case_one() instead of the threads when there is one philosopher.
ASSUME NAssumption == N \in Nat /\ N >= 2
ASSUME RoundsAssumption == Rounds \in Nat \cup {-1}

NoRounds == -1          \* table->rounds when no fifth argument is given

Philo  == 0 .. N-1      \* index in table->philos, the printed id is p + 1
Fork   == 0 .. N-1      \* index in table->forks
Main   == N
Thread == 0 .. N
Free   == -1            \* owner of a mutex nobody holds

VARIABLES
  pc,         \* pc[t]: where thread t is, named for the call it is about to make
  sec,        \* sec[t]: how far t is in the critical section at pc[t]
  seen,       \* seen[t]: what t read in its last critical section
  fork,       \* fork[f]: owner of table->forks[f]
  deadmutex,  \* owner of table->deadmutex
  mealmutex,  \* owner of table->mealmutex
  dead,       \* table->dead
  full,       \* table->full
  meals,      \* philos[p].meals
  overdue,    \* get_time() > philos[p].last_meal
  idx,        \* the index i of the loop the main thread is in
  report      \* the philosophers a "died" line was printed for

flags == <<dead, full>>
plate == <<meals, overdue>>
watch == <<idx, report>>
vars  == <<pc, sec, seen, fork, deadmutex, mealmutex, flags, plate, watch>>

\* Only meals = 0 and meals < rounds are ever asked, so meals saturates here.
MealCap == IF Rounds > 1 THEN Rounds ELSE 1

LFork(p) == p
RFork(p) == IF p = 0 THEN N-1 ELSE p-1

\* Odd ids (even indices) lock the left fork first, even ids the right fork.
OddId(p) == p % 2 = 0
LeftFirst_always(p) == TRUE         \* mutant: everybody starts on the left
LeftFirst(p) == OddId(p)
First(p)  == IF LeftFirst(p) THEN LFork(p) ELSE RFork(p)
Second(p) == IF LeftFirst(p) THEN RFork(p) ELSE LFork(p)

\* take_forks(): where it starts; an odd id that has not eaten waits first.
TakeForks(p) == IF OddId(p) /\ meals[p] = 0 THEN "think" ELSE "check1"

\* The calls of print_message(), and where the thread is after each.
AfterSay_unasked ==     \* mutant: the second dead_or_full() of take_forks() is gone
  [think |-> "wait", say1 |-> "lock2", say2 |-> "sayEat", sayEat |-> "meal",
   saySleep |-> "sleeping", sayDied |-> "setDead"]
AfterSay == [think |-> "wait", say1 |-> "check2", say2 |-> "sayEat",
             sayEat |-> "meal", saySleep |-> "sleeping", sayDied |-> "setDead"]

\* The calls of dead_or_full(), and where the thread is after a non-zero result.
AfterStop == [check1 |-> "done", check2 |-> "back", checkSleep |-> "done",
              checkLoop |-> "done"]

\* ... and after a zero result.
AfterGo(p) == [check1 |-> "lock1", check2 |-> "lock2", checkSleep |-> "saySleep",
               checkLoop |-> TakeForks(p)]

PhiloLoc == {"new", "start", "think", "wait", "check1", "lock1", "say1", "check2",
             "lock2", "say2", "sayEat", "meal", "eating", "put1", "put2", "back",
             "checkSleep", "saySleep", "sleeping", "checkLoop", "done"}
MainLoc  == {"create", "grace", "scanDead", "sayDied", "setDead", "rounds",
             "scanFull", "setFull", "join", "destroy", "exit"}

Goto(t, l)  == pc' = [pc EXCEPT ![t] = l]
Enter(t, s) == sec' = [sec EXCEPT ![t] = s]

-----------------------------------------------------------------------------

(* print_message() and dead_or_full(): both take deadmutex, then mealmutex,   *)
(* and read dead and full under both.  Neither blocks between the last access *)
(* and the two unlocks, so these are one step.                                *)

AtSay(t)   == pc[t] \in DOMAIN AfterSay
AtCheck(t) == pc[t] \in DOMAIN AfterStop

LockDead(t) ==
  /\ AtSay(t) \/ AtCheck(t)
  /\ sec[t] = "out"
  /\ deadmutex = Free
  /\ deadmutex' = t
  /\ Enter(t, "dead")
  /\ UNCHANGED <<pc, seen, fork, mealmutex, flags, plate, watch>>

Flags(t) == dead \/ full

LockMeal(t) ==
  /\ sec[t] = "dead"
  /\ mealmutex = Free
  /\ mealmutex' = t
  /\ Enter(t, "both")
  /\ seen' = [seen EXCEPT ![t] = Flags(t)]
  /\ UNCHANGED <<pc, fork, deadmutex, flags, plate, watch>>

\* printf(), when neither flag was seen, and both unlocks.
SayEnd(t) ==
  /\ AtSay(t)
  /\ sec[t] = "both"
  /\ report' = IF pc[t] = "sayDied" /\ ~seen[t] THEN report \cup {idx} ELSE report
  /\ deadmutex' = Free
  /\ mealmutex' = Free
  /\ Enter(t, "out")
  /\ Goto(t, AfterSay[pc[t]])
  /\ UNCHANGED <<seen, fork, flags, plate, idx>>

\* Both unlocks, and what the caller does with the result.
CheckEnd(t) ==
  /\ AtCheck(t)
  /\ sec[t] = "both"
  /\ deadmutex' = Free
  /\ mealmutex' = Free
  /\ Enter(t, "out")
  /\ Goto(t, IF seen[t] THEN AfterStop[pc[t]] ELSE AfterGo(t)[pc[t]])
  /\ UNCHANGED <<seen, fork, flags, plate, watch>>

-----------------------------------------------------------------------------
(* routine(), take_forks(), eat() and philo_sleep().                          *)

\* routine() sets the first deadline, eat() counts the meal and moves it on.
MealLock(p) ==
  /\ pc[p] \in {"start", "meal"}
  /\ sec[p] = "out"
  /\ mealmutex = Free
  /\ mealmutex' = p
  /\ Enter(p, "one")
  /\ overdue' = [overdue EXCEPT ![p] = FALSE]
  /\ meals' = IF pc[p] = "meal" /\ meals[p] < MealCap
              THEN [meals EXCEPT ![p] = meals[p] + 1] ELSE meals
  /\ UNCHANGED <<pc, seen, fork, deadmutex, flags, watch>>

MealUnlock(p) ==
  /\ pc[p] \in {"start", "meal"}
  /\ sec[p] = "one"
  /\ mealmutex' = Free
  /\ Enter(p, "out")
  /\ Goto(p, IF pc[p] = "meal" THEN "eating" ELSE TakeForks(p))
  /\ UNCHANGED <<seen, fork, deadmutex, flags, plate, watch>>

\* The ft_usleep() calls return after an arbitrary time.
Wake(p) ==
  /\ \/ pc[p] = "wait"     /\ Goto(p, "check1")
     \/ pc[p] = "eating"   /\ Goto(p, "put1")
     \/ pc[p] = "sleeping" /\ Goto(p, "checkLoop")
  /\ UNCHANGED <<sec, seen, fork, deadmutex, mealmutex, flags, plate, watch>>

\* The fork the thread locks next.
Wanted(p) == IF pc[p] = "lock1" THEN First(p) ELSE Second(p)
CanLock_always(p) == TRUE            \* mutant: pthread_mutex_trylock(), unchecked
CanLock(p) == fork[Wanted(p)] = Free

LockFork(p) ==
  /\ pc[p] \in {"lock1", "lock2"}
  /\ CanLock(p)
  /\ fork' = [fork EXCEPT ![Wanted(p)] = p]
  /\ Goto(p, IF pc[p] = "lock1" THEN "say1" ELSE "say2")
  /\ UNCHANGED <<sec, seen, deadmutex, mealmutex, flags, plate, watch>>

\* eat() puts down the left fork, then the right one; take_forks() puts down
\* the first one and gives up when the flags are set before the second.
PutDown(p) ==
  IF pc[p] = "put1" THEN {LFork(p)} ELSE IF pc[p] = "put2" THEN {RFork(p)} ELSE {First(p)}

UnlockFork(p) ==
  /\ pc[p] \in {"put1", "put2", "back"}
  /\ fork' = [f \in Fork |-> IF f \in PutDown(p) THEN Free ELSE fork[f]]
  /\ Goto(p, CASE pc[p] = "put1" -> "put2" [] pc[p] = "put2" -> "checkSleep"
                [] pc[p] = "back" -> "done")
  /\ UNCHANGED <<sec, seen, deadmutex, mealmutex, flags, plate, watch>>

\* The clock passes last_meal.
Expire(p) ==
  /\ ~overdue[p]
  /\ overdue' = [overdue EXCEPT ![p] = TRUE]
  /\ UNCHANGED <<pc, sec, seen, fork, deadmutex, mealmutex, flags, meals, watch>>

-----------------------------------------------------------------------------
(* main(), monitor(), check_is_dead(), check_is_full() and clean_exit().      *)

MoreToCreate_over == idx <= N       \* mutant: one thread too many
MoreToCreate == idx < N

Create ==
  /\ pc[Main] = "create"
  /\ IF MoreToCreate
     THEN pc' = [pc EXCEPT ![idx] = "start"] /\ idx' = idx + 1
     ELSE pc' = [pc EXCEPT ![Main] = "grace"] /\ idx' = idx
  /\ UNCHANGED <<sec, seen, fork, deadmutex, mealmutex, flags, plate, report>>

\* The ft_usleep(50) before the first scan: 50 ms, whatever the others do.
Grace ==
  /\ pc[Main] = "grace"
  /\ Goto(Main, "scanDead")
  /\ idx' = 0
  /\ UNCHANGED <<sec, seen, fork, deadmutex, mealmutex, flags, plate, report>>

Scan_late ==                        \* mutant: one meal less will do
  \/ pc[Main] = "scanDead" /\ overdue[idx]
  \/ pc[Main] = "rounds" /\ Rounds = -1
  \/ pc[Main] = "scanFull" /\ meals[idx] + 1 < Rounds
Scan_inverted ==                    \* mutant: rounds != -1
  \/ pc[Main] = "scanDead" /\ overdue[idx]
  \/ pc[Main] = "rounds" /\ Rounds # -1
  \/ pc[Main] = "scanFull" /\ meals[idx] < Rounds
\* The condition a scan tests.
Scan ==
  \/ pc[Main] = "scanDead" /\ overdue[idx]
  \/ pc[Main] = "rounds" /\ Rounds = -1
  \/ pc[Main] = "scanFull" /\ meals[idx] < Rounds

ScanLock ==
  /\ pc[Main] \in {"scanDead", "rounds", "scanFull"}
  /\ sec[Main] = "out"
  /\ mealmutex = Free
  /\ mealmutex' = Main
  /\ Enter(Main, "one")
  /\ seen' = [seen EXCEPT ![Main] = Scan]
  /\ UNCHANGED <<pc, fork, deadmutex, flags, plate, watch>>

\* Where a scan goes on: l when it is through with all philosophers.
NextIndex(l) ==
  IF idx + 1 < N THEN pc' = pc /\ idx' = idx + 1
                 ELSE Goto(Main, l) /\ idx' = 0

Restart_one(l) == Goto(Main, l) /\ idx' = 1     \* mutant: the loop starts at 1
Restart(l) == Goto(Main, l) /\ idx' = 0

ScanRelease_early ==    \* mutant: check_is_full() returns 0 without the unlock
  mealmutex' = IF pc[Main] = "scanFull" /\ seen[Main] THEN mealmutex ELSE Free
ScanRelease == mealmutex' = Free

ScanUnlock ==
  /\ pc[Main] \in {"scanDead", "rounds", "scanFull"}
  /\ sec[Main] = "one"
  /\ ScanRelease
  /\ Enter(Main, "out")
  /\ \/ /\ pc[Main] = "scanDead"
        /\ IF seen[Main] THEN Goto(Main, "sayDied") /\ idx' = idx
                         ELSE NextIndex("rounds")
     \/ /\ pc[Main] = "rounds"
        /\ Restart(IF seen[Main] THEN "scanDead" ELSE "scanFull")
     \/ /\ pc[Main] = "scanFull"
        /\ IF seen[Main] THEN Restart("scanDead") ELSE NextIndex("setFull")
  /\ UNCHANGED <<seen, fork, deadmutex, flags, plate, report>>

AfterDeath == "join"

SetDead ==
  /\ pc[Main] = "setDead"
  /\ \/ /\ sec[Main] = "out"
        /\ deadmutex = Free
        /\ deadmutex' = Main
        /\ dead' = TRUE
        /\ Enter(Main, "one")
        /\ UNCHANGED <<pc, idx>>
     \/ /\ sec[Main] = "one"
        /\ deadmutex' = Free
        /\ Enter(Main, "out")
        /\ Restart(AfterDeath)
        /\ UNCHANGED dead
  /\ UNCHANGED <<seen, fork, mealmutex, full, plate, report>>

FullLock_none == UNCHANGED mealmutex            \* mutant: full is set without the lock
FullLock == mealmutex = Free /\ mealmutex' = Main

SetFull ==
  /\ pc[Main] = "setFull"
  /\ \/ /\ sec[Main] = "out"
        /\ FullLock
        /\ full' = TRUE
        /\ Enter(Main, "one")
        /\ UNCHANGED <<pc, idx>>
     \/ /\ sec[Main] = "one"
        /\ mealmutex' = Free
        /\ Enter(Main, "out")
        /\ Restart("join")
        /\ UNCHANGED full
  /\ UNCHANGED <<seen, fork, deadmutex, dead, plate, report>>

\* pthread_join() returns when the thread has returned from routine().
JoinReturns_last == pc[idx] = "done" \/ idx = N-1      \* mutant: the last is not joined
JoinReturns == pc[idx] = "done"

Join ==
  /\ pc[Main] = "join"
  /\ JoinReturns
  /\ NextIndex("destroy")
  /\ UNCHANGED <<sec, seen, fork, deadmutex, mealmutex, flags, plate, report>>

\* The pthread_mutex_destroy() calls; main() then returns.
Destroy ==
  /\ pc[Main] = "destroy"
  /\ Goto(Main, "exit")
  /\ UNCHANGED <<sec, seen, fork, deadmutex, mealmutex, flags, plate, watch>>

\* The program is over: the only state without a step of its own.
Exited == pc[Main] = "exit" /\ UNCHANGED vars

-----------------------------------------------------------------------------

Init ==
  /\ pc = [t \in Thread |-> IF t = Main THEN "create" ELSE "new"]
  /\ sec = [t \in Thread |-> "out"]
  /\ seen = [t \in Thread |-> FALSE]
  /\ fork = [f \in Fork |-> Free]
  /\ deadmutex = Free
  /\ mealmutex = Free
  /\ dead = FALSE
  /\ full = FALSE
  /\ meals = [p \in Philo |-> 0]
  /\ overdue = [p \in Philo |-> TRUE]     \* last_meal = 0
  /\ idx = 0
  /\ report = {}

Section(t) ==
  LockDead(t) \/ LockMeal(t) \/ SayEnd(t) \/ CheckEnd(t)

PhiloStep(p) ==
  Section(p) \/ MealLock(p) \/ MealUnlock(p) \/ Wake(p) \/ LockFork(p) \/ UnlockFork(p)

MainStep ==
  \/ Section(Main) \/ Create \/ Grace \/ ScanLock \/ ScanUnlock \/ SetDead \/ SetFull
  \/ Join \/ Destroy

Next ==
  \/ \E p \in Philo : PhiloStep(p) \/ Expire(p)
  \/ MainStep
  \/ Exited

Spec == Init /\ [][Next]_vars

\* A thread that can go on goes on; nothing is assumed of which philosopher gets a
\* mutex, only that the main thread is not kept from it for ever.
MonitorSpec == Spec /\ SF_vars(MainStep) /\ \A p \in Philo : WF_vars(PhiloStep(p))

\* A thread that waits for a mutex gets it if it is free again and again.
FairMutexSpec == Spec /\ SF_vars(MainStep) /\ \A p \in Philo : SF_vars(PhiloStep(p))

-----------------------------------------------------------------------------

\* Each thread is in a function it calls.
Place(t) == IF t = Main THEN MainLoc ELSE PhiloLoc

PlacesOK == pc \in [Thread -> PhiloLoc \cup MainLoc] /\ \A t \in Thread : pc[t] \in Place(t)

TypeOK ==
  /\ PlacesOK
  /\ sec \in [Thread -> {"out", "one", "dead", "both"}]
  /\ seen \in [Thread -> BOOLEAN]
  /\ fork \in [Fork -> Philo \cup {Free}]
  /\ deadmutex \in Thread \cup {Free}
  /\ mealmutex \in Thread \cup {Free}
  /\ dead \in BOOLEAN
  /\ full \in BOOLEAN
  /\ meals \in [Philo -> 0 .. MealCap]
  /\ overdue \in [Philo -> BOOLEAN]
  /\ idx \in 0 .. N
  /\ report \in SUBSET (0 .. N)

\* The forks philosopher p has in hand at place l of take_forks() and eat().
Hand(p, l) ==
  IF l \in {"say1", "check2", "lock2", "back"} THEN {First(p)}
  ELSE IF l \in {"say2", "sayEat", "meal", "eating", "put1"} THEN {LFork(p), RFork(p)}
  ELSE IF l = "put2" THEN {RFork(p)} ELSE {}

\* The mutexes of the table a thread holds in part s of the section at place l.
HasDead(s, l) == s \in {"dead", "both"} \/ (s = "one" /\ l = "setDead")
HasMeal(s, l) == s = "both" \/ (s = "one" /\ l # "setDead")

\* A fork belongs to the philosopher that has it in hand at its place in
\* take_forks() and eat(), and to nobody else: no unlock of a mutex that another
\* thread holds, and no fork left locked on the way out through a failed
\* take_left_fork() or take_right_fork().
ForkOwnership ==
  \A f \in Fork, p \in Philo : fork[f] = p <=> f \in Hand(p, pc[p])

\* The same for the two mutexes of the table, over all their critical sections.
TableOwnership ==
  \A t \in Thread : /\ deadmutex = t <=> HasDead(sec[t], pc[t])
                    /\ mealmutex = t <=> HasMeal(sec[t], pc[t])

\* Both: no mutex is unlocked by another thread than its owner, and none is left locked.
MutexesAreOwned == ForkOwnership /\ TableOwnership

Eating(p) == pc[p] \in {"sayEat", "meal", "eating"}

\* Two philosophers that share a fork never eat at the same time (eat()).
NeighboursTakeTurns ==
  \A p, q \in Philo :
    p # q /\ {LFork(p), RFork(p)} \cap {LFork(q), RFork(q)} # {} => ~(Eating(p) /\ Eating(q))

\* s cannot go on before t releases a mutex, or ends.
WaitsFor(s, t) ==
  \/ pc[s] = "lock1" /\ fork[First(s)] = t
  \/ pc[s] = "lock2" /\ fork[Second(s)] = t
  \/ sec[s] = "out" /\ (AtSay(s) \/ AtCheck(s) \/ pc[s] = "setDead") /\ deadmutex = t
  \/ /\ \/ sec[s] = "dead"
        \/ /\ sec[s] = "out"
           /\ pc[s] \in {"start", "meal", "scanDead", "rounds", "scanFull", "setFull"}
     /\ mealmutex = t
  \/ pc[s] = "join" /\ t = idx /\ pc[t] # "done"

\* In every set of threads some thread waits for none of the set: no circle of
\* philosophers with one fork each, whatever their number and parity, and none
\* through deadmutex, mealmutex and the joins of clean_exit().
NoCircularWait ==
  \A S \in (SUBSET Thread) \ {{}} : \E s \in S : \A t \in S : ~WaitsFor(s, t)

\* A thread is in a critical section only where the code has one.
SectionOK(s, l) ==
  /\ s \in {"dead", "both"} => l \in DOMAIN AfterSay \cup DOMAIN AfterStop
  /\ s = "one" => l \in {"start", "meal", "scanDead", "rounds", "scanFull", "setDead",
                         "setFull"}
SectionsOK == \A t \in Thread : SectionOK(sec[t], pc[t])

\* main() creates each thread once.
CreatesOnce == pc[Main] = "create" => \A p \in Philo : p >= idx => pc[p] = "new"

\* The scans and the joins stay inside table->philos.
IndexOK == pc[Main] \in {"create", "grace"} \/ idx \in Philo

\* What print_message() and dead_or_full() read is still so when they act on it:
\* nothing is printed, and no fork is gone for, on the strength of a flag that
\* another thread has set since.
VerdictIsCurrent ==
  \A t \in Thread : sec[t] = "both" => (seen[t] <=> (dead \/ full))

\* A philosopher gives up only after the table has been stopped.
LeavesOnlyAfterStop ==
  \A p \in Philo : pc[p] \in {"back", "done"} => dead \/ full

\* A flag is acted on while it is so, and only then.
FlagsAreHeeded == VerdictIsCurrent /\ LeavesOnlyAfterStop

\* The inductive invariant of the proofs about the mutexes and the stop.
IInv ==
  /\ TypeOK /\ SectionsOK /\ CreatesOnce /\ IndexOK /\ ForkOwnership
  /\ TableOwnership /\ VerdictIsCurrent /\ LeavesOnlyAfterStop

\* The table is stopped for one reason: a death that has been printed, of one
\* philosopher, or everybody having eaten enough and no death printed: check_is_full()
\* looks at one philosopher per critical section, and all of them are full when it
\* sets the flag.
OneVerdict ==
  /\ dead => ~full /\ \E p \in Philo : report = {p}
  /\ full => report = {} /\ \A p \in Philo : meals[p] >= Rounds

\* clean_exit() destroys the mutexes when every thread has returned and none is held.
DestroysOnlyFree ==
  pc[Main] \in {"destroy", "exit"} =>
    /\ \A p \in Philo : pc[p] = "done"
    /\ \A f \in Fork : fork[f] = Free
    /\ deadmutex = Free /\ mealmutex = Free

\* The program ends for one reason, and nobody uses what it destroys then: check_is_full(),
\* clean_exit().
EndsInOrder == OneVerdict /\ DestroysOnlyFree

\* Mutexes aside, the threads behave as Dining says.
ActivityAt(l) ==
  IF l = "lock2" THEN "reach"
  ELSE IF l \in {"say2", "sayEat", "meal", "eating", "put1"} THEN "eat"
  ELSE IF l = "done" THEN "left" ELSE "think"
Activity == [p \in Philo |-> ActivityAt(pc[p])]

Table == INSTANCE Dining WITH activity <- Activity, stopped <- dead \/ full

\* The threads implement the table: neighbours exclude each other, nobody leaves
\* a running table, and after the stop nobody goes for the last fork any more, so
\* each philosopher begins at most one more meal.
ImplementsDining == Table!Spec

\* Once a flag is set every thread leaves its loop and main() returns, whoever
\* gets the mutexes: dead_or_full() is asked on every path round the loop.
StopsForGood == (dead \/ full) ~> (pc[Main] = "exit")

\* With a number of meals to reach, every run ends: everybody gets there or the
\* monitor finds one who starves.  No philosopher waits for its forks for ever.
EveryRunEnds == Rounds # NoRounds => <>(pc[Main] = "exit")

\* A philosopher that stays overdue is found and the table stopped, whatever the
\* philosophers are busy with and without a number of meals to reach.
StarvationIsFound == \A p \in Philo : <>[]overdue[p] => <>(dead \/ full)

\* Both: a table at which somebody starves is left by every thread.
StarvingEnds == StarvationIsFound /\ StopsForGood

=============================================================================
