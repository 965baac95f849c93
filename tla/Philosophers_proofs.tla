------------------------- MODULE Philosophers_proofs -------------------------
(* Proofs about Philosophers, for every number of philosophers and of rounds. *)
EXTENDS Philosophers, TLAPS

USE NAssumption, RoundsAssumption DEF Philo, Fork, Main, Thread, Free

LEMMA MealCapNat == MealCap \in Nat /\ MealCap >= 1
  BY DEF MealCap

\* The forks of a philosopher are two different ones of the table.
LEMMA ForkTypes ==
  ASSUME NEW p \in Philo
  PROVE  /\ LFork(p) \in Fork /\ RFork(p) \in Fork /\ LFork(p) # RFork(p)
         /\ {First(p), Second(p)} = {LFork(p), RFork(p)}
         /\ First(p) \in Fork /\ Second(p) \in Fork /\ First(p) # Second(p)
  BY DEF First, Second, LFork, RFork

-----------------------------------------------------------------------------
(* Types.                                                                     *)

LEMMA GotoKeepsPlaces ==
  ASSUME PlacesOK, NEW t \in Thread, NEW l \in Place(t), Goto(t, l)
  PROVE  PlacesOK'
<1>1. l \in PhiloLoc \cup MainLoc
  BY DEF Place
<1>2. pc' \in [Thread -> PhiloLoc \cup MainLoc]
  BY <1>1 DEF Goto, PlacesOK
<1>3. ASSUME NEW u \in Thread PROVE pc'[u] \in Place(u)
  <2>1. CASE u = t
    BY <2>1 DEF Goto, PlacesOK
  <2>2. CASE u # t
    BY <2>2 DEF Goto, PlacesOK
  <2> QED BY <2>1, <2>2
<1> QED BY <1>2, <1>3 DEF PlacesOK, Place

LEMMA SamePlaces == PlacesOK /\ UNCHANGED pc => PlacesOK'
  BY DEF PlacesOK, Place

\* After a print_message() and a dead_or_full() a thread is in its own code.
LEMMA AfterSayPlace ==
  ASSUME PlacesOK, NEW t \in Thread, AtSay(t)
  PROVE  AfterSay[pc[t]] \in Place(t)
<1>1. pc[t] \in Place(t)
  BY DEF PlacesOK
<1>2. CASE t = Main
  BY <1>1, <1>2 DEF AtSay, AfterSay, Place, MainLoc
<1>3. CASE t # Main
  BY <1>1, <1>3 DEF AtSay, AfterSay, Place, PhiloLoc
<1> QED BY <1>2, <1>3

LEMMA CheckIsPhilo ==
  ASSUME PlacesOK, NEW t \in Thread, AtCheck(t)
  PROVE  t \in Philo
<1>1. pc[t] \in Place(t)
  BY DEF PlacesOK
<1>2. CASE t = Main
  BY <1>1, <1>2 DEF AtCheck, AfterStop, Place, MainLoc
<1> QED BY <1>2

LEMMA TakeForksPlace ==
  ASSUME NEW p \in Philo PROVE TakeForks(p) \in PhiloLoc
  BY DEF TakeForks, PhiloLoc

LEMMA AfterCheckPlace ==
  ASSUME PlacesOK, NEW t \in Thread, AtCheck(t)
  PROVE  AfterStop[pc[t]] \in Place(t) /\ AfterGo(t)[pc[t]] \in Place(t)
<1>1. t \in Philo
  BY CheckIsPhilo
<1>2. Place(t) = PhiloLoc
  BY <1>1 DEF Place
<1>3. AfterStop[pc[t]] \in PhiloLoc
  BY DEF AtCheck, AfterStop, PhiloLoc
<1>4. TakeForks(t) \in PhiloLoc
  BY <1>1, TakeForksPlace
<1>5. AfterGo(t)[pc[t]] \in {"lock1", "lock2", "saySleep", TakeForks(t)}
  BY DEF AtCheck, AfterStop, AfterGo
<1> QED BY <1>2, <1>3, <1>4, <1>5 DEF PhiloLoc

LEMMA TypeInit == Init => TypeOK
<1> SUFFICES ASSUME Init PROVE TypeOK
  OBVIOUS
<1>1. PlacesOK
  <2>1. ASSUME NEW t \in Thread PROVE pc[t] \in Place(t)
    BY DEF Init, Place, PhiloLoc, MainLoc
  <2>2. pc \in [Thread -> PhiloLoc \cup MainLoc]
    BY DEF Init, PhiloLoc, MainLoc
  <2> QED BY <2>1, <2>2 DEF PlacesOK
<1>2. /\ sec \in [Thread -> {"out", "one", "dead", "both"}]
      /\ seen \in [Thread -> BOOLEAN]
      /\ fork \in [Fork -> Philo \cup {Free}]
  BY DEF Init
<1>3. /\ meals \in [Philo -> 0 .. MealCap]
      /\ overdue \in [Philo -> BOOLEAN]
      /\ idx \in 0 .. N
      /\ report \in SUBSET (0 .. N)
  BY MealCapNat DEF Init
<1> QED BY <1>1, <1>2, <1>3 DEF Init, TypeOK

LEMMA TypeStep == TypeOK /\ [Next]_vars => TypeOK'
<1> SUFFICES ASSUME TypeOK, [Next]_vars PROVE TypeOK'
  OBVIOUS
<1> PlacesOK
  BY DEF TypeOK
<1> USE MealCapNat DEF Enter, flags, plate, watch
<1>1. ASSUME NEW t \in Thread, Section(t) PROVE TypeOK'
  <2>1. CASE LockDead(t)
    BY <2>1, SamePlaces DEF LockDead, TypeOK
  <2>2. CASE LockMeal(t)
    BY <2>2, SamePlaces DEF LockMeal, Flags, TypeOK
  <2>3. CASE SayEnd(t)
    <3>1. PlacesOK'
      BY <2>3, AfterSayPlace, GotoKeepsPlaces DEF SayEnd
    <3>2. report' \in SUBSET (0 .. N)
      <4>1. report' = report \/ report' = report \cup {idx}
        BY <2>3 DEF SayEnd
      <4> QED BY <4>1 DEF TypeOK
    <3>3. /\ UNCHANGED <<seen, fork, dead, full, meals, overdue, idx>>
          /\ sec' = [sec EXCEPT ![t] = "out"] /\ deadmutex' = Free /\ mealmutex' = Free
      BY <2>3 DEF SayEnd
    <3> QED BY <3>1, <3>2, <3>3 DEF TypeOK
  <2>4. CASE CheckEnd(t)
    <3>1. PlacesOK'
      BY <2>4, AfterCheckPlace, GotoKeepsPlaces DEF CheckEnd
    <3> QED BY <2>4, <3>1 DEF CheckEnd, TypeOK
  <2>5. QED BY <1>1, <2>1, <2>2, <2>3, <2>4 DEF Section
<1>2. ASSUME NEW p \in Philo, MealLock(p) PROVE TypeOK'
  BY <1>2, SamePlaces DEF MealLock, TypeOK
<1>3. ASSUME NEW p \in Philo, MealUnlock(p) PROVE TypeOK'
  <2>1. "eating" \in Place(p) /\ TakeForks(p) \in Place(p)
    BY TakeForksPlace DEF Place, PhiloLoc
  <2>2. PlacesOK'
    BY <1>3, <2>1, GotoKeepsPlaces DEF MealUnlock
  <2> QED BY <1>3, <2>2 DEF MealUnlock, TypeOK
<1>4. ASSUME NEW p \in Philo, Wake(p) PROVE TypeOK'
  <2>1. {"check1", "put1", "checkLoop"} \subseteq Place(p)
    BY DEF Place, PhiloLoc
  <2>2. PlacesOK'
    BY <1>4, <2>1, GotoKeepsPlaces DEF Wake
  <2> QED BY <1>4, <2>2 DEF Wake, TypeOK
<1>5. ASSUME NEW p \in Philo, LockFork(p) PROVE TypeOK'
  <2>1. {"say1", "say2"} \subseteq Place(p)
    BY DEF Place, PhiloLoc
  <2>2. PlacesOK'
    BY <1>5, <2>1, GotoKeepsPlaces DEF LockFork
  <2> QED BY <1>5, <2>2 DEF LockFork, TypeOK
<1>6. ASSUME NEW p \in Philo, UnlockFork(p) PROVE TypeOK'
  <2>1. {"put2", "checkSleep", "done"} \subseteq Place(p)
    BY DEF Place, PhiloLoc
  <2>2. PlacesOK'
    BY <1>6, <2>1, GotoKeepsPlaces DEF UnlockFork
  <2> QED BY <1>6, <2>2 DEF UnlockFork, TypeOK
<1>7. ASSUME NEW p \in Philo, Expire(p) PROVE TypeOK'
  BY <1>7, SamePlaces DEF Expire, TypeOK
<1>8. CASE Create
  <2>1. ASSUME idx < N PROVE PlacesOK'
    <3>1. idx \in Thread /\ "start" \in Place(idx) /\ Goto(idx, "start")
      BY <1>8, <2>1 DEF Create, MoreToCreate, TypeOK, Place, PhiloLoc, Goto
    <3> QED BY <3>1, GotoKeepsPlaces
  <2>2. ASSUME ~(idx < N) PROVE PlacesOK'
    <3>1. "grace" \in Place(Main) /\ Goto(Main, "grace")
      BY <1>8, <2>2 DEF Create, MoreToCreate, Place, MainLoc, Goto
    <3> QED BY <3>1, GotoKeepsPlaces
  <2> QED BY <1>8, <2>1, <2>2 DEF Create, MoreToCreate, TypeOK
<1>9. MainLoc = Place(Main) /\ Main \in Thread
  BY DEF Place
<1>10. CASE Grace
  <2>1. PlacesOK'
    BY <1>10, <1>9, GotoKeepsPlaces DEF Grace, MainLoc
  <2> QED BY <1>10, <2>1 DEF Grace, TypeOK
<1>11. CASE ScanLock
  <2>1. Scan \in BOOLEAN
    BY DEF Scan
  <2> QED BY <1>11, <2>1, <1>9, SamePlaces DEF ScanLock, TypeOK
<1>12. ASSUME NEW l \in MainLoc, NextIndex(l) PROVE PlacesOK' /\ (TypeOK => idx' \in 0 .. N)
  BY <1>12, <1>9, GotoKeepsPlaces, SamePlaces DEF NextIndex, TypeOK
<1>13. ASSUME NEW l \in MainLoc, Restart(l) PROVE PlacesOK' /\ idx' \in 0 .. N
  BY <1>13, <1>9, GotoKeepsPlaces DEF Restart
<1>14. {"sayDied", "rounds", "scanDead", "scanFull", "setFull", "join", "destroy", "exit"}
          \subseteq MainLoc
  BY DEF MainLoc
<1>15. CASE ScanUnlock
  <2>1. PlacesOK' /\ idx' \in 0 .. N
    <3>1. CASE pc[Main] = "scanDead" /\ seen[Main]
      BY <1>15, <3>1, <1>9, <1>14, GotoKeepsPlaces DEF ScanUnlock, TypeOK
    <3>2. CASE ~(pc[Main] = "scanDead" /\ seen[Main])
      BY <1>15, <3>2, <1>12, <1>13, <1>14 DEF ScanUnlock
    <3> QED BY <3>1, <3>2
  <2> QED BY <1>15, <2>1, <1>9 DEF ScanUnlock, ScanRelease, TypeOK
<1>16. CASE SetDead
  <2>1. PlacesOK' /\ idx' \in 0 .. N
    BY <1>16, <1>13, <1>14, SamePlaces DEF SetDead, AfterDeath, TypeOK
  <2> QED BY <1>16, <2>1, <1>9 DEF SetDead, TypeOK
<1>17. CASE SetFull
  <2>1. PlacesOK' /\ idx' \in 0 .. N
    BY <1>17, <1>13, <1>14, SamePlaces DEF SetFull, TypeOK
  <2> QED BY <1>17, <2>1, <1>9 DEF SetFull, FullLock, TypeOK
<1>18. CASE Join
  BY <1>18, <1>12, <1>14 DEF Join, TypeOK
<1>19. CASE Destroy
  <2>1. PlacesOK'
    BY <1>19, <1>9, <1>14, GotoKeepsPlaces DEF Destroy
  <2> QED BY <1>19, <2>1 DEF Destroy, TypeOK
<1>20. CASE UNCHANGED vars
  BY <1>20, SamePlaces DEF vars, TypeOK
<1>21. CASE Exited
  BY <1>20, <1>21 DEF Exited
<1> QED
  BY <1>1, <1>2, <1>3, <1>4, <1>5, <1>6, <1>7, <1>8, <1>10, <1>11, <1>15, <1>16, <1>17,
     <1>18, <1>19, <1>20, <1>21, <1>9 DEF Next, PhiloStep, MainStep

\* Every variable has its type in every reachable state.
THEOREM TypeCorrect == Spec => []TypeOK
  BY TypeInit, TypeStep, PTL DEF Spec

-----------------------------------------------------------------------------
(* The fork mutexes: who owns one has it in hand.                             *)

\* A thread that moves without touching the forks keeps what it has in hand.
LEMMA SameHand ==
  ASSUME TypeOK, ForkOwnership, NEW t \in Thread, NEW l, Goto(t, l), UNCHANGED fork,
         t \in Philo => Hand(t, l) = Hand(t, pc[t])
  PROVE  ForkOwnership'
<1> SUFFICES ASSUME NEW f \in Fork, NEW p \in Philo
             PROVE  fork'[f] = p <=> f \in Hand(p, pc'[p])
  BY DEF ForkOwnership, Hand, First, Second, LeftFirst, OddId, LFork, RFork
<1>1. fork[f] = p <=> f \in Hand(p, pc[p])
  BY DEF ForkOwnership
<1>2. CASE p = t
  BY <1>1, <1>2 DEF Goto, TypeOK, PlacesOK
<1>3. CASE p # t
  BY <1>1, <1>3 DEF Goto, TypeOK, PlacesOK
<1> QED BY <1>2, <1>3

LEMMA StillHand ==
  ASSUME ForkOwnership, UNCHANGED <<fork, pc>> PROVE ForkOwnership'
  BY DEF ForkOwnership, Hand, First, Second, LeftFirst, OddId, LFork, RFork

LEMMA ForkStep == IInv /\ [Next]_vars => ForkOwnership'
<1> SUFFICES ASSUME IInv, [Next]_vars PROVE ForkOwnership'
  OBVIOUS
<1> TypeOK /\ ForkOwnership /\ SectionsOK /\ CreatesOnce /\ PlacesOK
  BY DEF IInv, TypeOK
<1>1. ASSUME NEW t \in Thread, Section(t) PROVE ForkOwnership'
  <2>1. CASE LockDead(t) \/ LockMeal(t)
    BY <2>1, StillHand DEF LockDead, LockMeal
  <2>2. CASE SayEnd(t)
    <3>1. t \in Philo => Hand(t, AfterSay[pc[t]]) = Hand(t, pc[t])
      BY <2>2 DEF SayEnd, AtSay, AfterSay, Hand
    <3> QED BY <2>2, <3>1, SameHand DEF SayEnd
  <2>3. CASE CheckEnd(t)
    <3>1. TakeForks(t) \in {"think", "check1"}
      BY DEF TakeForks
    <3>2. Hand(t, AfterStop[pc[t]]) = Hand(t, pc[t])
      BY <2>3 DEF CheckEnd, AtCheck, AfterStop, Hand
    <3>3. Hand(t, AfterGo(t)[pc[t]]) = Hand(t, pc[t])
      BY <2>3, <3>1 DEF CheckEnd, AtCheck, AfterStop, AfterGo, Hand
    <3> QED BY <2>3, <3>2, <3>3, SameHand DEF CheckEnd
  <2> QED BY <1>1, <2>1, <2>2, <2>3 DEF Section
<1>2. ASSUME NEW p \in Philo, MealLock(p) \/ Expire(p) PROVE ForkOwnership'
  BY <1>2, StillHand DEF MealLock, Expire
<1>3. ASSUME NEW p \in Philo, MealUnlock(p) PROVE ForkOwnership'
  <2>1. TakeForks(p) \in {"think", "check1"}
    BY DEF TakeForks
  <2>2. pc[p] = "start" => Hand(p, TakeForks(p)) = Hand(p, pc[p])
    BY <2>1 DEF Hand
  <2>3. Hand(p, "eating") = Hand(p, "meal")
    BY DEF Hand
  <2> QED BY <1>3, <2>2, <2>3, SameHand DEF MealUnlock
<1>4. ASSUME NEW p \in Philo, Wake(p) PROVE ForkOwnership'
  <2>1. /\ Hand(p, "wait") = Hand(p, "check1") /\ Hand(p, "eating") = Hand(p, "put1")
        /\ Hand(p, "sleeping") = Hand(p, "checkLoop")
    BY DEF Hand
  <2> QED BY <1>4, <2>1, SameHand DEF Wake
<1>5. ASSUME NEW p \in Philo, LockFork(p) PROVE ForkOwnership'
  <2> DEFINE l == IF pc[p] = "lock1" THEN "say1" ELSE "say2"
  <2>1. Hand(p, l) = Hand(p, pc[p]) \cup {Wanted(p)} /\ Wanted(p) \in Fork
    BY <1>5, ForkTypes DEF LockFork, Hand, Wanted
  <2>2. fork[Wanted(p)] = Free /\ fork' = [fork EXCEPT ![Wanted(p)] = p] /\ Goto(p, l)
    BY <1>5 DEF LockFork, CanLock
  <2> HIDE DEF l
  <2> SUFFICES ASSUME NEW f \in Fork, NEW q \in Philo
               PROVE  fork'[f] = q <=> f \in Hand(q, pc'[q])
    BY DEF ForkOwnership, Hand, First, Second, LeftFirst, OddId, LFork, RFork
  <2>3. \A g \in Fork : fork[g] = q <=> g \in Hand(q, pc[q])
    BY DEF ForkOwnership
  <2>4. pc'[q] = IF q = p THEN l ELSE pc[q]
    BY <2>2 DEF Goto, PlacesOK
  <2>5. fork'[f] = IF f = Wanted(p) THEN p ELSE fork[f]
    BY <2>1, <2>2 DEF TypeOK
  <2> QED BY <2>1, <2>2, <2>3, <2>4, <2>5
<1>6. ASSUME NEW p \in Philo, UnlockFork(p) PROVE ForkOwnership'
  <2> DEFINE l == CASE pc[p] = "put1" -> "put2" [] pc[p] = "put2" -> "checkSleep"
                    [] pc[p] = "back" -> "done"
  <2>1. Hand(p, l) = Hand(p, pc[p]) \ PutDown(p) /\ PutDown(p) \subseteq Hand(p, pc[p])
    BY <1>6, ForkTypes DEF UnlockFork, Hand, PutDown
  <2>2. fork' = [f \in Fork |-> IF f \in PutDown(p) THEN Free ELSE fork[f]] /\ Goto(p, l)
    BY <1>6 DEF UnlockFork
  <2> HIDE DEF l
  <2> SUFFICES ASSUME NEW f \in Fork, NEW q \in Philo
               PROVE  fork'[f] = q <=> f \in Hand(q, pc'[q])
    BY DEF ForkOwnership, Hand, First, Second, LeftFirst, OddId, LFork, RFork
  <2>3. (fork[f] = q <=> f \in Hand(q, pc[q])) /\ (fork[f] = p <=> f \in Hand(p, pc[p]))
    BY DEF ForkOwnership
  <2>4. pc'[q] = IF q = p THEN l ELSE pc[q]
    BY <2>2 DEF Goto, PlacesOK
  <2> QED BY <2>1, <2>2, <2>3, <2>4
<1>7. CASE Create
  <2>1. ASSUME idx < N PROVE ForkOwnership'
    <3>1. pc[Main] = "create" /\ idx \in Philo
      BY <1>7, <2>1 DEF Create, TypeOK
    <3>2. pc[idx] = "new"
      BY <3>1 DEF CreatesOnce
    <3>3. Goto(idx, "start") /\ UNCHANGED fork
      BY <1>7, <2>1 DEF Create, MoreToCreate, Goto
    <3>4. Hand(idx, "start") = Hand(idx, pc[idx])
      BY <3>2 DEF Hand
    <3> QED BY <3>1, <3>3, <3>4, SameHand
  <2>2. ASSUME ~(idx < N) PROVE ForkOwnership'
    BY <1>7, <2>2, SameHand DEF Create, MoreToCreate, Goto
  <2> QED BY <2>1, <2>2
<1>8. Main \in Thread /\ Main \notin Philo
  OBVIOUS
<1>9. ASSUME UNCHANGED pc \/ (\E l \in MainLoc : Goto(Main, l)), UNCHANGED fork
      PROVE  ForkOwnership'
  BY <1>8, <1>9, SameHand, StillHand
<1>10. CASE Grace \/ ScanLock \/ ScanUnlock \/ SetDead \/ SetFull \/ Join \/ Destroy
  <2>1. CASE Grace \/ Destroy
    BY <2>1, <1>9 DEF Grace, Destroy, MainLoc
  <2>2. CASE ScanLock
    BY <2>2, <1>9 DEF ScanLock
  <2>3. CASE ScanUnlock
    BY <2>3, <1>9 DEF ScanUnlock, Restart, NextIndex, MainLoc
  <2>4. CASE SetDead \/ SetFull
    BY <2>4, <1>9 DEF SetDead, SetFull, AfterDeath, Restart, MainLoc
  <2>5. CASE Join
    BY <2>5, <1>9 DEF Join, NextIndex, MainLoc
  <2> QED BY <1>10, <2>1, <2>2, <2>3, <2>4, <2>5
<1>11. CASE Exited \/ UNCHANGED vars
  BY <1>11, StillHand DEF Exited, vars
<1> QED
  BY <1>1, <1>2, <1>3, <1>4, <1>5, <1>6, <1>7, <1>8, <1>10, <1>11 DEF Next, PhiloStep, MainStep

-----------------------------------------------------------------------------
(* The mutexes of the table, and the flags read and written under them.       *)

\* What a step of thread t may do to a mutex, given whether t is in a section of
\* it before and after the step.
MutexStep(m, n, t, before, after) ==
  \/ n = m /\ (before <=> after)
  \/ m = Free /\ n = t /\ after
  \/ before /\ n = Free /\ ~after

Move(t, s, l) ==
  /\ sec' = [sec EXCEPT ![t] = s] /\ pc' = [pc EXCEPT ![t] = l]
  /\ SectionOK(s, l)
  /\ MutexStep(deadmutex, deadmutex', t, HasDead(sec[t], pc[t]), HasDead(s, l))
  /\ MutexStep(mealmutex, mealmutex', t, HasMeal(sec[t], pc[t]), HasMeal(s, l))

LEMMA MoveKeepsSections ==
  ASSUME TypeOK, SectionsOK, TableOwnership, NEW t \in Thread, NEW s, NEW l, Move(t, s, l)
  PROVE  SectionsOK' /\ TableOwnership'
<1> SUFFICES ASSUME NEW u \in Thread
             PROVE  /\ SectionOK(sec'[u], pc'[u])
                    /\ deadmutex' = u <=> HasDead(sec'[u], pc'[u])
                    /\ mealmutex' = u <=> HasMeal(sec'[u], pc'[u])
  BY DEF SectionsOK, TableOwnership, SectionOK, HasDead, HasMeal, AfterSay, AfterStop
<1>1. sec'[u] = (IF u = t THEN s ELSE sec[u]) /\ pc'[u] = (IF u = t THEN l ELSE pc[u])
  BY DEF Move, TypeOK, PlacesOK
<1>2. /\ SectionOK(sec[u], pc[u])
      /\ deadmutex = u <=> HasDead(sec[u], pc[u])
      /\ mealmutex = u <=> HasMeal(sec[u], pc[u])
      /\ deadmutex = t <=> HasDead(sec[t], pc[t])
      /\ mealmutex = t <=> HasMeal(sec[t], pc[t])
  BY DEF SectionsOK, TableOwnership
<1>3. u # Free
  OBVIOUS
<1>4. MutexStep(deadmutex, deadmutex', t, HasDead(sec[t], pc[t]), HasDead(s, l))
  BY DEF Move
<1>5. MutexStep(mealmutex, mealmutex', t, HasMeal(sec[t], pc[t]), HasMeal(s, l))
  BY DEF Move
<1>6. SectionOK(s, l)
  BY DEF Move
<1>7. CASE u = t
  BY <1>1, <1>2, <1>3, <1>4, <1>5, <1>6, <1>7 DEF MutexStep
<1>8. CASE u # t
  BY <1>1, <1>2, <1>3, <1>4, <1>5, <1>8 DEF MutexStep
<1> QED BY <1>7, <1>8

\* Every step is the move of one thread, or no move at all.
LEMMA StepIsMove ==
  ASSUME IInv, Next
  PROVE  \/ \E t \in Thread : \E s, l : Move(t, s, l)
         \/ UNCHANGED <<sec, pc, deadmutex, mealmutex>>
<1> TypeOK /\ SectionsOK /\ CreatesOnce /\ TableOwnership /\ PlacesOK
  BY DEF IInv, TypeOK
<1> DEFINE Moved == \E t \in Thread : \E s, l : Move(t, s, l)
<1> USE DEF Goto, Enter, MutexStep
<1>0. /\ pc \in [Thread -> PhiloLoc \cup MainLoc]
      /\ sec \in [Thread -> {"out", "one", "dead", "both"}]
      /\ \A t \in Thread : /\ sec = [sec EXCEPT ![t] = sec[t]]
                           /\ pc = [pc EXCEPT ![t] = pc[t]]
                           /\ SectionOK(sec[t], pc[t])
  BY DEF TypeOK, PlacesOK, SectionsOK
<1>1. ASSUME NEW t \in Thread, Section(t) PROVE Moved
  <2>1. CASE LockDead(t)
    <3> Move(t, "dead", pc[t])
      BY <2>1, <1>0 DEF LockDead, Move, SectionOK, HasDead, HasMeal, AtSay, AtCheck
    <3> QED OBVIOUS
  <2>2. CASE LockMeal(t)
    <3> Move(t, "both", pc[t])
      BY <2>2, <1>0 DEF LockMeal, Move, SectionOK, HasDead, HasMeal
    <3> QED OBVIOUS
  <2>3. CASE SayEnd(t)
    <3> Move(t, "out", AfterSay[pc[t]])
      BY <2>3, <1>0 DEF SayEnd, Move, SectionOK, HasDead, HasMeal
    <3> QED OBVIOUS
  <2>4. CASE CheckEnd(t)
    <3> Move(t, "out", IF seen[t] THEN AfterStop[pc[t]] ELSE AfterGo(t)[pc[t]])
      BY <2>4, <1>0 DEF CheckEnd, Move, SectionOK, HasDead, HasMeal
    <3> QED OBVIOUS
  <2> QED BY <1>1, <2>1, <2>2, <2>3, <2>4 DEF Section
<1>2. ASSUME NEW p \in Philo, MealLock(p) PROVE Moved
  <2> Move(p, "one", pc[p])
    BY <1>2, <1>0 DEF MealLock, Move, SectionOK, HasDead, HasMeal
  <2> QED OBVIOUS
<1>3. ASSUME NEW p \in Philo, MealUnlock(p) PROVE Moved
  <2> Move(p, "out", IF pc[p] = "meal" THEN "eating" ELSE TakeForks(p))
    BY <1>3, <1>0 DEF MealUnlock, Move, SectionOK, HasDead, HasMeal
  <2> QED OBVIOUS
<1>4. ASSUME NEW t \in Thread, NEW l, Goto(t, l), UNCHANGED <<sec, deadmutex, mealmutex>>,
             sec[t] = "out"
      PROVE  Moved
  <2> Move(t, "out", l)
    BY <1>4, <1>0 DEF Move, SectionOK, HasDead, HasMeal
  <2> QED OBVIOUS
\* Outside the places that have a critical section a thread is in none.
<1>5. ASSUME NEW t \in Thread,
             pc[t] \notin DOMAIN AfterSay \cup DOMAIN AfterStop \cup
                {"start", "meal", "scanDead", "rounds", "scanFull", "setDead", "setFull"}
      PROVE  sec[t] = "out"
  BY <1>5, <1>0 DEF SectionOK
<1> USE DEF AfterSay, AfterStop
<1> HIDE DEF Goto
<1>6. ASSUME NEW p \in Philo, Wake(p) PROVE Moved
  <2>1. sec[p] = "out"
    BY <1>6, <1>5 DEF Wake
  <2> QED BY <1>6, <2>1, <1>4 DEF Wake
<1>7. ASSUME NEW p \in Philo, LockFork(p) PROVE Moved
  <2>1. sec[p] = "out"
    BY <1>7, <1>5 DEF LockFork
  <2> QED BY <1>7, <2>1, <1>4 DEF LockFork
<1>8. ASSUME NEW p \in Philo, UnlockFork(p) PROVE Moved
  <2>1. sec[p] = "out"
    BY <1>8, <1>5 DEF UnlockFork
  <2> QED BY <1>8, <2>1, <1>4 DEF UnlockFork
<1>9. CASE Create
  <2>1. ASSUME idx < N PROVE Moved
    <3>1. pc[Main] = "create" /\ idx \in Philo
      BY <1>9, <2>1 DEF Create, TypeOK
    <3>2. pc[idx] = "new"
      BY <3>1 DEF CreatesOnce
    <3>3. Goto(idx, "start") /\ UNCHANGED <<sec, deadmutex, mealmutex>> /\ sec[idx] = "out"
      BY <1>9, <2>1, <3>1, <3>2, <1>5 DEF Create, MoreToCreate, Goto
    <3> QED BY <3>1, <3>3, <1>4
  <2>2. ASSUME ~(idx < N) PROVE Moved
    <3>1. Goto(Main, "grace") /\ UNCHANGED <<sec, deadmutex, mealmutex>> /\ sec[Main] = "out"
      BY <1>9, <2>2, <1>5 DEF Create, MoreToCreate, Goto
    <3> QED BY <3>1, <1>4
  <2> QED BY <2>1, <2>2
<1>10. CASE Grace \/ Destroy
  <2>1. sec[Main] = "out"
    BY <1>10, <1>5 DEF Grace, Destroy
  <2> QED BY <1>10, <2>1, <1>4 DEF Grace, Destroy
<1>11. ASSUME Join PROVE Moved
  <2>1. sec[Main] = "out"
    BY <1>11, <1>5 DEF Join
  <2>2. Goto(Main, pc[Main]) \/ Goto(Main, "destroy")
    BY <1>11, <1>0 DEF Join, NextIndex, Goto
  <2> QED BY <1>11, <2>1, <2>2, <1>4 DEF Join
<1>12. CASE ScanLock
  <2> Move(Main, "one", pc[Main])
    BY <1>12, <1>0 DEF ScanLock, Move, SectionOK, HasDead, HasMeal
  <2> QED OBVIOUS
<1>13. CASE ScanUnlock
  <2>1. Move(Main, "out", pc'[Main])
    <3>1. pc' = [pc EXCEPT ![Main] = pc'[Main]]
      BY <1>13, <1>0 DEF ScanUnlock, Restart, NextIndex, Goto
    <3> QED BY <3>1, <1>13, <1>0
        DEF ScanUnlock, ScanRelease, Move, SectionOK, HasDead, HasMeal
  <2> QED BY <2>1
<1>14. CASE SetDead
  <2>1. CASE sec[Main] = "out"
    <3> Move(Main, "one", pc[Main])
      BY <1>14, <2>1, <1>0 DEF SetDead, Move, SectionOK, HasDead, HasMeal
    <3> QED OBVIOUS
  <2>2. CASE sec[Main] = "one"
    <3> Move(Main, "out", "join")
      BY <1>14, <2>2, <1>0 DEF SetDead, AfterDeath, Restart, Goto, Move, SectionOK, HasDead, HasMeal
    <3> QED OBVIOUS
  <2> QED BY <1>14, <2>1, <2>2 DEF SetDead
<1>15. CASE SetFull
  <2>1. CASE sec[Main] = "out"
    <3> Move(Main, "one", pc[Main])
      BY <1>15, <2>1, <1>0 DEF SetFull, FullLock, Move, SectionOK, HasDead, HasMeal
    <3> QED OBVIOUS
  <2>2. CASE sec[Main] = "one"
    <3> Move(Main, "out", "join")
      BY <1>15, <2>2, <1>0 DEF SetFull, Restart, Goto, Move, SectionOK, HasDead, HasMeal
    <3> QED OBVIOUS
  <2> QED BY <1>15, <2>1, <2>2 DEF SetFull
<1>16. ASSUME NEW p \in Philo, Expire(p) PROVE UNCHANGED <<sec, pc, deadmutex, mealmutex>>
  BY <1>16 DEF Expire
<1>17. CASE Exited
  BY <1>17 DEF Exited, vars
<1> QED
  <2> \A p \in Philo : p \in Thread
    OBVIOUS
  <2> HIDE DEF Moved, Enter, MutexStep, AfterSay, AfterStop
  <2>1. CASE MainStep
    BY <2>1, <1>1, <1>9, <1>10, <1>11, <1>12, <1>13, <1>14, <1>15 DEF MainStep, Moved
  <2>2. ASSUME NEW p \in Philo, PhiloStep(p) PROVE Moved
    BY <2>2, <1>1, <1>2, <1>3, <1>6, <1>7, <1>8 DEF PhiloStep
  <2> QED BY <2>1, <2>2, <1>16, <1>17 DEF Next, Moved

LEMMA TableStep == IInv /\ [Next]_vars => SectionsOK' /\ TableOwnership'
<1> SUFFICES ASSUME IInv, [Next]_vars PROVE SectionsOK' /\ TableOwnership'
  OBVIOUS
<1> TypeOK /\ SectionsOK /\ TableOwnership
  BY DEF IInv
<1>1. ASSUME NEW t \in Thread, NEW s, NEW l, Move(t, s, l) PROVE SectionsOK' /\ TableOwnership'
  BY <1>1, MoveKeepsSections
<1>2. ASSUME UNCHANGED <<sec, pc, deadmutex, mealmutex>> PROVE SectionsOK' /\ TableOwnership'
  BY <1>2 DEF SectionsOK, SectionOK, TableOwnership, HasDead, HasMeal, AfterSay, AfterStop
<1>3. CASE Next
  BY <1>1, <1>2, <1>3, StepIsMove
<1>4. CASE UNCHANGED vars
  BY <1>2, <1>4 DEF vars
<1> QED BY <1>3, <1>4

LEMMA CreatesStep == IInv /\ [Next]_vars => CreatesOnce'
<1> SUFFICES ASSUME IInv, [Next]_vars, pc'[Main] = "create", NEW p \in Philo, p >= idx'
             PROVE  pc'[p] = "new"
  BY DEF CreatesOnce
<1> TypeOK /\ CreatesOnce /\ pc \in [Thread -> PhiloLoc \cup MainLoc] /\ SectionsOK
  BY DEF IInv, TypeOK, PlacesOK
<1>1. pc[Main] = "create" /\ p >= idx => pc[p] = "new"
  BY DEF CreatesOnce
<1>2. ASSUME UNCHANGED <<pc, idx>> PROVE pc'[p] = "new"
  BY <1>1, <1>2
<1>3. ASSUME NEW q \in Philo, NEW l, Goto(q, l), UNCHANGED idx, pc[q] # "new"
      PROVE  pc'[p] = "new"
  BY <1>1, <1>3 DEF Goto
<1>4. ASSUME NEW l \in MainLoc \ {"create"}, Goto(Main, l) PROVE FALSE
  BY <1>4 DEF Goto
<1>5. ASSUME NEW t \in Thread, Section(t) PROVE pc'[p] = "new"
  <2>1. CASE LockDead(t) \/ LockMeal(t)
    BY <2>1, <1>2 DEF LockDead, LockMeal, watch
  <2>2. CASE SayEnd(t)
    <3>1. CASE t = Main
      <4>1. pc[Main] = "sayDied"
        BY <2>2, <3>1 DEF SayEnd, AtSay, AfterSay, TypeOK, PlacesOK, Place, MainLoc
      <4>2. Goto(Main, "setDead")
        BY <2>2, <3>1, <4>1 DEF SayEnd, AfterSay
      <4> QED BY <4>2, <1>4 DEF MainLoc
    <3>2. CASE t # Main
      <4>1. pc[t] # "new"
        BY <2>2 DEF SayEnd, AtSay, AfterSay
      <4> QED BY <2>2, <3>2, <4>1, <1>3 DEF SayEnd
    <3> QED BY <3>1, <3>2
  <2>3. CASE CheckEnd(t)
    <3>1. t \in Philo
      BY <2>3, CheckIsPhilo DEF CheckEnd, TypeOK
    <3>2. pc[t] # "new"
      BY <2>3 DEF CheckEnd, AtCheck, AfterStop
    <3> QED BY <2>3, <3>1, <3>2, <1>3 DEF CheckEnd, watch
  <2> QED BY <1>5, <2>1, <2>2, <2>3 DEF Section
<1>6. ASSUME NEW q \in Philo, PhiloStep(q) \/ Expire(q) PROVE pc'[p] = "new"
  <2>1. CASE MealLock(q) \/ Expire(q)
    BY <2>1, <1>2 DEF MealLock, Expire, watch
  <2>2. CASE MealUnlock(q)
    BY <2>2, <1>3 DEF MealUnlock, watch
  <2>3. CASE Wake(q)
    BY <2>3, <1>3 DEF Wake, watch
  <2>4. CASE LockFork(q)
    BY <2>4, <1>3 DEF LockFork, watch
  <2>5. CASE UnlockFork(q)
    BY <2>5, <1>3 DEF UnlockFork, watch
  <2> QED BY <1>5, <1>6, <2>1, <2>2, <2>3, <2>4, <2>5 DEF PhiloStep
<1>7. CASE Create
  BY <1>1, <1>7 DEF Create, MoreToCreate, TypeOK
<1>8. CASE Grace \/ Destroy
  BY <1>8, <1>4 DEF Grace, Destroy, MainLoc
<1>9. CASE ScanLock
  BY <1>9 DEF ScanLock
<1>10. CASE ScanUnlock
  BY <1>10, <1>4 DEF ScanUnlock, Restart, NextIndex, MainLoc
<1>11. CASE SetDead \/ SetFull
  BY <1>11, <1>4 DEF SetDead, SetFull, AfterDeath, Restart, MainLoc
<1>12. CASE Join
  BY <1>12, <1>4 DEF Join, NextIndex, MainLoc
<1>13. CASE Exited \/ UNCHANGED vars
  BY <1>13, <1>2 DEF Exited, vars, watch
<1>14. Main \in Thread
  OBVIOUS
<1> QED BY <1>5, <1>6, <1>7, <1>8, <1>9, <1>10, <1>11, <1>12, <1>13, <1>14 DEF Next, MainStep

LEMMA VerdictStep == IInv /\ [Next]_vars => VerdictIsCurrent'
<1> SUFFICES ASSUME IInv, [Next]_vars, NEW u \in Thread, sec'[u] = "both"
             PROVE  seen'[u] <=> (dead' \/ full')
  BY DEF VerdictIsCurrent
<1> DEFINE Goal == seen'[u] <=> (dead' \/ full')
<1> TypeOK
  BY DEF IInv
<1>1. sec[u] = "both" => /\ seen[u] <=> (dead \/ full)
                         /\ deadmutex = u /\ mealmutex = u
  BY DEF IInv, VerdictIsCurrent, TableOwnership, HasDead, HasMeal
<1>2. ASSUME UNCHANGED <<dead, full>>, seen'[u] = seen[u], sec[u] = "both" PROVE Goal
  BY <1>1, <1>2
\* A step of t that leaves its section, or is in another one.
<1>3. ASSUME NEW t \in Thread, NEW s \in {"out", "one", "dead"}, sec' = [sec EXCEPT ![t] = s]
      PROVE  u # t /\ sec[u] = "both"
  BY <1>3 DEF TypeOK
<1>4. ASSUME NEW t \in Thread, Section(t) PROVE Goal
  <2>1. CASE LockDead(t)
    BY <2>1, <1>2, <1>3 DEF LockDead, Enter, flags
  <2>2. CASE LockMeal(t)
    <3>1. CASE u = t
      BY <2>2, <3>1 DEF LockMeal, Flags, flags, TypeOK
    <3>2. CASE u # t
      <4>1. sec[u] = "both" /\ seen'[u] = seen[u]
        BY <2>2, <3>2 DEF LockMeal, Enter, TypeOK
      <4> QED BY <2>2, <4>1, <1>2 DEF LockMeal, flags
    <3> QED BY <3>1, <3>2
  <2>3. CASE SayEnd(t)
    BY <2>3, <1>2, <1>3 DEF SayEnd, Enter, flags
  <2>4. CASE CheckEnd(t)
    BY <2>4, <1>2, <1>3 DEF CheckEnd, Enter, flags
  <2> QED BY <1>4, <2>1, <2>2, <2>3, <2>4 DEF Section
<1>5. ASSUME NEW p \in Philo, PhiloStep(p) \/ Expire(p) PROVE Goal
  <2>1. CASE MealLock(p) \/ MealUnlock(p)
    BY <2>1, <1>2, <1>3 DEF MealLock, MealUnlock, Enter, flags
  <2>2. CASE Wake(p) \/ LockFork(p) \/ UnlockFork(p) \/ Expire(p)
    BY <2>2, <1>2 DEF Wake, LockFork, UnlockFork, Expire, flags
  <2> QED BY <1>4, <1>5, <2>1, <2>2 DEF PhiloStep
<1>6. CASE Create \/ Grace \/ Join \/ Destroy \/ Exited \/ UNCHANGED vars
  BY <1>6, <1>2 DEF Create, Grace, Join, Destroy, Exited, vars, flags
<1>7. CASE ScanLock
  <2>1. u # Main /\ sec[u] = "both"
    BY <1>7, <1>3 DEF ScanLock, Enter
  <2> QED BY <1>7, <2>1, <1>2 DEF ScanLock, flags, TypeOK
<1>8. CASE ScanUnlock
  BY <1>8, <1>2, <1>3 DEF ScanUnlock, Enter, flags
\* A flag is set with its mutex held, so nobody is between the two locks and unlocks.
<1>9. CASE SetDead
  BY <1>9, <1>1, <1>2, <1>3 DEF SetDead, Enter
<1>10. CASE SetFull
  BY <1>10, <1>1, <1>2, <1>3 DEF SetFull, FullLock, Enter
<1>11. Main \in Thread
  OBVIOUS
<1> QED BY <1>4, <1>5, <1>6, <1>7, <1>8, <1>9, <1>10, <1>11 DEF Next, MainStep

LEMMA LeavesStep == IInv /\ [Next]_vars => LeavesOnlyAfterStop'
<1> SUFFICES ASSUME IInv, [Next]_vars, NEW q \in Philo, pc'[q] \in {"back", "done"}
             PROVE  dead' \/ full'
  BY DEF LeavesOnlyAfterStop
<1> TypeOK /\ pc \in [Thread -> PhiloLoc \cup MainLoc]
  BY DEF IInv, TypeOK, PlacesOK
<1>1. pc[q] \in {"back", "done"} => dead \/ full
  BY DEF IInv, LeavesOnlyAfterStop
<1>2. dead \/ full => dead' \/ full'
  <2>1. CASE SetDead
    BY <2>1 DEF SetDead
  <2>2. CASE SetFull
    BY <2>2 DEF SetFull
  <2>3. CASE UNCHANGED flags
    BY <2>3 DEF flags
  <2>4. ASSUME NEW t \in Thread, Section(t) PROVE UNCHANGED flags
    BY <2>4 DEF Section, LockDead, LockMeal, SayEnd, CheckEnd
  <2>5. ASSUME NEW p \in Philo, PhiloStep(p) \/ Expire(p) PROVE UNCHANGED flags
    BY <2>4, <2>5
    DEF PhiloStep, MealLock, MealUnlock, Wake, LockFork, UnlockFork, Expire
  <2>6. MainStep \/ Exited \/ UNCHANGED vars => UNCHANGED flags \/ SetDead \/ SetFull
    BY <2>4 DEF MainStep, Create, Grace, ScanLock, ScanUnlock, Join, Destroy, Exited, vars
  <2> QED BY <2>1, <2>2, <2>3, <2>5, <2>6 DEF Next
<1>3. ASSUME NEW t \in Thread, NEW l, Goto(t, l), l \notin {"back", "done"} PROVE dead' \/ full'
  BY <1>1, <1>2, <1>3 DEF Goto
<1>4. ASSUME UNCHANGED pc PROVE dead' \/ full'
  BY <1>1, <1>2, <1>4
<1>5. ASSUME NEW t \in Thread, Section(t) PROVE dead' \/ full'
  <2>1. CASE LockDead(t) \/ LockMeal(t)
    BY <2>1, <1>4 DEF LockDead, LockMeal
  <2>2. CASE SayEnd(t)
    <3>1. AfterSay[pc[t]] \notin {"back", "done"}
      BY <2>2 DEF SayEnd, AtSay, AfterSay
    <3> QED BY <2>2, <3>1, <1>3 DEF SayEnd
  <2>3. CASE CheckEnd(t)
    <3>1. CASE seen[t]
      BY <2>3, <3>1, <1>2 DEF CheckEnd, IInv, VerdictIsCurrent
    <3>2. CASE ~seen[t]
      <4>1. AfterGo(t)[pc[t]] \notin {"back", "done"}
        BY <2>3 DEF CheckEnd, AtCheck, AfterStop, AfterGo, TakeForks
      <4> QED BY <2>3, <3>2, <4>1, <1>3 DEF CheckEnd
    <3> QED BY <3>1, <3>2
  <2> QED BY <1>5, <2>1, <2>2, <2>3 DEF Section
<1>6. ASSUME NEW p \in Philo, PhiloStep(p) \/ Expire(p) PROVE dead' \/ full'
  <2>1. CASE MealLock(p) \/ Expire(p)
    BY <2>1, <1>4 DEF MealLock, Expire
  <2>2. CASE MealUnlock(p)
    BY <2>2, <1>3 DEF MealUnlock, TakeForks
  <2>3. CASE Wake(p) \/ LockFork(p)
    BY <2>3, <1>3 DEF Wake, LockFork
  <2>4. CASE UnlockFork(p)
    <3>1. CASE pc[p] = "back"
      BY <3>1, <1>2 DEF IInv, LeavesOnlyAfterStop
    <3>2. CASE pc[p] # "back"
      BY <2>4, <3>2, <1>3 DEF UnlockFork
    <3> QED BY <3>1, <3>2
  <2> QED BY <1>5, <1>6, <2>1, <2>2, <2>3, <2>4 DEF PhiloStep
<1>7. Main \in Thread
  OBVIOUS
<1>8. CASE MainStep
  <2>1. CASE Create
    <3>1. (idx \in Thread /\ Goto(idx, "start")) \/ Goto(Main, "grace")
      BY <2>1 DEF Create, MoreToCreate, TypeOK, Goto
    <3> QED BY <3>1, <1>3, <1>7
  <2>2. CASE Grace \/ Destroy
    BY <2>2, <1>3, <1>7 DEF Grace, Destroy
  <2>3. CASE ScanLock
    BY <2>3, <1>4 DEF ScanLock
  <2>4. CASE ScanUnlock \/ Join
    BY <2>4, <1>3, <1>4, <1>7 DEF ScanUnlock, Join, NextIndex, Restart
  <2>5. CASE SetDead \/ SetFull
    BY <2>5, <1>3, <1>4, <1>7 DEF SetDead, SetFull, Restart, AfterDeath
  <2> QED BY <1>5, <1>7, <1>8, <2>1, <2>2, <2>3, <2>4, <2>5 DEF MainStep
<1>9. CASE Exited \/ UNCHANGED vars
  BY <1>9, <1>4 DEF Exited, vars
<1> QED BY <1>6, <1>8, <1>9 DEF Next

LEMMA IndexStep == IInv /\ [Next]_vars => IndexOK'
<1> SUFFICES ASSUME IInv, [Next]_vars PROVE IndexOK'
  OBVIOUS
<1> TypeOK /\ IndexOK /\ pc \in [Thread -> PhiloLoc \cup MainLoc]
  BY DEF IInv, TypeOK, PlacesOK
<1>1. ASSUME UNCHANGED <<pc, idx>> PROVE IndexOK'
  BY <1>1 DEF IndexOK
<1>2. ASSUME NEW t \in Thread, NEW l, Goto(t, l), UNCHANGED idx,
             t = Main => pc[Main] \notin {"create", "grace"}
      PROVE  IndexOK'
  BY <1>2 DEF Goto, IndexOK
<1>3. ASSUME NEW l, Restart(l) PROVE IndexOK'
  BY <1>3 DEF Restart, IndexOK
<1>4. ASSUME NEW l, NextIndex(l), idx \in Philo PROVE IndexOK'
  BY <1>4 DEF NextIndex, IndexOK
<1>5. ASSUME NEW t \in Thread, Section(t) PROVE IndexOK'
  <2>1. CASE LockDead(t) \/ LockMeal(t)
    BY <2>1, <1>1 DEF LockDead, LockMeal, watch
  <2>2. CASE SayEnd(t)
    BY <2>2, <1>2 DEF SayEnd, AtSay, AfterSay
  <2>3. CASE CheckEnd(t)
    BY <2>3, <1>2 DEF CheckEnd, AtCheck, AfterStop, watch
  <2> QED BY <1>5, <2>1, <2>2, <2>3 DEF Section
<1>6. ASSUME NEW p \in Philo, PhiloStep(p) \/ Expire(p) PROVE IndexOK'
  <2>1. CASE MealLock(p) \/ Expire(p)
    BY <2>1, <1>1 DEF MealLock, Expire, watch
  <2>2. CASE MealUnlock(p)
    BY <2>2, <1>2 DEF MealUnlock, watch
  <2>3. CASE Wake(p) \/ LockFork(p) \/ UnlockFork(p)
    BY <2>3, <1>2 DEF Wake, LockFork, UnlockFork, watch
  <2> QED BY <1>5, <1>6, <2>1, <2>2, <2>3 DEF PhiloStep
<1>7. CASE Create
  BY <1>7 DEF Create, MoreToCreate, IndexOK, TypeOK
<1>8. CASE Grace
  BY <1>8 DEF Grace, IndexOK
<1>9. CASE ScanLock
  BY <1>9, <1>1 DEF ScanLock, watch
<1>10. CASE ScanUnlock
  <2>1. idx \in Philo
    BY <1>10 DEF ScanUnlock, IndexOK
  <2> QED BY <1>10, <2>1, <1>3, <1>4 DEF ScanUnlock, IndexOK
<1>11. CASE SetDead \/ SetFull
  BY <1>11, <1>1, <1>3 DEF SetDead, SetFull, watch
<1>12. CASE Join
  BY <1>12, <1>4 DEF Join, IndexOK
<1>13. CASE Destroy
  BY <1>13, <1>2 DEF Destroy, watch
<1>14. CASE Exited \/ UNCHANGED vars
  BY <1>14, <1>1 DEF Exited, vars, watch
<1>15. Main \in Thread
  OBVIOUS
<1> QED BY <1>5, <1>6, <1>7, <1>8, <1>9, <1>10, <1>11, <1>12, <1>13, <1>14, <1>15
        DEF Next, MainStep

-----------------------------------------------------------------------------
(* The inductive invariant and what follows from it.                          *)

LEMMA InvInit == Init => IInv
<1> SUFFICES ASSUME Init PROVE IInv
  OBVIOUS
<1>1. TypeOK
  BY TypeInit
<1>2. \A t \in Thread : sec[t] = "out"
  BY DEF Init
<1>3. SectionsOK /\ TableOwnership /\ VerdictIsCurrent
  BY <1>2 DEF Init, SectionsOK, SectionOK, TableOwnership, HasDead, HasMeal, VerdictIsCurrent
<1>4. \A p \in Philo : pc[p] = "new"
  BY DEF Init
<1>5. CreatesOnce /\ LeavesOnlyAfterStop /\ IndexOK
  <2>1. pc[Main] = "create"
    BY DEF Init
  <2> QED BY <1>4, <2>1 DEF CreatesOnce, LeavesOnlyAfterStop, IndexOK
<1>6. ForkOwnership
  <2> SUFFICES ASSUME NEW f \in Fork, NEW p \in Philo PROVE fork[f] = p <=> f \in Hand(p, pc[p])
    BY DEF ForkOwnership
  <2>1. fork[f] = Free
    BY DEF Init
  <2>2. Hand(p, pc[p]) = {}
    BY <1>4 DEF Hand
  <2> QED BY <2>1, <2>2
<1> QED BY <1>1, <1>3, <1>5, <1>6 DEF IInv

LEMMA InvStep == IInv /\ [Next]_vars => IInv'
  BY TypeStep, ForkStep, TableStep, CreatesStep, IndexStep, VerdictStep, LeavesStep DEF IInv

\* The strengthening holds in every reachable state.
THEOREM Invariance == Spec => []IInv
  BY InvInit, InvStep, PTL DEF Spec

\* No thread unlocks a mutex of another one, and none ends with a mutex.
THEOREM Ownership == Spec => []MutexesAreOwned
<1>1. IInv => MutexesAreOwned
  BY DEF IInv, MutexesAreOwned
<1> QED BY <1>1, Invariance, PTL

\* dead and full are read, and acted on, as they are.
THEOREM VerdictCurrent == Spec => []FlagsAreHeeded
<1>1. IInv => FlagsAreHeeded
  BY DEF IInv, FlagsAreHeeded
<1> QED BY <1>1, Invariance, PTL

\* A fork is in the hand of one philosopher.
LEMMA OneHand ==
  ASSUME IInv, NEW p \in Philo, NEW q \in Philo, NEW f \in Fork,
         f \in Hand(p, pc[p]), f \in Hand(q, pc[q])
  PROVE  p = q
  BY DEF IInv, ForkOwnership

\* Philosophers that share a fork do not eat together.
THEOREM TakeTurns == Spec => []NeighboursTakeTurns
<1>1. IInv => NeighboursTakeTurns
  <2> SUFFICES ASSUME IInv, NEW p \in Philo, NEW q \in Philo, p # q,
                      NEW f \in {LFork(p), RFork(p)} \cap {LFork(q), RFork(q)},
                      Eating(p), Eating(q)
               PROVE  FALSE
    BY DEF NeighboursTakeTurns
  <2>1. f \in Fork
    BY ForkTypes
  <2>2. f \in Hand(p, pc[p]) /\ f \in Hand(q, pc[q])
    BY DEF Eating, Hand
  <2> QED BY <2>1, <2>2, OneHand
<1> QED BY <1>1, Invariance, PTL

-----------------------------------------------------------------------------
(* No circular wait: what a thread waits for ranks above all that it holds.   *)

\* First forks have even indices.  In a ring of odd size fork N-1 is the first
\* fork of philosopher N-1 and the second of philosopher 0, and ranks between.
ForkRank(f) == IF f % 2 = 1 THEN 2 ELSE IF f = N-1 THEN 1 ELSE 0

LEMMA RanksRise == \A p \in Philo : ForkRank(First(p)) < ForkRank(Second(p))
  BY DEF ForkRank, First, Second, LeftFirst, OddId, LFork, RFork

\* The rank of what a thread waits for: a fork, deadmutex, mealmutex; the join of
\* clean_exit() ranks last, main() holds nothing there.
Rank(t) ==
  IF pc[t] = "join" THEN -1
  ELSE IF pc[t] = "lock1" THEN ForkRank(First(t))
  ELSE IF pc[t] = "lock2" THEN ForkRank(Second(t))
  ELSE IF sec[t] = "dead" THEN 4
  ELSE IF pc[t] \in DOMAIN AfterSay \cup DOMAIN AfterStop \cup {"setDead"} THEN 3
  ELSE 4

LEMMA RankType == \A t \in Thread : Rank(t) \in -1 .. 4
  BY DEF Rank, ForkRank

LEMMA WaitersRise ==
  ASSUME IInv, NEW s \in Thread, NEW t \in Thread, NEW u \in Thread,
         WaitsFor(s, t), WaitsFor(t, u)
  PROVE  Rank(s) < Rank(t)
<1> TypeOK /\ PlacesOK /\ SectionsOK /\ TableOwnership /\ ForkOwnership
  BY DEF IInv, TypeOK
<1>1. pc[s] \in Place(s) /\ pc[t] \in Place(t)
  BY DEF PlacesOK
<1>2. /\ SectionOK(sec[s], pc[s]) /\ SectionOK(sec[t], pc[t])
      /\ deadmutex = t <=> HasDead(sec[t], pc[t])
      /\ mealmutex = t <=> HasMeal(sec[t], pc[t])
  BY DEF SectionsOK, TableOwnership
\* Whoever has mealmutex is past its waiting.
<1>3. sec[t] \in {"dead", "out"}
  <2>1. sec[t] = "both" => pc[t] \notin {"lock1", "lock2", "join"}
    BY <1>2 DEF SectionOK, AfterSay, AfterStop
  <2>2. sec[t] = "one" => pc[t] \notin {"lock1", "lock2", "join"}
    BY <1>2 DEF SectionOK
  <2> QED BY <2>1, <2>2 DEF WaitsFor, TypeOK
<1>4. ASSUME NEW f \in Fork, s \in Philo, fork[f] = t, Rank(s) = ForkRank(f)
      PROVE  Rank(s) < Rank(t)
  <2>1. t \in Philo
    <3>1. fork \in [Fork -> Philo \cup {Free}]
      BY DEF TypeOK
    <3>2. t \in Philo \cup {Free}
      BY <1>4, <3>1
    <3>3. t # Free
      BY DEF Thread, Free, Main, Philo
    <3> QED BY <3>2, <3>3
  <2>2. f \in Hand(t, pc[t])
    BY <1>4, <2>1 DEF ForkOwnership
  <2>3. pc[t] \notin {"lock1", "join"}
    BY <2>1, <2>2, <1>1 DEF Hand, Place, PhiloLoc
  <2>4. CASE pc[t] = "lock2"
    <3>1. f = First(t)
      BY <2>2, <2>4 DEF Hand
    <3>2. Rank(t) = ForkRank(Second(t))
      BY <2>4 DEF Rank
    <3> QED BY <2>1, <3>1, <3>2, <1>4, RanksRise
  <2>5. CASE pc[t] # "lock2"
    <3>1. Rank(t) \in {3, 4}
      BY <2>3, <2>5 DEF Rank
    <3> QED BY <3>1, <1>4 DEF ForkRank
  <2> QED BY <2>4, <2>5
<1>5. CASE pc[s] \in {"lock1", "lock2"} /\ fork[IF pc[s] = "lock1" THEN First(s) ELSE Second(s)] = t
  <2>1. s \in Philo
    BY <1>1, <1>5 DEF Place, MainLoc
  <2>2. First(s) \in Fork /\ Second(s) \in Fork
    BY <2>1, ForkTypes
  <2>3. Rank(s) = ForkRank(IF pc[s] = "lock1" THEN First(s) ELSE Second(s))
    BY <1>5 DEF Rank
  <2> QED BY <1>4, <1>5, <2>1, <2>2, <2>3
<1>6. CASE sec[s] = "out" /\ (AtSay(s) \/ AtCheck(s) \/ pc[s] = "setDead") /\ deadmutex = t
  <2>1. Rank(s) = 3
    BY <1>6 DEF Rank, AtSay, AtCheck, AfterSay, AfterStop
  <2>2. sec[t] = "dead"
    BY <1>2, <1>3, <1>6 DEF HasDead
  <2>3. pc[t] \notin {"lock1", "lock2", "join"}
    BY <1>2, <2>2 DEF SectionOK, AfterSay, AfterStop
  <2>4. Rank(t) = 4
    BY <2>2, <2>3 DEF Rank
  <2> QED BY <2>1, <2>4
<1>7. CASE mealmutex = t
  BY <1>2, <1>3, <1>7 DEF HasMeal
<1>8. CASE pc[s] = "join" /\ t = idx
  <2>1. s = Main
    BY <1>1, <1>8 DEF Place, PhiloLoc
  <2>2. t \in Philo
    BY <1>8, <2>1 DEF IInv, IndexOK
  <2>3. pc[t] # "join"
    BY <2>2, <1>1 DEF Place, PhiloLoc
  <2> QED BY <1>8, <2>3 DEF Rank, ForkRank
<1> QED BY <1>5, <1>6, <1>7, <1>8 DEF WaitsFor

\* No set of threads waits for itself, in rings of every size.
THEOREM NoDeadlock == Spec => []NoCircularWait
<1>1. IInv => NoCircularWait
  <2> SUFFICES ASSUME IInv, NEW S \in (SUBSET Thread) \ {{}},
                      \A s \in S : \E t \in S : WaitsFor(s, t)
               PROVE  FALSE
    BY DEF NoCircularWait
  <2>1. \A s \in S : Rank(s) \in -1 .. 4 /\ \E t \in S : Rank(t) > Rank(s)
    BY RankType, WaitersRise
  <2> DEFINE Above(k) == \E s \in S : Rank(s) >= k
  <2>2. Above(-1)
    BY <2>1
  <2>3. ASSUME NEW k \in -1 .. 4, Above(k) PROVE Above(k + 1)
    <3>1. PICK s \in S : Rank(s) >= k
      BY <2>3
    <3>2. PICK t \in S : Rank(t) > Rank(s)
      BY <2>1
    <3>3. Rank(s) \in Int /\ Rank(t) \in Int
      BY <2>1
    <3> QED BY <3>1, <3>2, <3>3
  <2>4. Above(5)
    <3> HIDE DEF Above
    <3>1. -1 + 1 = 0 /\ 0 + 1 = 1 /\ 1 + 1 = 2 /\ 2 + 1 = 3 /\ 3 + 1 = 4 /\ 4 + 1 = 5
      OBVIOUS
    <3>2. Above(0)
      BY <2>2, <2>3, <3>1
    <3>3. Above(1)
      BY <2>3, <3>1, <3>2
    <3>4. Above(2)
      BY <2>3, <3>1, <3>3
    <3>5. Above(3)
      BY <2>3, <3>1, <3>4
    <3>6. Above(4)
      BY <2>3, <3>1, <3>5
    <3> QED BY <2>3, <3>1, <3>6
  <2>5. PICK s \in S : Rank(s) >= 5
    BY <2>4
  <2>6. Rank(s) \in -1 .. 4
    BY <2>1, <2>5
  <2> QED BY <2>5, <2>6
<1> QED BY <1>1, Invariance, PTL

-----------------------------------------------------------------------------
(* The threads implement Dining.                                              *)

LEMMA NeighboursShare ==
  ASSUME NEW p \in Philo, NEW q \in Philo, Table!Neighbours(p, q)
  PROVE  p # q /\ \E f \in {First(p), Second(p)} : f \in {LFork(q), RFork(q)}
<1>1. p # q /\ \E f \in {LFork(p), RFork(p)} : f \in {LFork(q), RFork(q)}
  BY DEF Table!Neighbours, LFork, RFork
<1> QED BY <1>1, ForkTypes

LEMMA ActivityMove ==
  ASSUME IInv, NEW t \in Thread, NEW l, Goto(t, l)
  PROVE  /\ t \in Philo => Activity' = [Activity EXCEPT ![t] = ActivityAt(l)]
         /\ t = Main => Activity' = Activity
<1>1. \A p \in Philo : pc'[p] = IF p = t THEN l ELSE pc[p]
  BY DEF IInv, TypeOK, PlacesOK, Goto
<1>2. Activity' = [p \in Philo |-> IF p = t THEN ActivityAt(l) ELSE ActivityAt(pc[p])]
  BY <1>1 DEF Activity, ActivityAt
<1>3. [Activity EXCEPT ![t] = ActivityAt(l)]
        = [p \in Philo |-> IF p = t THEN ActivityAt(l) ELSE ActivityAt(pc[p])]
  BY DEF Activity
<1> QED BY <1>2, <1>3 DEF Activity

LEMMA ActivityStep == IInv /\ [Next]_vars => [Table!Next]_<<Activity, dead \/ full>>
<1> SUFFICES ASSUME IInv, [Next]_vars
             PROVE  Table!Next \/ UNCHANGED <<Activity, dead \/ full>>
  OBVIOUS
<1> DEFINE Goal == Table!Next \/ UNCHANGED <<Activity, dead \/ full>>
<1> TypeOK /\ PlacesOK
  BY DEF IInv, TypeOK
<1>1. Table!Philo = Philo
  BY DEF Table!Philo
<1>2. ASSUME UNCHANGED <<pc, dead, full>> PROVE Goal
  BY <1>2 DEF Activity
<1>3. ASSUME NEW t \in Thread, NEW l, Goto(t, l), UNCHANGED <<dead, full>>,
             t = Main \/ ActivityAt(l) = ActivityAt(pc[t])
      PROVE  Goal
  <2>1. t \in Philo => Activity[t] = ActivityAt(pc[t])
    BY DEF Activity
  <2>2. Activity = [p \in Philo |-> Activity[p]]
    BY DEF Activity
  <2> QED BY <1>3, <2>1, <2>2, ActivityMove
\* A philosopher whose activity changes.
<1>4. ASSUME NEW p \in Philo, NEW l, Goto(p, l), UNCHANGED <<dead, full>>
      PROVE  /\ Activity[p] = ActivityAt(pc[p])
             /\ Activity' = [Activity EXCEPT ![p] = ActivityAt(l)]
             /\ (dead \/ full)' = (dead \/ full)
  BY <1>4, ActivityMove DEF Activity
<1>5. ASSUME NEW t \in Thread, Section(t) PROVE Goal
  <2>1. CASE LockDead(t) \/ LockMeal(t)
    BY <2>1, <1>2 DEF LockDead, LockMeal, flags
  <2>2. CASE SayEnd(t)
    <3>1. ActivityAt(AfterSay[pc[t]]) = ActivityAt(pc[t])
      BY <2>2 DEF SayEnd, AtSay, AfterSay, ActivityAt
    <3> QED BY <2>2, <3>1, <1>3 DEF SayEnd, flags
  <2>3. CASE CheckEnd(t)
    <3>1. t \in Philo /\ UNCHANGED <<dead, full>> /\ (seen[t] <=> dead \/ full)
      BY <2>3, CheckIsPhilo DEF CheckEnd, flags, IInv, VerdictIsCurrent
    <3>2. CASE seen[t] /\ pc[t] = "check2"
      BY <2>3, <3>1, <3>2, <1>3 DEF CheckEnd, AfterStop, ActivityAt
    <3>3. CASE seen[t] /\ pc[t] # "check2"
      <4>1. Goto(t, "done") /\ ActivityAt(pc[t]) = "think"
        BY <2>3, <3>3 DEF CheckEnd, AtCheck, AfterStop, ActivityAt
      <4>2. Table!Leave(t)
        BY <4>1, <3>1, <3>3, <1>4 DEF Table!Leave, Table!Set, ActivityAt
      <4> QED BY <4>2, <3>1, <1>1 DEF Table!Next
    <3>4. CASE ~seen[t] /\ pc[t] = "check2"
      <4>1. Goto(t, "lock2") /\ ActivityAt(pc[t]) = "think"
        BY <2>3, <3>4 DEF CheckEnd, AfterGo, ActivityAt
      <4>2. Table!Reach(t)
        BY <4>1, <3>1, <3>4, <1>4 DEF Table!Reach, Table!Set, ActivityAt
      <4> QED BY <4>2, <3>1, <1>1 DEF Table!Next
    <3>5. CASE ~seen[t] /\ pc[t] # "check2"
      <4>1. ActivityAt(AfterGo(t)[pc[t]]) = ActivityAt(pc[t])
        BY <2>3, <3>5 DEF CheckEnd, AtCheck, AfterStop, AfterGo, TakeForks, ActivityAt
      <4> QED BY <2>3, <3>1, <3>5, <4>1, <1>3 DEF CheckEnd
    <3> QED BY <3>2, <3>3, <3>4, <3>5
  <2> QED BY <1>5, <2>1, <2>2, <2>3 DEF Section
<1>6. ASSUME NEW p \in Philo, PhiloStep(p) \/ Expire(p) PROVE Goal
  <2>1. CASE MealLock(p) \/ Expire(p)
    BY <2>1, <1>2 DEF MealLock, Expire, flags
  <2>2. CASE MealUnlock(p)
    BY <2>2, <1>3 DEF MealUnlock, flags, TakeForks, ActivityAt
  <2>3. CASE Wake(p)
    BY <2>3, <1>3 DEF Wake, flags, ActivityAt
  <2>4. CASE LockFork(p) /\ pc[p] = "lock1"
    BY <2>4, <1>3 DEF LockFork, flags, ActivityAt
  <2>5. CASE LockFork(p) /\ pc[p] = "lock2"
    <3>1. Goto(p, "say2") /\ UNCHANGED <<dead, full>> /\ fork[Second(p)] = Free
      BY <2>5 DEF LockFork, flags, CanLock, Wanted
    <3>2. ASSUME NEW q \in Philo, Table!Neighbours(p, q), Activity[q] = "eat" PROVE FALSE
      <4>1. PICK f \in {First(p), Second(p)} : f \in {LFork(q), RFork(q)} /\ p # q
        BY <3>2, NeighboursShare
      <4>2. f \in Fork
        BY <4>1, ForkTypes
      <4>3. f \in Hand(q, pc[q])
        BY <3>2, <4>1 DEF Activity, ActivityAt, Hand
      <4>4. fork[f] = q
        BY <4>2, <4>3 DEF IInv, ForkOwnership
      <4>5. f # Second(p)
        BY <3>1, <4>4
      <4>6. f \in Hand(p, pc[p])
        BY <2>5, <4>1, <4>5 DEF Hand
      <4> QED BY <4>1, <4>2, <4>3, <4>6, OneHand
    <3>3. Table!Sit(p)
      BY <2>5, <3>1, <3>2, <1>1, <1>4 DEF Table!Sit, Table!Set, ActivityAt
    <3> QED BY <3>3, <1>1 DEF Table!Next
  <2>6. CASE UnlockFork(p) /\ pc[p] = "put1"
    <3>1. Goto(p, "put2") /\ UNCHANGED <<dead, full>>
      BY <2>6 DEF UnlockFork, flags
    <3>2. Table!Rise(p)
      BY <2>6, <3>1, <1>4 DEF Table!Rise, Table!Set, ActivityAt
    <3> QED BY <3>2, <1>1 DEF Table!Next
  <2>7. CASE UnlockFork(p) /\ pc[p] = "put2"
    BY <2>7, <1>3 DEF UnlockFork, flags, ActivityAt
  <2>8. CASE UnlockFork(p) /\ pc[p] = "back"
    <3>1. Goto(p, "done") /\ UNCHANGED <<dead, full>> /\ (dead \/ full)
      BY <2>8 DEF UnlockFork, flags, IInv, LeavesOnlyAfterStop
    <3>2. Table!Leave(p)
      BY <2>8, <3>1, <1>4 DEF Table!Leave, Table!Set, ActivityAt
    <3> QED BY <3>2, <1>1 DEF Table!Next
  <2> QED BY <1>5, <1>6, <2>1, <2>2, <2>3, <2>4, <2>5, <2>6, <2>7, <2>8
          DEF PhiloStep, LockFork, UnlockFork
<1>7. Main \in Thread
  OBVIOUS
<1>8. ASSUME Activity' = Activity, (dead \/ full) => (dead \/ full)' PROVE Goal
  BY <1>8 DEF Table!Next, Table!Stop, TypeOK
<1>9. CASE MainStep
  <2>1. CASE Create
    <3>1. ASSUME idx < N PROVE Goal
      <4>1. pc[Main] = "create" /\ idx \in Philo /\ Goto(idx, "start") /\ UNCHANGED <<dead, full>>
        BY <2>1, <3>1 DEF Create, MoreToCreate, TypeOK, Goto, flags
      <4>2. pc[idx] = "new"
        BY <4>1 DEF IInv, CreatesOnce
      <4> QED BY <4>1, <4>2, <1>3 DEF ActivityAt
    <3>2. ASSUME ~(idx < N) PROVE Goal
      BY <2>1, <3>2, <1>3, <1>7 DEF Create, MoreToCreate, Goto, flags
    <3> QED BY <3>1, <3>2
  <2>2. CASE Grace \/ Destroy
    BY <2>2, <1>3, <1>7 DEF Grace, Destroy, flags
  <2>3. CASE ScanLock
    BY <2>3, <1>2 DEF ScanLock, flags
  <2>4. CASE ScanUnlock \/ Join
    BY <2>4, <1>2, <1>3, <1>7 DEF ScanUnlock, Join, NextIndex, Restart, flags
  <2>5. CASE SetDead \/ SetFull
    <3>1. UNCHANGED pc \/ \E l : Goto(Main, l)
      BY <2>5 DEF SetDead, SetFull, Restart
    <3>2. Activity' = Activity
      BY <3>1, <1>7, ActivityMove DEF Activity
    <3>3. (dead \/ full) => (dead \/ full)'
      BY <2>5 DEF SetDead, SetFull
    <3> QED BY <3>2, <3>3, <1>8
  <2> QED BY <1>5, <1>7, <1>9, <2>1, <2>2, <2>3, <2>4, <2>5 DEF MainStep
<1>10. CASE Exited \/ UNCHANGED vars
  BY <1>10, <1>2 DEF Exited, vars, flags
<1> QED BY <1>6, <1>9, <1>10 DEF Next

\* Every behaviour of the threads is one of the table.
THEOREM Refinement == Spec => ImplementsDining
<1>1. Init => Table!Init
  <2> SUFFICES ASSUME Init PROVE Table!Init
    OBVIOUS
  <2>1. \A p \in Philo : ActivityAt(pc[p]) = "think"
    BY DEF Init, ActivityAt
  <2> QED BY <2>1 DEF Init, Table!Init, Table!Philo, Activity
<1> QED BY <1>1, ActivityStep, Invariance, PTL DEF Spec, ImplementsDining, Table!Spec

-----------------------------------------------------------------------------
(* How a run ends: the verdict of monitor(), and what clean_exit() finds.     *)

Enough(p) == meals[p] >= Rounds

\* Before a flag is set nothing is said of a death; then it is one flag, and its reason is there.
OneCause ==
  /\ pc[Main] \in {"create", "grace", "scanDead", "rounds", "scanFull", "sayDied"} =>
       ~dead /\ ~full /\ report = {}
  /\ pc[Main] = "setDead" => ~full /\ report = {idx} /\ (dead <=> sec[Main] = "one")
  /\ pc[Main] = "setFull" =>
       /\ ~dead /\ report = {} /\ (full <=> sec[Main] = "one")
       /\ \A p \in Philo : Enough(p)

\* check_is_full() has come to idx: what it has seen of the others is still so.
ScanHolds ==
  pc[Main] = "scanFull" =>
    /\ \A p \in Philo : p < idx => Enough(p)
    /\ sec[Main] = "one" /\ ~seen[Main] => Enough(idx)

\* The joins have come to idx.
Joined ==
  /\ pc[Main] = "join" => \A p \in Philo : p < idx => pc[p] = "done"
  /\ pc[Main] \in {"destroy", "exit"} => \A p \in Philo : pc[p] = "done"

EndInv == OneVerdict /\ OneCause /\ ScanHolds /\ Joined

LEMMA EndInit == Init => EndInv
<1> SUFFICES ASSUME Init PROVE EndInv
  OBVIOUS
<1>1. pc[Main] = "create" /\ ~dead /\ ~full /\ report = {}
  BY DEF Init
<1> QED BY <1>1 DEF EndInv, OneVerdict, OneCause, ScanHolds, Joined

\* What the philosophers leave alone: the main thread, the flags, the line that was
\* printed, a meal that was counted and a philosopher that has returned.
Onlooking ==
  /\ UNCHANGED <<dead, full, idx, report, pc[Main], sec[Main], seen[Main]>>
  /\ \A p \in Philo : /\ meals'[p] >= meals[p]
                      /\ pc[p] = "done" => pc'[p] = "done"

LEMMA OnlookingKeeps == TypeOK /\ TypeOK' /\ IndexOK /\ EndInv /\ Onlooking => EndInv'
<1> SUFFICES ASSUME TypeOK, TypeOK', IndexOK, EndInv, Onlooking PROVE EndInv'
  OBVIOUS
<1> USE DEF Onlooking
<1>1. ASSUME NEW p \in Philo, Enough(p) PROVE Enough(p)'
  <2>1. meals[p] \in Int /\ meals'[p] \in Int
    BY MealCapNat DEF TypeOK
  <2>2. meals'[p] >= meals[p]
    OBVIOUS
  <2> QED BY <1>1, <2>1, <2>2, MealCapNat DEF Enough
<1>2. OneVerdict'
  BY <1>1 DEF EndInv, OneVerdict, Enough
<1>3. OneCause'
  BY <1>1 DEF EndInv, OneCause
<1>4. ScanHolds'
  <2>1. pc[Main] = "scanFull" => idx \in Philo
    BY DEF IndexOK
  <2>2. Enough(idx)' <=> meals'[idx] >= Rounds
    BY DEF Enough
  <2>3. idx \in Philo /\ Enough(idx) => Enough(idx)'
    BY <1>1, <2>2 DEF Enough
  <2> QED BY <1>1, <2>1, <2>3 DEF EndInv, ScanHolds
<1>5. Joined'
  BY DEF EndInv, Joined
<1> QED BY <1>2, <1>3, <1>4, <1>5 DEF EndInv

LEMMA PhilosophersLookOn ==
  ASSUME IInv, NEW p \in Philo, PhiloStep(p) \/ Expire(p)
  PROVE  Onlooking
<1> TypeOK /\ PlacesOK
  BY DEF IInv, TypeOK
<1>1. p # Main /\ p \in Thread /\ pc[p] \in PhiloLoc
  BY DEF PlacesOK, Place
<1>2. \A q \in Philo : meals[q] \in Nat
  BY MealCapNat DEF TypeOK
<1> USE DEF Onlooking, Enter, Goto, flags, plate, watch, TypeOK, PlacesOK
<1>3. CASE LockDead(p) \/ LockMeal(p)
  BY <1>1, <1>2, <1>3 DEF LockDead, LockMeal
<1>4. CASE SayEnd(p)
  <2>1. pc[p] # "sayDied" /\ pc[p] # "done"
    BY <1>1, <1>4 DEF SayEnd, AtSay, AfterSay, PhiloLoc
  <2> QED BY <1>1, <1>2, <1>4, <2>1 DEF SayEnd
<1>5. CASE CheckEnd(p)
  <2>1. pc[p] # "done"
    BY <1>5 DEF CheckEnd, AtCheck, AfterStop
  <2> QED BY <1>1, <1>2, <1>5, <2>1 DEF CheckEnd
<1>6. CASE MealLock(p)
  BY <1>1, <1>2, <1>6 DEF MealLock
<1>7. CASE MealUnlock(p)
  BY <1>1, <1>2, <1>7 DEF MealUnlock
<1>8. CASE Wake(p)
  BY <1>1, <1>2, <1>8 DEF Wake
<1>9. CASE LockFork(p)
  BY <1>1, <1>2, <1>9 DEF LockFork
<1>10. CASE UnlockFork(p)
  BY <1>1, <1>2, <1>10 DEF UnlockFork
<1>11. CASE Expire(p)
  BY <1>2, <1>11 DEF Expire
<1> QED BY <1>3, <1>4, <1>5, <1>6, <1>7, <1>8, <1>9, <1>10, <1>11 DEF PhiloStep, Section

LEMMA MainEnds ==
  ASSUME IInv, EndInv, MainStep
  PROVE  EndInv'
<1> TypeOK /\ PlacesOK /\ IndexOK
  BY DEF IInv, TypeOK
<1>1. Main \in Thread /\ Main \notin Philo /\ pc[Main] \in MainLoc
  BY DEF PlacesOK, Place
<1>2. \A p \in Philo : meals[p] \in Nat
  BY MealCapNat DEF TypeOK
<1> USE DEF Enter, Goto, flags, plate, watch
\* A step that leaves the flags and the line alone, and comes to a place before either.
<1>3. ASSUME UNCHANGED <<dead, full, report, meals>>, ~dead, ~full, report = {},
             pc'[Main] \in {"create", "grace", "scanDead", "rounds", "sayDied"}
      PROVE  EndInv'
  BY <1>3 DEF EndInv, OneVerdict, OneCause, ScanHolds, Joined
<1>4. \A l \in MainLoc : Goto(Main, l) => pc'[Main] = l /\ \A p \in Philo : pc'[p] = pc[p]
  BY <1>1 DEF PlacesOK
<1>5. pc[Main] \in {"create", "grace", "scanDead", "rounds", "scanFull", "sayDied"} =>
        ~dead /\ ~full /\ report = {}
  BY DEF EndInv, OneCause
<1>6. CASE LockDead(Main) \/ LockMeal(Main)
  <2>1. pc[Main] = "sayDied"
    <3>1. AtSay(Main) \/ AtCheck(Main)
      BY <1>1, <1>6 DEF LockDead, LockMeal, IInv, SectionsOK, SectionOK, AtSay, AtCheck, TypeOK
    <3> QED BY <1>1, <3>1 DEF AtSay, AtCheck, AfterSay, AfterStop, MainLoc
  <2> QED BY <1>3, <1>5, <1>6, <2>1 DEF LockDead, LockMeal
<1>7. CASE SayEnd(Main)
  <2>1. pc[Main] = "sayDied" /\ sec[Main] = "both"
    BY <1>1, <1>7 DEF SayEnd, AtSay, AfterSay, MainLoc
  <2>2. ~dead /\ ~full /\ report = {} /\ ~seen[Main]
    BY <1>1, <1>5, <2>1 DEF IInv, VerdictIsCurrent
  <2>3. /\ report' = {idx} /\ UNCHANGED <<dead, full, idx, meals>>
        /\ sec'[Main] = "out" /\ pc'[Main] = "setDead"
    BY <1>1, <1>7, <2>1, <2>2 DEF SayEnd, AfterSay, TypeOK, PlacesOK
  <2> QED BY <2>2, <2>3 DEF EndInv, OneVerdict, OneCause, ScanHolds, Joined
<1>8. CASE CheckEnd(Main)
  BY <1>1, <1>8, CheckIsPhilo DEF CheckEnd
<1>9. CASE Create
  <2>1. pc[Main] = "create" /\ pc'[Main] \in {"create", "grace"}
    BY <1>1, <1>9 DEF Create, MoreToCreate, TypeOK, PlacesOK
  <2> QED BY <1>3, <1>5, <1>9, <2>1 DEF Create
<1>10. CASE Grace
  BY <1>1, <1>3, <1>4, <1>5, <1>10 DEF Grace, MainLoc
<1>11. CASE ScanLock
  <2>1. /\ UNCHANGED <<pc, dead, full, report, meals, idx>> /\ sec'[Main] = "one"
        /\ seen'[Main] = Scan
    BY <1>1, <1>11 DEF ScanLock, TypeOK
  <2>2. CASE pc[Main] = "scanFull"
    <3>1. idx \in Philo /\ meals[idx] \in Nat
      BY <1>2, <2>2 DEF IndexOK
    <3>2. ~seen'[Main] => Enough(idx)
      BY <2>1, <2>2, <3>1 DEF Scan, Enough
    <3> QED BY <1>5, <2>1, <2>2, <3>2 DEF EndInv, OneVerdict, OneCause, ScanHolds, Joined, Enough
  <2>3. CASE pc[Main] # "scanFull"
    BY <1>3, <1>5, <1>11, <2>1, <2>3 DEF ScanLock
  <2> QED BY <2>2, <2>3
<1>12. CASE ScanUnlock
  <2>1. ~dead /\ ~full /\ report = {} /\ UNCHANGED <<dead, full, report, meals>>
    BY <1>5, <1>12 DEF ScanUnlock
  <2>2. sec[Main] = "one" /\ sec'[Main] = "out"
    BY <1>1, <1>12 DEF ScanUnlock, TypeOK
  <2>3. CASE pc[Main] = "scanDead"
    <3>1. pc'[Main] \in {"scanDead", "sayDied", "rounds"}
      BY <1>1, <1>12, <2>3 DEF ScanUnlock, NextIndex, PlacesOK
    <3> QED BY <1>3, <2>1, <3>1
  <2>4. CASE pc[Main] = "rounds" /\ seen[Main]
    BY <1>3, <1>4, <1>12, <2>1, <2>4 DEF ScanUnlock, Restart, MainLoc
  <2>5. CASE pc[Main] = "rounds" /\ ~seen[Main]
    <3>1. pc'[Main] = "scanFull" /\ idx' = 0
      BY <1>4, <1>12, <2>5 DEF ScanUnlock, Restart, MainLoc
    <3> QED BY <2>1, <2>2, <3>1 DEF EndInv, OneVerdict, OneCause, ScanHolds, Joined
  <2>6. CASE pc[Main] = "scanFull" /\ seen[Main]
    BY <1>3, <1>4, <1>12, <2>1, <2>6 DEF ScanUnlock, Restart, MainLoc
  <2>7. CASE pc[Main] = "scanFull" /\ ~seen[Main]
    <3>1. Enough(idx) /\ \A p \in Philo : p < idx => Enough(p)
      BY <2>2, <2>7 DEF EndInv, ScanHolds
    <3>2. idx \in Philo
      BY <2>7 DEF IndexOK
    <3>3. \A p \in Philo : p < idx + 1 => Enough(p)
      BY <3>1, <3>2
    <3>4. \A p \in Philo : Enough(p)' <=> Enough(p)
      BY <2>1 DEF Enough
    <3>5. NextIndex("setFull")
      BY <1>12, <2>7 DEF ScanUnlock
    <3>6. CASE idx + 1 < N
      <4>1. pc'[Main] = "scanFull" /\ idx' = idx + 1
        BY <2>7, <3>5, <3>6 DEF NextIndex
      <4>2. ScanHolds'
        BY <2>2, <3>3, <3>4, <4>1 DEF ScanHolds
      <4> QED BY <2>1, <4>1, <4>2 DEF EndInv, OneVerdict, OneCause, Joined
    <3>7. CASE ~(idx + 1 < N)
      <4>1. pc'[Main] = "setFull"
        BY <1>4, <3>5, <3>7 DEF NextIndex, MainLoc
      <4>2. \A p \in Philo : Enough(p)'
        BY <3>2, <3>3, <3>4, <3>7
      <4> QED BY <2>1, <2>2, <4>1, <4>2 DEF EndInv, OneVerdict, OneCause, ScanHolds, Joined
    <3> QED BY <3>6, <3>7
  <2> QED BY <1>12, <2>3, <2>4, <2>5, <2>6, <2>7 DEF ScanUnlock
<1>13. CASE SetDead
  <2>1. ~full /\ report = {idx} /\ (dead <=> sec[Main] = "one") /\ idx \in Philo
    BY <1>13 DEF SetDead, EndInv, OneCause, IndexOK
  <2>2. CASE sec[Main] = "out"
    <3>1. pc'[Main] = "setDead" /\ sec'[Main] = "one" /\ dead' /\ UNCHANGED <<full, report, idx>>
      BY <1>1, <1>13, <2>2 DEF SetDead, TypeOK
    <3> QED BY <2>1, <3>1 DEF EndInv, OneVerdict, OneCause, ScanHolds, Joined
  <2>3. CASE sec[Main] = "one"
    <3>1. pc'[Main] = "join" /\ idx' = 0 /\ UNCHANGED <<dead, full, report>>
      BY <1>4, <1>13, <2>3 DEF SetDead, AfterDeath, Restart, MainLoc
    <3> QED BY <2>1, <3>1 DEF EndInv, OneVerdict, OneCause, ScanHolds, Joined
  <2> QED BY <1>13, <2>2, <2>3 DEF SetDead
<1>14. CASE SetFull
  <2>1. ~dead /\ report = {} /\ (full <=> sec[Main] = "one") /\ \A p \in Philo : Enough(p)
    BY <1>14 DEF SetFull, EndInv, OneCause
  <2>2. UNCHANGED <<dead, report, meals>> /\ \A p \in Philo : Enough(p)'
    BY <1>14, <2>1 DEF SetFull, Enough
  <2>3. CASE sec[Main] = "out"
    <3>1. pc'[Main] = "setFull" /\ sec'[Main] = "one" /\ full'
      BY <1>1, <1>14, <2>3 DEF SetFull, TypeOK
    <3> QED BY <2>1, <2>2, <3>1 DEF EndInv, OneVerdict, OneCause, ScanHolds, Joined, Enough
  <2>4. CASE sec[Main] = "one"
    <3>1. pc'[Main] = "join" /\ idx' = 0 /\ UNCHANGED full
      BY <1>4, <1>14, <2>4 DEF SetFull, Restart, MainLoc
    <3> QED BY <2>1, <2>2, <3>1 DEF EndInv, OneVerdict, OneCause, ScanHolds, Joined, Enough
  <2> QED BY <1>14, <2>3, <2>4 DEF SetFull
<1>15. CASE Join \/ Destroy
  <2>1. UNCHANGED <<dead, full, report, meals>> /\ pc'[Main] \in {"join", "destroy", "exit"}
    BY <1>4, <1>15 DEF Join, Destroy, NextIndex, MainLoc
  <2>2. OneVerdict' /\ OneCause' /\ ScanHolds'
    BY <2>1 DEF EndInv, OneVerdict, OneCause, ScanHolds
  <2>3. CASE Join
    <3> SUFFICES Joined'
      BY <2>2 DEF EndInv
    <3>1. idx \in Philo /\ \A p \in Philo : p < idx + 1 => pc[p] = "done"
      <4>1. pc[Main] = "join" /\ pc[idx] = "done" /\ idx \in Philo
        BY <2>3 DEF Join, JoinReturns, IndexOK
      <4> QED BY <4>1 DEF EndInv, Joined
    <3>2. \A p \in Philo : pc'[p] = pc[p]
      BY <1>4, <2>3 DEF Join, NextIndex, MainLoc
    <3>3. CASE idx + 1 < N
      <4>1. idx' = idx + 1 /\ pc'[Main] = "join"
        BY <2>3, <3>3 DEF Join, NextIndex
      <4> QED BY <3>1, <3>2, <4>1 DEF Joined
    <3>4. CASE ~(idx + 1 < N)
      <4>1. \A p \in Philo : pc[p] = "done"
        BY <3>1, <3>4
      <4> QED BY <3>2, <4>1 DEF Joined
    <3> QED BY <3>3, <3>4
  <2>4. CASE Destroy
    <3>1. Joined'
      BY <1>4, <2>4 DEF Destroy, EndInv, Joined, MainLoc
    <3> QED BY <2>2, <3>1 DEF EndInv
  <2> QED BY <1>15, <2>3, <2>4
<1> QED BY <1>6, <1>7, <1>8, <1>9, <1>10, <1>11, <1>12, <1>13, <1>14, <1>15
        DEF MainStep, Section

LEMMA EndStep == IInv /\ EndInv /\ [Next]_vars => EndInv'
<1> SUFFICES ASSUME IInv, EndInv, [Next]_vars PROVE EndInv'
  OBVIOUS
<1>1. CASE \E p \in Philo : PhiloStep(p) \/ Expire(p)
  BY <1>1, PhilosophersLookOn, OnlookingKeeps, TypeStep DEF IInv
<1>2. CASE MainStep
  BY <1>2, MainEnds
<1>3. CASE Exited \/ UNCHANGED vars
  <2>1. UNCHANGED vars
    BY <1>3 DEF Exited
  <2> QED BY <2>1 DEF vars, flags, plate, watch, EndInv, OneVerdict, OneCause, ScanHolds, Joined,
                      Enough
<1> QED BY <1>1, <1>2, <1>3 DEF Next

\* A philosopher that has returned has no fork, and no mutex is held by one.
LEMMA NothingHeld ==
  ASSUME IInv, EndInv, pc[Main] \in {"destroy", "exit"}
  PROVE  /\ \A f \in Fork : fork[f] = Free
         /\ deadmutex = Free /\ mealmutex = Free
<1>1. \A p \in Philo : pc[p] = "done"
  BY DEF EndInv, Joined
<1>2. \A f \in Fork : fork[f] = Free
  <2> SUFFICES ASSUME NEW f \in Fork, fork[f] \in Philo PROVE FALSE
    BY DEF IInv, TypeOK
  <2>1. f \in Hand(fork[f], pc[fork[f]])
    BY DEF IInv, ForkOwnership
  <2> QED BY <1>1, <2>1 DEF Hand
<1>3. \A t \in Thread : ~HasDead(sec[t], pc[t]) /\ ~HasMeal(sec[t], pc[t])
  <2> SUFFICES ASSUME NEW t \in Thread PROVE ~HasDead(sec[t], pc[t]) /\ ~HasMeal(sec[t], pc[t])
    OBVIOUS
  <2>1. pc[t] \in {"done", "destroy", "exit"}
    BY <1>1
  <2>2. SectionOK(sec[t], pc[t])
    BY DEF IInv, SectionsOK
  <2>3. sec[t] \notin {"dead", "both", "one"}
    BY <2>1, <2>2 DEF SectionOK, AfterSay, AfterStop
  <2> QED BY <2>3 DEF HasDead, HasMeal
<1> QED BY <1>2, <1>3 DEF IInv, TypeOK, TableOwnership

\* A table is stopped by one death that was printed or because everybody has eaten enough,
\* and clean_exit() destroys mutexes that nobody holds and nobody will lock.
THEOREM OrderlyEnd == Spec => []EndsInOrder
<1>1. IInv /\ EndInv => EndsInOrder
  BY NothingHeld DEF EndInv, EndsInOrder, DestroysOnlyFree, Joined
<1>2. Spec => []EndInv
  BY EndInit, EndStep, Invariance, PTL DEF Spec
<1> QED BY <1>1, <1>2, Invariance, PTL
=============================================================================
