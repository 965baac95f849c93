-------------------------------- MODULE Dining --------------------------------
(***************************************************************************)
(* What the table of 42_philosophers promises, without mutexes: who eats,  *)
(* and when a philosopher may leave.  Philosophers implements it.          *)
(***************************************************************************)
EXTENDS Integers

CONSTANT N      \* nmbr_of_philos

VARIABLES
  activity,     \* activity[p]: "think", "reach" (for the last fork), "eat" or "left"
  stopped       \* a philosopher died, or all have eaten enough

Philo == 0 .. N-1

Neighbours(p, q) == p # q /\ (p - q \in {1, -1} \/ {p, q} = {0, N-1})

Set(p, from, to) ==
  /\ activity[p] = from
  /\ activity' = [activity EXCEPT ![p] = to]

\* Nobody who has not begun to before the stop goes for the last fork.
Reach(p) == ~stopped /\ Set(p, "think", "reach") /\ UNCHANGED stopped

Sit(p) ==
  /\ \A q \in Philo : Neighbours(p, q) => activity[q] # "eat"
  /\ Set(p, "reach", "eat")
  /\ UNCHANGED stopped

Rise(p) == Set(p, "eat", "think") /\ UNCHANGED stopped

Leave(p) == stopped /\ Set(p, "think", "left") /\ UNCHANGED stopped

Stop == ~stopped /\ stopped' = TRUE /\ UNCHANGED activity

Init == activity = [p \in Philo |-> "think"] /\ stopped = FALSE

Next == Stop \/ \E p \in Philo : Reach(p) \/ Sit(p) \/ Rise(p) \/ Leave(p)

Spec == Init /\ [][Next]_<<activity, stopped>>

===============================================================================
