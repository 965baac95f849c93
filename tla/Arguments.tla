------------------------------ MODULE Arguments ------------------------------
(***************************************************************************)
(* input_valid() of 42_philosophers: what the program is started with is   *)
(* read into the table, the number of meals first, or refused.  A step is  *)
(* one call of ft_atol(), which does not read once there was an error.     *)
(***************************************************************************)
EXTENDS Integers, Sequences, SequencesExt

CONSTANTS
  Digits,             \* the ten digits, from "0"
  INT_MAX,
  MOST,               \* philosophers there may be
  Given               \* what the program is started with, beside its own name

VARIABLES
  argv,
  next,               \* the argument that is read next, or 0 behind the last
  table,              \* [rounds, nmbr_of_philos, time_to_die, time_to_eat, time_to_sleep]
  error,
  verdict             \* "none", "valid", "refused"

vars == <<argv, next, table, error, verdict>>

Field == <<"nmbr_of_philos", "time_to_die", "time_to_eat", "time_to_sleep", "rounds">>

Unsigned(s) == IF s # <<>> /\ s[1] = "+" THEN Tail(s) ELSE s

\* ft_atol(): the digits until one is none or the number too large.
ft_atol_last(s) ==                                     \* mutant: only the whole number is compared
  LET Digit(c) == IF Contains(Digits, c) THEN SelectInSeq(Digits, LAMBDA d : d = c) - 1 ELSE 0
      number   == FoldLeft(LAMBDA n, c : n * 10 + Digit(c), 0, Unsigned(s))
  IN [error |-> number > INT_MAX, number |-> number]
ft_atol(s) ==
  FoldLeft(LAMBDA r, c : IF r.error THEN r
                         ELSE IF ~Contains(Digits, c) THEN [r EXCEPT !.error = TRUE]
                         ELSE LET number == r.number * 10 + SelectInSeq(Digits, LAMBDA d : d = c) - 1
                              IN [error |-> number > INT_MAX, number |-> number],
           [error |-> FALSE, number |-> 0], Unsigned(s))

Count ==
  /\ next = 0 /\ verdict = "none"
  /\ IF Len(argv) \in {4, 5} THEN next' = (IF Len(argv) = 5 THEN 5 ELSE 1) /\ verdict' = verdict
     ELSE next' = next /\ verdict' = "refused"
  /\ UNCHANGED <<argv, table, error>>

\* fill_values(): the last argument first.
Fill ==
  /\ next \in DOMAIN Field
  /\ LET r == IF error THEN [error |-> TRUE, number |-> 0] ELSE ft_atol(argv[next])
     IN /\ error' = r.error
        /\ table' = [table EXCEPT ![Field[next]] = IF r.error THEN 0 ELSE r.number]
  /\ next' = IF next = 5 THEN 1 ELSE IF next = 4 THEN 6 ELSE next + 1
  /\ UNCHANGED <<argv, verdict>>

Check ==
  /\ next = 6 /\ verdict = "none"
  /\ verdict' = IF table.nmbr_of_philos > MOST \/ error \/ \E f \in DOMAIN table \ {"rounds"} : table[f] = 0
                THEN "refused" ELSE "valid"
  /\ UNCHANGED <<argv, next, table, error>>

Init ==
  /\ argv \in Given
  /\ next = 0 /\ error = FALSE /\ verdict = "none"
  /\ table = [f \in {"rounds", "nmbr_of_philos", "time_to_die", "time_to_eat", "time_to_sleep"} |-> IF f = "rounds" THEN -1 ELSE 0]

Next == Count \/ Fill \/ Check

Spec == Init /\ [][Next]_vars
-----------------------------------------------------------------------------
\* A sum of powers of ten.
Value(s) == FoldFunction(+, 0, [k \in DOMAIN s |-> (SelectInSeq(Digits, LAMBDA d : d = s[k]) - 1) * 10 ^ (Len(s) - k)])
Means(s) == (\A k \in DOMAIN Unsigned(s) : Contains(Digits, Unsigned(s)[k])) /\ Value(Unsigned(s)) =< INT_MAX

\* Exactly what says four or five numbers is accepted: those of the philosophers and times
\* are above zero, that of the meals may be none.  The table then has these numbers, and no
\* limit on the meals if none was given (input_valid(), fill_values(), ft_atol()).  Nothing is
\* said of exactly MOST: "must be less than" (initialization.c:65) refuses it, the code does not.
ReadAsGiven ==
  verdict # "none" =>
    LET n == [k \in DOMAIN argv |-> IF Means(argv[k]) THEN Value(Unsigned(argv[k])) ELSE -1]
    IN /\ n = <<>> \/ n[1] # MOST =>
            ((verdict = "valid") <=> Len(argv) \in {4, 5} /\ (\A k \in DOMAIN n : n[k] >= IF k = 5 THEN 0 ELSE 1) /\ n[1] < MOST)
       /\ verdict = "valid" => \A k \in DOMAIN Field : table[Field[k]] = IF k \in DOMAIN n THEN n[k] ELSE -1
=============================================================================
