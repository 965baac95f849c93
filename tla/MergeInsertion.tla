--------------------------- MODULE MergeInsertion ---------------------------
(***************************************************************************)
(* CPP09/ex02: merge-insertion sort, the same for a vector and a deque.    *)
(* On the way down the numbers are paired, the pairs paired, and so on; on *)
(* the way up the smaller halves are inserted into the chain of the larger *)
(* ones in the order of the Jacobsthal numbers, each below its own partner *)
(* to save comparisons.  A step is one level of _merge_insertion_sort().   *)
(*                                                                         *)
(* A unit is pair_level neighbours, told apart by its number and compared  *)
(* by its last member.  Iterators are indexes, bounds count from 0.        *)
(***************************************************************************)
EXTENDS Integers, Sequences, SequencesExt

CONSTANT Numbers      \* the sequences that may be given

VARIABLES
  given, container,
  pair_level,
  phase,              \* "pair", "insert" or "done"
  comparisons,        \* calls of _comp()
  outside             \* a bound was behind the end of the chain

vars == <<given, container, pair_level, phase, comparisons, outside>>

Units     == Len(container) \div pair_level
is_odd    == Units % 2
Value(u)  == container[u * pair_level]

-----------------------------------------------------------------------------
(* Down: the larger unit of each pair goes second.                              *)

Swapped(u) == Value(u + 1) < Value(u)      \* for an odd u
FirstOf(u) == IF u % 2 = 1 THEN u ELSE u - 1
Partner(u) == IF u % 2 = 1 THEN u + 1 ELSE u - 1
InPair(u)  == u =< Units - is_odd

Pair ==
  /\ phase = "pair" /\ Units >= 2
  /\ LET UnitOf(i) == (i - 1) \div pair_level + 1
         Whence(i) == LET u == UnitOf(i) IN
           IF InPair(u) /\ Swapped(FirstOf(u)) THEN i + (Partner(u) - u) * pair_level ELSE i
     IN container' = [i \in DOMAIN container |->
                        IF i =< Units * pair_level THEN container[Whence(i)] ELSE container[i]]
  /\ comparisons' = comparisons + Units \div 2
  /\ pair_level' = 2 * pair_level
  /\ UNCHANGED <<given, phase, outside>>

Up(level) == IF level = 1 THEN "done" ELSE "insert"

Single ==
  /\ phase = "pair" /\ Units < 2
  /\ phase' = Up(pair_level) /\ pair_level' = pair_level \div 2
  /\ UNCHANGED <<given, container, comparisons, outside>>

-----------------------------------------------------------------------------
(* Up: main starts with b1, a1, a2, ...; pend has b2, b3, ... and the odd one.  *)

Main == <<1>> \o [i \in 1 .. Units \div 2 |-> 2 * i]
Pend == [i \in 1 .. (Units - 1) \div 2 |-> 2 * i + 1]

Jacobsthal(k) == (2 ^ (k + 1) + (IF k % 2 = 0 THEN 1 ELSE -1)) \div 3

\* std::upper_bound() of a unit among the first n of the chain: where, and after how many comparisons.
Upper(main, n, u) ==
  LET search[first \in Nat, len \in Nat] ==
        IF len = 0 THEN [at |-> first, cost |-> 0]
        ELSE LET half == len \div 2
                 rest == IF Value(u) < Value(main[first + half + 1]) THEN search[first, half]
                         ELSE search[first + half + 1, len - half - 1]
             IN [rest EXCEPT !.cost = @ + 1]
  IN search[0, n]

\* One insertion of the unit u below the bound n.
Inserted(chain, n, u) ==
  IF chain.outside \/ n > Len(chain.main) THEN [chain EXCEPT !.outside = TRUE]
  ELSE LET found == Upper(chain.main, n, u) IN
       [chain EXCEPT !.main = InsertAt(chain.main, found.at + 1, u), !.cost = @ + found.cost, !.at = found.at]

\* A group of pend, the last first: b3 b2, b5 b4, b11 ... b6.  A unit that lands just below
\* the bound of the group moves the bound of the rest.
GroupStep(top, chain, u) ==
  LET c == Inserted(chain, top - chain.offset, u) IN [c EXCEPT !.offset = @ + (IF c.at = top THEN 1 ELSE 0)]
Group(chain, prev, curr) ==
  FoldLeft(LAMBDA c, u : GroupStep(curr + prev - 1, c, u), [chain EXCEPT !.offset = 0],
           Reverse(SubSeq(Pend, prev, curr - 1)))

\* The groups that pend has all members of.
IsFull(k) == Jacobsthal(k) - 1 =< Len(Pend)
Groups == SelectSeq([i \in 1 .. Len(Pend) |-> i + 1], IsFull)
Grouped(chain) == FoldLeft(LAMBDA c, k : Group(c, Jacobsthal(k - 1), Jacobsthal(k)), chain, Groups)

\* What is left, the last first.
Left == SubSeq(Pend, Jacobsthal(Len(Groups) + 1), Len(Pend))
LeftBound_even(chain, i) == Len(chain.main) - Len(Left) + i
LeftBound(chain, i) == Len(chain.main) - Len(Left) + i + is_odd
Remaining(chain) ==
  FoldLeft(LAMBDA c, i : Inserted(c, LeftBound(c, i), Left[i + 1]), chain, [j \in 1 .. Len(Left) |-> Len(Left) - j])

Insert ==
  /\ phase = "insert"
  /\ LET chain == Remaining(Grouped([main |-> Main, cost |-> 0, at |-> 0, offset |-> 0, outside |-> FALSE]))
         Unit(u) == SubSeq(container, (u - 1) * pair_level + 1, u * pair_level)
         copy == FlattenSeq([i \in DOMAIN chain.main |-> Unit(chain.main[i])])
     IN /\ container' = copy \o SubSeq(container, Len(copy) + 1, Len(container))
        /\ comparisons' = comparisons + chain.cost
        /\ outside' = chain.outside
  /\ phase' = IF outside' THEN "done" ELSE Up(pair_level)
  /\ pair_level' = pair_level \div 2
  /\ UNCHANGED given

Init ==
  /\ given \in Numbers /\ container = given
  /\ pair_level = 1 /\ phase = "pair" /\ comparisons = 0 /\ outside = FALSE

Next == Pair \/ Single \/ Insert

Spec == Init /\ [][Next]_vars

-----------------------------------------------------------------------------
\* The least number of comparisons merge insertion is known for.
CeilLog(n, d) == CHOOSE e \in 0 .. 20 : d * 2 ^ e >= n /\ (e = 0 \/ d * 2 ^ (e - 1) < n)
FordJohnson(n) == FoldLeft(LAMBDA s, k : s + CeilLog(3 * k, 4), 0, [k \in 1 .. n |-> k])

\* The numbers end in order, the same numbers, and no bound is behind the chain's end.
Sorts ==
  /\ ~outside
  /\ phase = "done" =>
       /\ \A i \in 1 .. Len(container) - 1 : container[i] =< container[i + 1]
       /\ \A n \in ToSet(given) \cup ToSet(container) :
            Len(SelectSeq(given, LAMBDA m : m = n)) = Len(SelectSeq(container, LAMBDA m : m = n))

\* A unit is never compared with more of the chain than its partner's part of it.
SavesComparisons == phase = "done" => comparisons =< FordJohnson(Len(given))
=============================================================================
