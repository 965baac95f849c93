------------------------------ MODULE PushSwap ------------------------------
(***************************************************************************)
(* 42_push_swap: numbers are sorted with two stacks by the operations it   *)
(* prints.  A step is the parse, one operation, or the choice of the next  *)
(* element.  A stack is a sequence of indexes, its top first.              *)
(***************************************************************************)
EXTENDS Integers, Sequences, FiniteSets, SequencesExt

CONSTANTS
  Arguments,       \* command lines: sequences of texts, and a text is one of characters
  Digits,          \* the value of each digit
  INT_MAX,
  LowestText       \* the text of -(INT_MAX + 1)

VARIABLES
  args,            \* the texts that are parsed
  pc,
  a, b,            \* stack_a, stack_b
  i,               \* turns of the first loop of sort_more(), or of adjust_stack()
  costs,           \* rotations of a and b that are left, negative ones in reverse
  told             \* the two stacks as the printed operations make them (observed)

vars == <<args, pc, a, b, i, costs, told>>

len == Len(args)

-----------------------------------------------------------------------------
(* parser.c                                                                     *)

LeastOf(S) == CHOOSE x \in S : \A y \in S : x =< y

\* ft_split() at the blanks: how many words begin up to a place, and the words.
IsBlank(c)     == c = " "
BeginsAt(t, k) == ~IsBlank(t[k]) /\ (k = 1 \/ IsBlank(t[k - 1]))
Begun(t, k)    == Cardinality({j \in 1 .. k : BeginsAt(t, j)})
Words(t) == [n \in 1 .. Begun(t, Len(t)) |->
  LET W == {k \in 1 .. Len(t) : ~IsBlank(t[k]) /\ Begun(t, k) = n}
  IN  [j \in 1 .. Cardinality(W) |-> t[LeastOf(W) + j - 1]]]

\* ft_parse(): one argument may hold all numbers.  It is refused as an empty text is when
\* it is one or begins with a blank.
Texts(argv) == IF Len(argv) # 1 THEN argv
               ELSE IF argv[1] = <<>> \/ IsBlank(argv[1][1]) THEN <<<<>>>> ELSE Words(argv[1])

Body(t)     == IF t # <<>> /\ t[1] \in {"+", "-"} THEN Tail(t) ELSE t
Negative(t) == t # <<>> /\ t[1] = "-"
Numeral(s)  == FoldLeft(LAMBDA n, c : n * 10 + Digits[c], 0, s)

\* trim_zero(), ft_same(): the same sign, and the same digits behind the zeros.
trim_zero(t) == LET s == Append(Body(t), "") IN SubSeq(s, SelectInSeq(s, LAMBDA c : c # "0"), Len(s))
ft_same(t, u) == Negative(t) = Negative(u) /\ trim_zero(t) = trim_zero(u)

\* ft_atoi_check(): digits to the end, a value that fits, and no "-0".
ft_atoi_check(t) ==
  \/ ft_same(LowestText, t)
  \/ /\ t # <<>> /\ t # <<"+">>
     /\ \A k \in DOMAIN Body(t) : Body(t)[k] \in DOMAIN Digits
     /\ Numeral(Body(t)) =< INT_MAX
     /\ Negative(t) => Numeral(Body(t)) # 0

error_free == /\ \A k \in 1 .. len : ft_atoi_check(args[k])
              /\ \A k \in 1 .. len : \A j \in 1 .. k - 1 : ~ft_same(args[k], args[j])

\* assign_index(): an index is the rank of a number.
Number(t) == IF Negative(t) THEN -Numeral(Body(t)) ELSE Numeral(Body(t))
Indexes   == [k \in 1 .. len |-> Cardinality({j \in 1 .. len : Number(args[j]) =< Number(args[k])})]

-----------------------------------------------------------------------------
(* operations.c, and what an operation that is printed means.                   *)

Swap(s)    == IF Len(s) > 1 THEN <<s[2], s[1]>> \o SubSeq(s, 3, Len(s)) ELSE s
Rotate(s)  == IF Len(s) > 1 THEN Append(Tail(s), Head(s)) ELSE s
Reverse1(s) == IF Len(s) > 1 THEN <<Last(s)>> \o Front(s) ELSE s

\* A rotation of both is printed by the one of b.
Op(op) ==
  CASE op = "sa"  -> a' = Swap(a) /\ b' = b
    [] op = "ra"  -> a' = Rotate(a) /\ b' = b
    [] op = "rra" -> a' = Reverse1(a) /\ b' = b
    [] op = "rb"  -> b' = Rotate(b) /\ a' = a
    [] op = "rrb" -> b' = Reverse1(b) /\ a' = a
    [] op = "rr"  -> a' = Rotate(a) /\ b' = Rotate(b)
    [] op = "rrr" -> a' = Reverse1(a) /\ b' = Reverse1(b)
    [] op = "pb"  -> a' = Tail(a) /\ b' = <<Head(a)>> \o b
    [] op = "pa"  -> b' = Tail(b) /\ a' = <<Head(b)>> \o a

IsPrinted(op) ==
  CASE op \in {"sa", "ra", "rra"}         -> Len(a) > 1
    [] op \in {"rb", "rrb", "rr", "rrr"}  -> Len(b) > 1
    [] OTHER                              -> TRUE

Meant(op) ==
  LET x == told[1]  y == told[2]
  IN  CASE op = "sa"  -> <<Swap(x), y>>             [] op = "ra"  -> <<Rotate(x), y>>
        [] op = "rra" -> <<Reverse1(x), y>>         [] op = "rb"  -> <<x, Rotate(y)>>
        [] op = "rrb" -> <<x, Reverse1(y)>>         [] op = "rr"  -> <<Rotate(x), Rotate(y)>>
        [] op = "rrr" -> <<Reverse1(x), Reverse1(y)>>
        [] op = "pb"  -> <<Tail(x), <<Head(x)>> \o y>>
        [] op = "pa"  -> <<<<Head(y)>> \o x, Tail(y)>>

Do(op) == Op(op) /\ told' = IF IsPrinted(op) THEN Meant(op) ELSE told

Sorted(s) == \A k \in 1 .. Len(s) - 1 : s[k] =< s[k + 1]

-----------------------------------------------------------------------------
(* main(): two and three numbers, and sort_more().                              *)

Parse ==
  /\ pc = "parse"
  /\ IF error_free
     THEN /\ a' = Indexes /\ told' = <<Indexes, <<>>>>
          /\ pc' = IF Sorted(Indexes) THEN "done"
                     ELSE CASE len = 2 -> "two" [] len = 3 -> "three" [] OTHER -> "half"
     ELSE pc' = "refused" /\ UNCHANGED <<a, told>>
  /\ UNCHANGED <<args, b, i, costs>>

Two == pc = "two" /\ Do("sa") /\ pc' = "adjust" /\ UNCHANGED <<args, i, costs>>

\* sort_three(): one rotation at most, then one swap at most.
Turn ==
  IF a[1] > a[2] /\ a[1] > a[3] THEN "ra" ELSE IF a[2] > a[1] THEN "rra" ELSE "none"

Three ==
  /\ pc = "three"
  /\ IF Sorted(a) \/ Turn = "none" THEN UNCHANGED <<a, b, told>> ELSE Do(Turn)
  /\ pc' = IF Sorted(a) THEN "target" ELSE "swap"
  /\ UNCHANGED <<args, i, costs>>

SwapThree ==
  /\ pc = "swap"
  /\ IF a[1] > a[2] THEN Do("sa") ELSE UNCHANGED <<a, b, told>>
  /\ pc' = IF b = <<>> THEN "adjust" ELSE "target"
  /\ UNCHANGED <<args, i, costs>>

\* The lower half goes to b first when there are more than six, then all but three.
Half ==
  /\ pc = "half"
  /\ IF len > 6 /\ i < len /\ Len(b) < len \div 2
     THEN Do(IF a[1] =< len \div 2 THEN "pb" ELSE "ra") /\ i' = i + 1 /\ pc' = pc
     ELSE i' = 0 /\ pc' = "rest" /\ UNCHANGED <<a, b, told>>
  /\ UNCHANGED <<args, costs>>

Rest ==
  /\ pc = "rest"
  /\ IF Len(b) < len - 3 THEN Do("pb") /\ pc' = pc ELSE pc' = "three" /\ UNCHANGED <<a, b, told>>
  /\ UNCHANGED <<args, i, costs>>

-----------------------------------------------------------------------------
(* target(), cost(), do_cost_effective(): positions count from 0.               *)

\* get_lowest(): the place of the next larger index in a, or of the least.
Above(x)   == {y \in Range(a) : y > x}
NextOf_least(x) == LeastOf(Range(a))      \* mutant: every element goes before the least
NextOf(x)   == LeastOf(IF Above(x) # {} THEN Above(x) ELSE Range(a))
Position(s, x) == SelectInSeq(s, LAMBDA y : y = x) - 1

\* A position in the second half is reached in reverse.
Cost(pos, size) == IF pos > size \div 2 THEN pos - size ELSE pos
CostsOf(x) == <<Cost(Position(a, NextOf(x)), Len(a)), Cost(Position(b, x), Len(b))>>

my_abs(n) == IF n < 0 THEN -n ELSE n
Sum(c)    == my_abs(c[1]) + my_abs(c[2])

\* The first of the cheapest.
Cheapest == b[LeastOf({k \in DOMAIN b : \A j \in DOMAIN b : Sum(CostsOf(b[k])) =< Sum(CostsOf(b[j]))})]

Target ==
  /\ pc = "target"
  /\ IF b # <<>> THEN costs' = CostsOf(Cheapest) /\ pc' = "move" ELSE costs' = costs /\ pc' = "adjust"
  /\ UNCHANGED <<args, a, b, i, told>>

\* do_move(): both ways together, then a, then b, then the push.
Toward(n) == IF n > 0 THEN n - 1 ELSE IF n < 0 THEN n + 1 ELSE 0

Move ==
  /\ pc = "move"
  /\ LET ca == costs[1]  cb == costs[2]
     IN  CASE ca > 0 /\ cb > 0 -> Do("rr")  /\ costs' = <<Toward(ca), Toward(cb)>> /\ pc' = pc
           [] ca < 0 /\ cb < 0 -> Do("rrr") /\ costs' = <<Toward(ca), Toward(cb)>> /\ pc' = pc
           [] ca * cb =< 0 /\ ca # 0 -> Do(IF ca > 0 THEN "ra" ELSE "rra") /\ costs' = <<Toward(ca), cb>> /\ pc' = pc
           [] ca = 0 /\ cb # 0 -> Do(IF cb > 0 THEN "rb" ELSE "rrb") /\ costs' = <<ca, Toward(cb)>> /\ pc' = pc
           [] OTHER -> Do("pa") /\ costs' = costs /\ pc' = "target"
  /\ UNCHANGED <<args, i>>

\* adjust_stack(): the least index to the top, the shorter way; i counts what is left.
Adjust ==
  /\ pc = "adjust"
  /\ i' = IF Sorted(a) THEN 0 ELSE Cost(Position(a, 1), len)
  /\ pc' = IF Sorted(a) THEN "done" ELSE "turn"
  /\ UNCHANGED <<args, a, b, costs, told>>

TurnBack ==
  /\ pc = "turn"
  /\ IF i = 0 THEN pc' = "done" /\ UNCHANGED <<a, b, told>> ELSE pc' = pc /\ Do(IF i > 0 THEN "ra" ELSE "rra")
  /\ i' = Toward(i)
  /\ UNCHANGED <<args, costs>>

-----------------------------------------------------------------------------
\* The arguments are texts, and the lowest number is -(INT_MAX + 1).
ConstantsAssumption ==
  /\ \A w \in Arguments : w \in Seq(Range(w)) /\ \A t \in Range(w) : t \in Seq(Range(t))
  /\ INT_MAX \in Nat
  /\ Digits \in [DOMAIN Digits -> 0 .. 9] /\ IsInjective(Digits)
  /\ "0" \in DOMAIN Digits /\ Digits["0"] = 0 /\ {"", "+", "-"} \cap DOMAIN Digits = {}
  /\ LowestText \in Seq(Range(LowestText)) /\ Range(Body(LowestText)) \subseteq DOMAIN Digits
  /\ Negative(LowestText) /\ Numeral(Body(LowestText)) = INT_MAX + 1

Init ==
  /\ \E argv \in Arguments : args = Texts(argv)
  /\ pc = "parse" /\ a = <<>> /\ b = <<>> /\ i = 0 /\ costs = <<0, 0>> /\ told = <<<<>>, <<>>>>

Next == Parse \/ Two \/ Three \/ SwapThree \/ Half \/ Rest \/ Target \/ Move \/ Adjust \/ TurnBack

Spec == Init /\ [][Next]_vars

-----------------------------------------------------------------------------
(* Properties *)

\* A text is a number when it is an optional sign and at least one digit, fits in an int,
\* and is no negative zero.
IsNumber(t) ==
  /\ Body(t) # <<>> /\ Range(Body(t)) \subseteq DOMAIN Digits
  /\ Number(t) \in -(INT_MAX + 1) .. INT_MAX
  /\ Negative(t) => Number(t) # 0

\* A stack is sorted up to a rotation.
Turned(s) == Cardinality({k \in DOMAIN s : s[k] > s[(k % Len(s)) + 1]}) =< 1

\* Exactly the lists of distinct numbers are accepted, however they are written.  From
\* then on no number is lost or doubled, the stacks are what the printed operations say,
\* each push back to a keeps it sorted up to a rotation, and at the end it is sorted.
SortsAnything ==
  /\ pc = "refused" <=> pc # "parse" /\ ~( /\ \A k \in 1 .. len : IsNumber(args[k])
                                          /\ \A j, k \in 1 .. len : Number(args[j]) = Number(args[k]) => j = k)
  /\ pc \notin {"parse", "refused"} =>
       /\ Range(a \o b) = 1 .. len /\ Len(a \o b) = len
       /\ told = <<a, b>>
       /\ pc \in {"target", "move", "adjust", "turn"} => Turned(a)
       /\ pc = "done" => Sorted(a) /\ b = <<>>
=============================================================================
