----------------------------- MODULE Calculator -----------------------------
(***************************************************************************)
(* RPN of CPP09/ex01: an expression is cut at every blank, and a stack     *)
(* takes the numbers until an operator takes two of them.  A step is one   *)
(* turn of the loop.                                                       *)
(*                                                                         *)
(* A token begins with a digit (with the number atol() finds in it), is an *)
(* operator, or is neither, as the one between two blanks is.              *)
(***************************************************************************)
EXTENDS Integers, Sequences, SequencesExt

CONSTANTS
  Expressions,        \* sequences of [kind |-> "number", n] and [kind |-> an operator, or "other"]
  LONG_MAX

VARIABLES
  expression,
  next,               \* the token that is looked at
  stack,
  end                 \* "none", "value", "refused", or "crash" if what it does has no meaning

vars == <<expression, next, stack, end>>

Operators == {"+", "-", "*", "/"}

ConstantsAssumption ==
  /\ LONG_MAX \in Nat
  /\ \A e \in Expressions :
       /\ Len(e) \in Nat /\ DOMAIN e = 1 .. Len(e)
       /\ \A k \in DOMAIN e : e[k].kind \in Operators \cup {"number", "other"} /\ (e[k].kind = "number" => e[k].n \in Int)

LONG_MIN  == -LONG_MAX - 1

\* What leaves the range comes back from the other end.
AsLong(n) == ((n - LONG_MIN) % (2 * LONG_MAX + 2)) + LONG_MIN
Abs(n)    == IF n < 0 THEN -n ELSE n
Quotient(b, a) == (IF (b < 0) = (a < 0) THEN 1 ELSE -1) * (Abs(b) \div Abs(a))

\* add(), minus(), times(), divide(): a is on top.
Applied(kind, b, a) ==
  CASE kind = "+" -> b + a [] kind = "-" -> b - a [] kind = "*" -> b * a [] kind = "/" -> Quotient(b, a)
Applied_turned(kind, b, a) ==                          \* mutant: the top is the first operand
  CASE kind = "+" -> b + a [] kind = "-" -> a - b [] kind = "*" -> b * a [] kind = "/" -> Quotient(b, a)

-----------------------------------------------------------------------------
Token == expression[next]
At(kinds) == end = "none" /\ next =< Len(expression) /\ Token.kind \in kinds
Height == Len(stack)
Stop(how) == end' = how /\ UNCHANGED <<expression, next, stack>>

Push ==
  /\ At({"number"})
  /\ stack' = Append(stack, Token.n) /\ next' = next + 1
  /\ UNCHANGED <<expression, end>>

BadToken   == At({"other"}) /\ Stop("refused")
TooFew     == At(Operators) /\ Height < 2 /\ Stop("refused")
DivideBy0  == At({"/"}) /\ Height >= 2 /\ Last(stack) = 0 /\ Stop("refused")

\* The processor traps when the lowest number is divided by -1.
Trap == At({"/"}) /\ Height >= 2 /\ stack[Height - 1] = LONG_MIN /\ Last(stack) = -1 /\ Stop("crash")

Operate ==
  /\ At(Operators) /\ Height >= 2
  /\ Token.kind = "/" => Last(stack) # 0 /\ ~(stack[Height - 1] = LONG_MIN /\ Last(stack) = -1)
  /\ stack' = Append(SubSeq(stack, 1, Height - 2), AsLong(Applied(Token.kind, stack[Height - 1], Last(stack))))
  /\ next' = next + 1
  /\ UNCHANGED <<expression, end>>

\* The top of an empty stack is written when nothing was asked.
Result ==
  /\ end = "none" /\ next > Len(expression)
  /\ Stop(IF Height > 1 THEN "refused" ELSE IF Height = 0 THEN "crash" ELSE "value")

Init == expression \in Expressions /\ next = 1 /\ stack = <<>> /\ end = "none"

Next == Push \/ BadToken \/ TooFew \/ DivideBy0 \/ Trap \/ Operate \/ Result

Spec == Init /\ [][Next]_vars

-----------------------------------------------------------------------------
\* Read from its end, an expression is a tree: the operands of an operator are the two
\* trees before it.  Where the tree that ends at a token begins, or 0 if there is none, its
\* value, and whether the token divides by zero.
Leaf(first, value) == [first |-> first, value |-> value, by0 |-> FALSE]
Tree(kind, l, r) ==
  [first |-> l.first, by0 |-> kind = "/" /\ r.value = 0,
   value |-> CASE kind = "+" -> l.value + r.value [] kind = "-" -> l.value - r.value [] kind = "*" -> l.value * r.value
               [] OTHER -> IF r.value = 0 THEN 0 ELSE Quotient(l.value, r.value)]
TreeEnding(trees, t) ==
  LET before == IF trees = <<>> THEN 0 ELSE Last(trees).first - 1
  IN IF t.kind = "number" THEN Leaf(Len(trees) + 1, t.n)
     ELSE IF t.kind = "other" \/ before < 1 THEN Leaf(0, 0)
     ELSE IF trees[before].first = 0 THEN Leaf(0, 0) ELSE Tree(t.kind, trees[before], Last(trees))
Grown(trees, t) == Append(trees, TreeEnding(trees, t))
Trees == FoldLeft(Grown, <<>>, expression)

Understood(trees) ==
  (\A k \in DOMAIN trees : trees[k].value \in LONG_MIN .. LONG_MAX) =>
    /\ (end = "value") <=> Last(trees).first = 1 /\ \A k \in DOMAIN trees : ~trees[k].by0
    /\ end = "value" => stack = <<Last(trees).value>>
    /\ end # "crash"

\* So long as no value is too large, an expression is answered exactly if it is one tree in
\* which nothing is divided by zero, and with the value of the tree; otherwise it is refused.
\* Only the empty expression crashes then (RPN::RPN()).
Calculates == end # "none" => IF expression = <<>> THEN end = "crash" ELSE Understood(Trees)
=============================================================================
