-------------------------------- MODULE Spans --------------------------------
(***************************************************************************)
(* Span of CPP08/ex01: a store of at most m_N numbers that says how far    *)
(* the nearest and the farthest two of them are apart.  A step is one call *)
(* of a member function.                                                   *)
(***************************************************************************)
EXTENDS Integers, Sequences, SequencesExt, FiniteSetsExt

CONSTANTS
  Objects, NULL,
  Limits,             \* numbers an object is made for
  Batches,              \* sequences of numbers that are added at once; one alone is added by addNumber()
  INT_MAX

VARIABLES
  span,               \* [Objects -> [m_N, m_Size, m_Vector] or NULL]
  offered,            \* [Objects -> what was added or refused, in order: as many as any has room for] (observed)
  answer              \* what was asked last: [object, longest, shortest], or NULL

vars == <<span, offered, answer>>

INT_MIN  == -INT_MAX - 1
AsInt(n) == ((n - INT_MIN) % (2 * INT_MAX + 2)) + INT_MIN
There    == {o \in Objects : span[o] # NULL}
Becomes(o, s, given) == span' = [span EXCEPT ![o] = s] /\ offered' = [offered EXCEPT ![o] = given] /\ answer' = NULL

\* Numbers are taken until one does not fit, where multiValues() throws and keeps those before.
multiValues(s, numbers) ==
  FoldLeft(LAMBDA r, n : IF r.m_N = r.m_Size THEN r ELSE [r EXCEPT !.m_Vector = Append(@, n), !.m_Size = @ + 1], s, numbers)

longestSpan(v)  == AsInt(Max(ToSet(v)) - Min(ToSet(v)))
shortestSpan(v) ==
  LET sorted == SortSeq(v, <)
  IN FoldLeft(LAMBDA min, i : IF AsInt(sorted[i] - sorted[i - 1]) < min THEN AsInt(sorted[i] - sorted[i - 1]) ELSE min,
              INT_MAX, [i \in 1 .. Len(v) - 1 |-> i + 1])

-----------------------------------------------------------------------------
Make(o, n)      == o \notin There /\ Becomes(o, [m_N |-> n, m_Size |-> 0, m_Vector |-> <<>>], <<>>)
Offered(o, numbers) == LET all == offered[o] \o numbers IN SubSeq(all, 1, Min({Len(all), Max(Limits)}))
Add(o, numbers) == o \in There /\ Becomes(o, multiValues(span[o], numbers), Offered(o, numbers))
Take(o, p)      == p \in There /\ o # p /\ Becomes(o, span[p], offered[p])
Ask(o)          == /\ o \in There /\ Len(span[o].m_Vector) >= 2
                   /\ answer' = [object |-> o, longest |-> longestSpan(span[o].m_Vector), shortest |-> shortestSpan(span[o].m_Vector)]
                   /\ UNCHANGED <<span, offered>>

Init == span = [o \in Objects |-> NULL] /\ offered = [o \in Objects |-> <<>>] /\ answer = NULL

Next == \E o \in Objects : (\E n \in Limits : Make(o, n)) \/ (\E l \in Batches : Add(o, l)) \/ (\E p \in Objects : Take(o, p)) \/ Ask(o)

Spec == Init /\ [][Next]_vars

-----------------------------------------------------------------------------
Abs(n) == IF n < 0 THEN -n ELSE n
Apart(v) == {Abs(v[i] - v[j]) : <<i, j>> \in {d \in (DOMAIN v) \X (DOMAIN v) : d[1] < d[2]}}

\* An object has the first of the numbers it was offered, as many as it is made for, also when a
\* list was cut in the middle and in what is copied from it; and the two spans are those of the
\* nearest and the farthest pair, so long as a distance fits in an int (Span).
SpansAreRight ==
  /\ \A o \in There : LET s == span[o]
                      IN s.m_Size = Len(s.m_Vector) /\ s.m_Vector = SubSeq(offered[o], 1, Min({Len(offered[o]), s.m_N}))
  /\ answer # NULL =>
       LET apart == Apart(span[answer.object].m_Vector)
       IN Max(apart) =< INT_MAX => answer.longest = Max(apart) /\ answer.shortest = Min(apart)
=============================================================================
