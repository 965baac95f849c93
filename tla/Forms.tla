-------------------------------- MODULE Forms --------------------------------
(***************************************************************************)
(* The forms of CPP05/ex03: an intern makes them, one bureaucrat signs and *)
(* another executes them, each with the grade he has then.  Grade 1 is the *)
(* highest.  A step is one call of a member function.                      *)
(***************************************************************************)
EXTENDS Integers

CONSTANTS
  Bureaucrats, Papers,  \* names of objects
  NULL,                 \* an object that is not there
  LOWEST,               \* grade
  Grades,               \* grades somebody is hired with, or not
  Needed                \* [kinds -> [toSign, toExecute]]

\* What a paper is, and what NULL is not.
Paper == [kind : DOMAIN Needed, signed : BOOLEAN, signer : 1 .. LOWEST \cup {NULL}, forged : BOOLEAN]

ConstantsAssumption ==
  /\ LOWEST \in Nat /\ \A kind \in DOMAIN Needed : Needed[kind].toSign \in Int /\ Needed[kind].toExecute \in Int
  /\ NULL \notin 1 .. LOWEST /\ NULL \notin Paper

VARIABLES
  grade,                \* [Bureaucrats -> a grade or NULL]
  form,                 \* [Papers -> [kind, signed, signer, forged] or NULL]; signer and forged are observed:
                        \* the grade that signed it, and whether the sign came from a form of another kind
  executed              \* the last that was executed: [paper, grade], or NULL

vars == <<grade, form, executed>>

Blank(kind)  == [kind |-> kind, signed |-> FALSE, signer |-> NULL, forged |-> FALSE]
Hired        == {b \in Bureaucrats : grade[b] # NULL}
There        == {f \in Papers : form[f] # NULL}
Graded(b, g) == grade' = [grade EXCEPT ![b] = g] /\ UNCHANGED <<form, executed>>
Filled(f, r) == form' = [form EXCEPT ![f] = r] /\ executed' = NULL /\ UNCHANGED grade

-----------------------------------------------------------------------------
\* The constructor throws for a grade that does not exist, and increase() and decrease() do.
Hire(b, g) == b \notin Hired /\ g \in 1 .. LOWEST /\ Graded(b, g)
Increase(b) == b \in Hired /\ ~(grade[b] - 1 < 1) /\ Graded(b, grade[b] - 1)
Decrease(b) == b \in Hired /\ ~(grade[b] + 1 > LOWEST) /\ Graded(b, grade[b] + 1)
Assign(b, c) == {b, c} \subseteq Hired /\ b # c /\ Graded(b, grade[c])

\* A copy of a form is blank again; the assignment of a kind leaves the sign as it was, that
\* of AForm, by which forms of two kinds can be assigned, takes it over.
MakeForm(f, kind) == f \notin There /\ Filled(f, Blank(kind))
Copy(f, h)        == f \notin There /\ h \in There /\ Filled(f, Blank(form[h].kind))
AssignForm(f, h) ==
  /\ {f, h} \subseteq There
  /\ Filled(f, [form[f] EXCEPT !.signed = form[h].signed, !.signer = form[h].signer,
                               !.forged = form[h].signed /\ (form[h].forged \/ form[h].kind # form[f].kind)])
Delete(f) == f \in There /\ Filled(f, NULL)

SignForm(b, f) ==
  /\ b \in Hired /\ f \in There
  /\ ~form[f].signed /\ ~(grade[b] > Needed[form[f].kind].toSign)
  /\ Filled(f, [form[f] EXCEPT !.signed = TRUE, !.signer = grade[b]])

ExecuteForm(b, f) ==
  /\ b \in Hired /\ f \in There
  /\ form[f].signed /\ ~(grade[b] > Needed[form[f].kind].toExecute)
  /\ executed' = [paper |-> form[f], grade |-> grade[b]] /\ UNCHANGED <<grade, form>>

Init == grade = [b \in Bureaucrats |-> NULL] /\ form = [f \in Papers |-> NULL] /\ executed = NULL

OfBureaucrat == \E b \in Bureaucrats : (\E g \in Grades : Hire(b, g)) \/ Increase(b) \/ Decrease(b) \/ (\E c \in Bureaucrats : Assign(b, c))
OfForm == \E f \in Papers : (\E kind \in DOMAIN Needed : MakeForm(f, kind)) \/ (\E h \in Papers : Copy(f, h) \/ AssignForm(f, h)) \/ Delete(f)
OfBoth == \E b \in Bureaucrats, f \in Papers : SignForm(b, f) \/ ExecuteForm(b, f)
Next == OfBureaucrat \/ OfForm \/ OfBoth

Spec == Init /\ [][Next]_vars

-----------------------------------------------------------------------------
\* Whatever is executed was signed before by a grade that was high enough for it then,
\* whoever has been promoted, degraded or copied since, and by way of whatever copies the
\* form came about - unless AForm::operator=() gave it the sign of another kind; and no
\* grade leaves its range (AForm, Bureaucrat).
ExecutedWasSigned ==
  /\ \A b \in Hired : grade[b] \in 1 .. LOWEST
  /\ executed # NULL =>
       LET paper == executed.paper
       IN /\ executed.grade =< Needed[paper.kind].toExecute
          /\ paper.signer # NULL /\ (paper.forged \/ paper.signer =< Needed[paper.kind].toSign)
=============================================================================
