----------------------------- MODULE Descriptors -----------------------------
(***************************************************************************)
(* Tables of file descriptors, as open(), dup(), dup2(), pipe() and close()*)
(* change them.  A table maps a number to the file it is open on, or NONE. *)
(***************************************************************************)
EXTENDS Integers, FiniteSets, FiniteSetsExt

CONSTANTS
  Fd,     \* the numbers a process may use
  NONE    \* not open

ASSUME FdAssumption == {0, 1} \subseteq Fd /\ Fd \subseteq Nat /\ IsFiniteSet(Fd)

Closed == [d \in Fd |-> NONE]

Unused(t) == {d \in Fd : t[d] = NONE}

\* open() and dup(): the lowest number that is not used, or -1.
Lowest(t) == IF Unused(t) = {} THEN -1 ELSE Min(Unused(t))

IsOpen(t, d) == d \in Fd /\ t[d] # NONE

Put(t, d, file) == IF d \in Fd THEN [t EXCEPT ![d] = file] ELSE t

\* close() of a number that is not open does nothing.
Close(t, d) == Put(t, d, NONE)

\* dup2(from, to): nothing happens when from is not open.
Dup2(t, from, to) == IF IsOpen(t, from) THEN Put(t, to, t[from]) ELSE t

\* dup2() and close() of the number that was copied.
Move(t, from, to) == Close(Dup2(t, from, to), from)
=============================================================================
