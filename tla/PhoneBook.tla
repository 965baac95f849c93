------------------------------ MODULE PhoneBook ------------------------------
(***************************************************************************)
(* The phone book of CPP00/ex01: it has room for a few contacts, the       *)
(* newest in front, and forgets the oldest.  A step is one command.        *)
(***************************************************************************)
EXTENDS Integers, Sequences, FiniteSets

CONSTANTS
  ROOM,               \* the contacts there is room for
  Entered,            \* what may be entered: five texts, the fourth is the number
  Numbers,            \* the texts of digits only, which the empty one is too
  Empty,              \* the empty text
  Asked,              \* the numbers that are asked for
  MaxCommands         \* bounds the commands

VARIABLES
  contacts,           \* [1 .. ROOM -> [text, index]]
  size,
  shown,              \* what the command wrote, if it was a search: <<[table, asked, found]>>
  running,
  entered             \* all that was entered, the latest first

ConstantsAssumption == ROOM \in Nat \ {0} /\ Asked \subseteq Int /\ \A text \in Entered : DOMAIN text = 1 .. 5

vars == <<contacts, size, shown, running, entered>>

Unset == [text |-> <<>>, index |-> 0]

\* createContact()
Filled(text) == (\A k \in DOMAIN text : text[k] # Empty) /\ text[4] \in Numbers

\* addToContactArray(): each moves one place up, the last first, and takes its new number.
shift_forward(i) ==                                    \* mutant: the first is moved first
  [k \in 1 .. ROOM |-> IF k \in 2 .. i + 1 THEN [contacts[1] EXCEPT !.index = k] ELSE contacts[k]]
shift(i) ==
  [k \in 1 .. ROOM |-> IF k \in 2 .. i + 1 THEN [contacts[k - 1] EXCEPT !.index = k] ELSE contacts[k]]

Command == running /\ Len(entered) < MaxCommands

Add(text) ==
  /\ Command /\ Filled(text)
  /\ contacts' = [shift(IF size < ROOM THEN size ELSE ROOM - 1) EXCEPT ![1] = [text |-> text, index |-> 1]]
  /\ size' = IF size < ROOM THEN size + 1 ELSE size
  /\ entered' = <<text>> \o entered
  /\ shown' = <<>> /\ UNCHANGED running

AddFails(text) ==
  /\ Command /\ ~Filled(text)
  /\ entered' = <<text>> \o entered
  /\ shown' = <<>> /\ UNCHANGED <<contacts, size, running>>

\* searchForContact(): a table of all, and the one that is asked for.
Search(n) ==
  /\ running /\ size > 0
  /\ shown' = <<[table |-> [k \in 1 .. size |-> contacts[k]],
                 asked |-> n, found |-> IF n \in 1 .. ROOM /\ n =< size THEN <<contacts[n].text>> ELSE <<>>]>>
  /\ UNCHANGED <<contacts, size, running, entered>>

Exit == running /\ running' = FALSE /\ shown' = <<>> /\ UNCHANGED <<contacts, size, entered>>

Init ==
  /\ contacts = [k \in 1 .. ROOM |-> Unset] /\ size = 0 /\ running = TRUE /\ entered = <<>> /\ shown = <<>>

Next == (\E text \in Entered : Add(text) \/ AddFails(text)) \/ (\E n \in Asked : Search(n)) \/ Exit

Spec == Init /\ [][Next]_vars

-----------------------------------------------------------------------------
\* Where something was entered completely, with a number that is one; the text of the k-th
\* of these, from the latest on.
Good == {i \in DOMAIN entered : entered[i][4] \in Numbers /\ \A k \in 1 .. 5 : entered[i][k] # Empty}
IsLatest(k, text) == \E i \in Good : text = entered[i] /\ k = Cardinality({j \in Good : j =< i})

Holds(k, contact) == contact.index = k /\ IsLatest(k, contact.text)

\* The book has the latest contacts, as many as there is room for; a search numbers them from
\* the latest on, and finds the one that has the number, if there is one
\* (addToContactArray(), searchForContact()).
LatestAreFound ==
  /\ size = IF Cardinality(Good) < ROOM THEN Cardinality(Good) ELSE ROOM
  /\ \A k \in 1 .. size : Holds(k, contacts[k])
  /\ \A s \in {shown[k] : k \in DOMAIN shown} :
       /\ DOMAIN s.table = 1 .. size /\ \A k \in 1 .. size : Holds(k, s.table[k])
       /\ IF s.asked \in 1 .. size THEN Len(s.found) = 1 /\ IsLatest(s.asked, s.found[1]) ELSE s.found = <<>>
=============================================================================
