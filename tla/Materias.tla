------------------------------ MODULE Materias ------------------------------
(***************************************************************************)
(* The ownership of materias in CPP04/ex03: a source learns them and makes *)
(* new ones, a character carries them, and who has one deletes it.  A step *)
(* is one call of a member function, a constructor or a destructor.        *)
(***************************************************************************)
EXTENDS Integers, Sequences, SequencesExt, FiniteSets

CONSTANTS
  Pointers,           \* the memory for materias
  Types, NULL,
  SLOTS, Rooms,       \* m_slots and m_materias have SLOTS places, m_inventory as many as one of Rooms
  Sources, FIRST,     \* the source that is there at the start
  Characters

ConstantsAssumption ==
  /\ NULL \notin Pointers /\ "free" \notin Types /\ IsFiniteSet(Pointers)
  /\ SLOTS \in Nat /\ Rooms \subseteq Nat /\ FIRST \in Sources

VARIABLES
  heap,               \* [Pointers -> a type, or "free"]
  source,             \* [Sources -> [live, materias, inventory]]
  character,          \* [Characters -> [live, slots]]
  hand,               \* the materias the caller has: made, or laid down by a character
  rough,              \* the caller did what these classes cannot bear
  wild                \* memory that is free, unset or outside an object was used

vars == <<heap, source, character, hand, rough, wild>>

Empty(n)    == [k \in 1 .. n |-> NULL]
Held(slots) == {k \in DOMAIN slots : slots[k] # NULL}
FirstFree(slots) == SelectInSeq(slots, LAMBDA p : p = NULL)

Free(h) == {p \in Pointers : h[p] = "free"}
New(h)  == CHOOSE p \in Free(h) : TRUE
MemoryFor(n) == Cardinality(Free(heap)) >= n

\* Every materia in the slots is cloned, each in memory of its own.
Clones(h, slots) == CHOOSE f \in [Held(slots) -> Free(h)] : \A j, k \in Held(slots) : f[j] = f[k] => j = k
Copied(h, slots) ==
  LET clone == Clones(h, slots)
  IN [heap  |-> [p \in Pointers |-> IF \E k \in Held(slots) : clone[k] = p THEN h[slots[CHOOSE k \in Held(slots) : clone[k] = p]] ELSE h[p]],
      slots |-> [k \in DOMAIN slots |-> IF slots[k] = NULL THEN NULL ELSE clone[k]]]

\* Every materia in the slots is deleted, one after the other.
Deleted(h, slots) ==
  [heap  |-> [p \in Pointers |-> IF \E k \in Held(slots) : slots[k] = p THEN "free" ELSE h[p]],
   twice |-> \E k \in Held(slots) : h[slots[k]] = "free" \/ \E j \in Held(slots) : j # k /\ slots[j] = slots[k]]

-----------------------------------------------------------------------------
Make(type) ==
  /\ MemoryFor(1)
  /\ heap' = [heap EXCEPT ![New(heap)] = type] /\ hand' = hand \cup {New(heap)}
  /\ UNCHANGED <<source, character, rough, wild>>

\* A materia that is learnt is kept, and a clone of it is the pattern of createMateria();
\* when nothing more can be kept it is deleted.
learnt_shared(s, m) ==                                 \* mutant: the materia is the pattern itself
  LET k == FirstFree(source[s].inventory)
      i == FirstFree(source[s].materias)
  IN IF k = 0 THEN [heap |-> [heap EXCEPT ![m] = "free"], source |-> source[s]]
     ELSE [heap |-> heap,
           source |-> [source[s] EXCEPT !.inventory[k] = m, !.materias = IF i = 0 THEN @ ELSE [@ EXCEPT ![i] = m]]]
learnt(s, m) ==
  LET k == FirstFree(source[s].inventory)
      i == FirstFree(source[s].materias)
  IN IF k = 0 THEN [heap |-> [heap EXCEPT ![m] = "free"], source |-> source[s]]
     ELSE IF i = 0 THEN [heap |-> heap, source |-> [source[s] EXCEPT !.inventory[k] = m]]
     ELSE [heap |-> [heap EXCEPT ![New(heap)] = heap[m]],
           source |-> [source[s] EXCEPT !.inventory[k] = m, !.materias[i] = New(heap)]]

learnMateria(s, m) ==
  /\ source[s].live /\ m \in hand
  /\ FirstFree(source[s].inventory) = 0 \/ FirstFree(source[s].materias) = 0 \/ MemoryFor(1)
  /\ heap' = learnt(s, m).heap
  /\ source' = [source EXCEPT ![s] = learnt(s, m).source]
  /\ hand' = hand \ {m}
  /\ UNCHANGED <<character, rough, wild>>

createMateria(s, type) ==
  /\ source[s].live /\ MemoryFor(1)
  /\ \E i \in Held(source[s].materias) : heap[source[s].materias[i]] = type
  /\ heap' = [heap EXCEPT ![New(heap)] = type] /\ hand' = hand \cup {New(heap)}
  /\ UNCHANGED <<source, character, rough, wild>>

\* The copy has clones of the patterns, but the kept materias are those of the original.
\* What the target of an assignment kept is forgotten.
CopySource(s, t) ==
  /\ source[s].live /\ ~source[t].live /\ MemoryFor(SLOTS)
  /\ heap' = Copied(heap, source[s].materias).heap
  /\ source' = [source EXCEPT ![t] = [live |-> TRUE, materias |-> Copied(heap, source[s].materias).slots, inventory |-> source[s].inventory]]
  /\ rough' = (rough \/ Held(source[s].inventory) # {})
  /\ UNCHANGED <<character, hand, wild>>

AssignSource(s, t) ==
  /\ s # t /\ source[s].live /\ source[t].live /\ MemoryFor(SLOTS)
  /\ LET freed == Deleted(heap, source[t].materias)
         new   == Copied(freed.heap, source[s].materias)
     IN /\ heap' = new.heap
        /\ source' = [source EXCEPT ![t] = [live |-> TRUE, materias |-> new.slots, inventory |-> source[s].inventory]]
        /\ wild' = freed.twice
  /\ rough' = (rough \/ Held(source[s].inventory) # {} \/ Held(source[t].inventory) # {})
  /\ UNCHANGED <<character, hand>>

DestroySource(s) ==
  /\ source[s].live
  /\ LET freed == Deleted(heap, source[s].materias \o source[s].inventory)
     IN heap' = freed.heap /\ wild' = freed.twice
  /\ source' = [source EXCEPT ![s] = [live |-> FALSE, materias |-> Empty(SLOTS), inventory |-> Empty(Len(source[s].inventory))]]
  /\ UNCHANGED <<character, hand, rough>>

-----------------------------------------------------------------------------
\* A materia for which there is no place stays with the caller, who is not told.
equip(c, m) ==
  /\ character[c].live /\ m \in hand /\ FirstFree(character[c].slots) # 0
  /\ character' = [character EXCEPT ![c].slots[FirstFree(character[c].slots)] = m]
  /\ hand' = hand \ {m}
  /\ UNCHANGED <<heap, source, rough, wild>>

\* idx is one too large if it is SLOTS.
Outside(idx) == idx = SLOTS /\ rough' = TRUE /\ wild' = TRUE /\ UNCHANGED <<heap, source, character, hand>>

unequip(c, idx) ==
  /\ character[c].live
  /\ \/ Outside(idx)
     \/ /\ idx + 1 \in Held(character[c].slots)
        /\ hand' = hand \cup {character[c].slots[idx + 1]}
        /\ character' = [character EXCEPT ![c].slots[idx + 1] = NULL]
        /\ UNCHANGED <<heap, source, rough, wild>>

use(c, idx) ==
  /\ character[c].live
  /\ \/ Outside(idx)
     \/ /\ idx + 1 \in Held(character[c].slots)
        /\ wild' = (heap[character[c].slots[idx + 1]] = "free")
        /\ UNCHANGED <<heap, source, character, hand, rough>>

\* The slots of the target are deleted while those of the original, which may be the same
\* or NULL, are cloned.
AssignCharacter(c, d) ==
  /\ character[c].live /\ character[d].live /\ MemoryFor(SLOTS)
  /\ IF c = d \/ Held(character[c].slots) # 1 .. SLOTS
     THEN rough' = TRUE /\ wild' = TRUE /\ UNCHANGED <<heap, character>>
     ELSE LET freed == Deleted(heap, character[d].slots)
              new   == Copied(freed.heap, character[c].slots)
          IN /\ heap' = new.heap /\ character' = [character EXCEPT ![d].slots = new.slots]
             /\ wild' = freed.twice /\ rough' = rough
  /\ UNCHANGED <<source, hand>>

\* The slots of the copy are deleted before they are set: that is nothing if they happen to be 0.
CopyCharacter(c, d) ==
  /\ character[c].live /\ ~character[d].live /\ MemoryFor(SLOTS)
  /\ rough' = TRUE
  /\ \/ wild' = TRUE /\ UNCHANGED <<heap, character>>
     \/ /\ Held(character[c].slots) = 1 .. SLOTS
        /\ heap' = Copied(heap, character[c].slots).heap
        /\ character' = [character EXCEPT ![d] = [live |-> TRUE, slots |-> Copied(heap, character[c].slots).slots]]
        /\ wild' = wild
  /\ UNCHANGED <<source, hand>>

NewCharacter(c) ==
  /\ ~character[c].live
  /\ character' = [character EXCEPT ![c].live = TRUE]
  /\ UNCHANGED <<heap, source, hand, rough, wild>>

DestroyCharacter(c) ==
  /\ character[c].live
  /\ LET freed == Deleted(heap, character[c].slots) IN heap' = freed.heap /\ wild' = freed.twice
  /\ character' = [character EXCEPT ![c] = [live |-> FALSE, slots |-> Empty(SLOTS)]]
  /\ UNCHANGED <<source, hand, rough>>

-----------------------------------------------------------------------------
Init ==
  /\ heap = [p \in Pointers |-> "free"]
  /\ \E room \in Rooms :
       source = [s \in Sources |-> [live |-> s = FIRST, materias |-> Empty(SLOTS), inventory |-> Empty(room)]]
  /\ character = [c \in Characters |-> [live |-> FALSE, slots |-> Empty(SLOTS)]]
  /\ hand = {} /\ rough = FALSE /\ wild = FALSE

\* A caller that was rough ends: what it could do then would tell nothing more.
End == (\E s \in Sources : DestroySource(s)) \/ (\E c \in Characters : DestroyCharacter(c))

OfSource ==
  \E s \in Sources :
    \/ \E m \in Pointers : learnMateria(s, m)
    \/ \E type \in Types : createMateria(s, type)
    \/ \E t \in Sources : CopySource(s, t) \/ AssignSource(s, t)

OfCharacter ==
  \E c \in Characters :
    \/ \E m \in Pointers : equip(c, m)
    \/ \E idx \in 0 .. SLOTS : unequip(c, idx) \/ use(c, idx)
    \/ \E d \in Characters : AssignCharacter(c, d) \/ CopyCharacter(c, d)
    \/ NewCharacter(c)

Next == ~wild /\ (End \/ (~rough /\ ((\E type \in Types : Make(type)) \/ OfSource \/ OfCharacter)))

Spec == Init /\ [][Next]_vars

-----------------------------------------------------------------------------
\* Where a materia can be held: by the caller, who has any number of them, or in a place of an object.
Places ==
  ({"hand"} \X Pointers \X {0}) \cup ({"materias"} \X Sources \X (1 .. SLOTS))
  \cup ({"inventory"} \X Sources \X UNION {1 .. n : n \in Rooms}) \cup ({"slots"} \X Characters \X (1 .. SLOTS))

At(x) ==
  CASE x[1] = "hand"      -> IF x[2] \in hand THEN x[2] ELSE NULL
    [] x[1] = "materias"  -> source[x[2]].materias[x[3]]
    [] x[1] = "inventory" -> IF x[3] \in DOMAIN source[x[2]].inventory THEN source[x[2]].inventory[x[3]] ELSE NULL
    [] x[1] = "slots"     -> character[x[2]].slots[x[3]]

Owners(p) == {x \in Places : At(x) = p}

\* Every materia there is has one owner, and a materia that is gone has none,
\* so none is deleted twice or used after it was deleted and none is lost: for every caller that
\* copies no source which has learnt something, copies characters only by assigning one
\* whose slots are all full to another, and uses no index of SLOTS (MateriaSource, Character).
MateriasAreOwned ==
  ~rough => ~wild /\ \A p \in Pointers : IF heap[p] = "free" THEN Owners(p) = {} ELSE \E x \in Owners(p) : Owners(p) = {x}
=============================================================================
