-------------------------- MODULE Programs_proofs --------------------------
(* Proofs about programs that run alone: the variables of the shell             *)
(* (Environment), for any names and values; the forms of CPP05 (Forms), for any *)
(* bureaucrats, papers and kinds; the materias of CPP04 (Materias), for any     *)
(* objects, places and memory; the game of so_long (SoLong), for any maps; the  *)
(* phone book of CPP00 (PhoneBook), for any room; the calculator of CPP09       *)
(* (Calculator), for any expressions.                                           *)
EXTENDS Environment, FiniteSetTheorems, WellFoundedInduction, TLAPS

-----------------------------------------------------------------------------
\* Every set of numbers has a least one.
LEMMA LeastOf ==
  ASSUME NEW T \in SUBSET Nat, T # {}
  PROVE  \E n \in T : \A m \in T : n =< m
<1>1. PICK n \in T : \A m \in T : ~(<<m, n>> \in OpToRel(<, Nat))
  BY NatLessThanWellFounded, WFMin
<1>2. ASSUME NEW m \in T PROVE ~(m < n)
  <2>1. n \in Nat /\ m \in Nat /\ ~(<<m, n>> \in OpToRel(<, Nat))
    BY <1>1
  <2> QED BY <2>1, Zenon DEF OpToRel
<1>3. \A m \in T : n =< m
  BY <1>2
<1> QED BY <1>3

-----------------------------------------------------------------------------
(* Where a variable is in a list of entries that all have values.               *)

Clean(list) == list \in Seq(Set)

\* The entry that is seen of a variable.
Seen(list, n, i) ==
  /\ i \in 1 .. Len(list)
  /\ list[i].name = n
  /\ \A j \in 1 .. i - 1 : list[j].name # n
Lacks(list, n)  == \A i \in 1 .. Len(list) : list[i].name # n

\* The values of the entries for a variable, but for one.
Others(list, n, i) == {list[j].value : j \in {j \in 1 .. Len(list) : list[j].name = n /\ j # i}}

\* A key is found in the first entry that begins with it.
LEMMA FirstFound ==
  ASSUME NEW list, Len(list) \in Nat, NEW k
  PROVE  \/ Position(list, k) = 0 /\ ~Present(list, k) /\ \A j \in 1 .. Len(list) : ~Begins(list[j], k)
         \/ /\ Position(list, k) \in 1 .. Len(list) /\ Present(list, k) /\ Begins(list[Position(list, k)], k)
            /\ \A j \in 1 .. Position(list, k) - 1 : ~Begins(list[j], k)
<1> DEFINE I == {j \in 1 .. Len(list) : Begins(list[j], k)}
<1>1. Position(list, k) = IF I # {} THEN Min(I) ELSE 0
  BY Zenon DEF Position, SelectInSeq
<1>2. CASE I = {}
  <2>1. \A j \in 1 .. Len(list) : ~Begins(list[j], k)
    BY <1>2
  <2>2. Position(list, k) = 0
    <3> HIDE DEF I
    <3> QED BY <1>1, <1>2
  <2> QED BY <2>1, <2>2 DEF Present
<1>3. CASE I # {}
  <2>1. PICK n \in I : \A m \in I : n =< m
    <3>1. I \in SUBSET Nat
      OBVIOUS
    <3> HIDE DEF I
    <3> QED BY <1>3, <3>1, LeastOf
  <2>2. Min(I) \in I /\ \A m \in I : Min(I) =< m
    <3> HIDE DEF I
    <3> QED BY <2>1, Zenon DEF Min
  <2>3. Position(list, k) \in I /\ \A m \in I : Position(list, k) =< m
    <3> HIDE DEF I
    <3> QED BY <1>1, <1>3, <2>2
  <2>4. \A j \in 1 .. Position(list, k) - 1 : ~Begins(list[j], k)
    BY <2>3
  <2> QED BY <2>3, <2>4 DEF Present
<1> QED BY <1>2, <1>3

\* It is found where nothing before begins with it.
LEMMA FoundAt ==
  ASSUME NEW list, Len(list) \in Nat, NEW k, NEW i \in 1 .. Len(list), Begins(list[i], k),
         \A j \in 1 .. i - 1 : ~Begins(list[j], k)
  PROVE  Position(list, k) = i /\ Present(list, k)
<1>1. /\ Position(list, k) \in 1 .. Len(list) /\ Present(list, k) /\ Begins(list[Position(list, k)], k)
      /\ \A j \in 1 .. Position(list, k) - 1 : ~Begins(list[j], k)
  BY FirstFound
<1>2. ~(Position(list, k) < i)
  BY <1>1
<1>3. ~(i < Position(list, k))
  BY <1>1
<1> QED BY <1>1, <1>2, <1>3

\* An entry of such a list begins with "NAME=" when it is one for the name.
LEMMA KeyIsName ==
  ASSUME ConstantsAssumption, NEW list, Clean(list), NEW n, NEW i \in 1 .. Len(list)
  PROVE  Begins(list[i], Key(n)) <=> list[i].name = n
<1>1. list[i] \in Set
  BY DEF Clean
<1>2. list[i].value \in Values
  BY <1>1 DEF Set
<1> QED BY <1>2 DEF Begins, Key

\* A variable is not in the list, or one of its entries is seen.
LEMMA SeenOrNot ==
  ASSUME ConstantsAssumption, NEW list, Clean(list), NEW n
  PROVE  Lacks(list, n) \/ \E i \in 1 .. Len(list) : Seen(list, n, i)
<1> DEFINE p == Position(list, Key(n))
<1>1. Len(list) \in Nat
  BY DEF Clean
<1>2. CASE \A j \in 1 .. Len(list) : ~Begins(list[j], Key(n))
  BY <1>2, KeyIsName DEF Lacks
<1>3. CASE /\ p \in 1 .. Len(list) /\ Begins(list[p], Key(n))
           /\ \A j \in 1 .. p - 1 : ~Begins(list[j], Key(n))
  <2>1. list[p].name = n
    BY <1>3, KeyIsName
  <2>2. ASSUME NEW j \in 1 .. p - 1 PROVE list[j].name # n
    <3>1. j \in 1 .. Len(list)
      BY <1>1, <1>3
    <3> QED BY <1>3, <3>1, KeyIsName
  <2>3. Seen(list, n, p)
    BY <1>3, <2>1, <2>2 DEF Seen
  <2> QED BY <1>3, <2>3
<1> QED BY <1>1, <1>2, <1>3, FirstFound

\* value_finder() finds the value of the entry that is seen, and NULL when there is none.
LEMMA Looked ==
  ASSUME ConstantsAssumption, NEW list, Clean(list), NEW n
  PROVE  /\ Lacks(list, n) => Value(list, n) = NULL /\ ~Present(list, Key(n)) /\ Rest(list, n) = {}
         /\ \A i \in 1 .. Len(list) : Seen(list, n, i) =>
              /\ Value(list, n) = list[i].value /\ Position(list, Key(n)) = i /\ Present(list, Key(n))
              /\ Value(list, n) \in Values /\ Value(list, n) # NULL /\ Rest(list, n) = Others(list, n, i)
<1>0. Len(list) \in Nat
  BY DEF Clean
<1>1. ASSUME Lacks(list, n) PROVE Value(list, n) = NULL /\ ~Present(list, Key(n)) /\ Rest(list, n) = {}
  <2>1. \A j \in 1 .. Len(list) : ~Begins(list[j], Key(n))
    BY <1>1, KeyIsName DEF Lacks
  <2>2. ~Present(list, Key(n))
    <3>1. ~(Position(list, Key(n)) \in 1 .. Len(list) /\ Begins(list[Position(list, Key(n))], Key(n)))
      BY <2>1
    <3> QED BY <1>0, <3>1, FirstFound
  <2>3. Rest(list, n) = {}
    BY <2>1 DEF Rest
  <2> QED BY <2>2, <2>3 DEF Value
<1>2. ASSUME NEW i \in 1 .. Len(list), Seen(list, n, i)
      PROVE  /\ Value(list, n) = list[i].value /\ Position(list, Key(n)) = i /\ Present(list, Key(n))
             /\ Value(list, n) \in Values /\ Value(list, n) # NULL /\ Rest(list, n) = Others(list, n, i)
  <2>1. list[i] \in Set
    BY DEF Clean
  <2>2. Begins(list[i], Key(n))
    BY <1>2, KeyIsName DEF Seen
  <2>3. ASSUME NEW j \in 1 .. i - 1 PROVE ~Begins(list[j], Key(n))
    <3>1. j \in 1 .. Len(list) /\ list[j].name # n
      BY <1>0, <1>2 DEF Seen
    <3> QED BY <3>1, KeyIsName
  <2>4. Position(list, Key(n)) = i /\ Present(list, Key(n))
    BY <1>0, <2>2, <2>3, FoundAt
  <2>5. list[i].value \in Values /\ list[i].value # NULL
    BY <2>1 DEF Set, ConstantsAssumption
  <2>6. {j \in 1 .. Len(list) : Begins(list[j], Key(n)) /\ j # Position(list, Key(n))}
          = {j \in 1 .. Len(list) : list[j].name = n /\ j # i}
    BY <2>4, KeyIsName
  <2>7. Rest(list, n) = Others(list, n, i)
    BY <2>6, Zenon DEF Rest, Others
  <2> QED BY <2>4, <2>5, <2>7 DEF Value
<1> QED BY <1>1, <1>2

\* A key for a variable, with the beginning of a value or without.
IsKey(k, n) == k.name = n /\ k.eq /\ k.fits \subseteq Values

\* What the list says of the variables after a value v is added with the key k for n:
\* the value takes the place of the one that is seen, or waits behind it.
Stored(list, new, k, n, v) ==
  /\ Clean(new)
  /\ \A m : m # n => Value(new, m) = Value(list, m) /\ Rest(new, m) = Rest(list, m)
  /\ Value(list, n) \in k.fits \cup {NULL} => Value(new, n) = v /\ Rest(new, n) = Rest(list, n)
  /\ Value(list, n) \notin k.fits \cup {NULL} =>
       /\ Value(new, n) = Value(list, n) /\ v \in Rest(new, n)
       /\ Rest(new, n) \subseteq Rest(list, n) \cup {v}
       /\ Rest(list, n) \ k.fits \subseteq Rest(new, n)

\* An entry is replaced.
LEMMA ReplacedIs ==
  ASSUME ConstantsAssumption, NEW list, Clean(list), NEW n \in AllNames, NEW v \in Values, NEW k, IsKey(k, n),
         NEW p \in 1 .. Len(list), Begins(list[p], k), \A j \in 1 .. p - 1 : ~Begins(list[j], k),
         NEW new, new = [list EXCEPT ![p] = Entry(n, v)]
  PROVE  Stored(list, new, k, n, v)
<1>1. Len(list) \in Nat /\ list \in Seq(Set) /\ Entry(n, v) \in Set /\ Entry(n, v).name = n /\ Entry(n, v).value = v
  BY DEF Clean, Entry, Set
<1>2. /\ new \in Seq(Set) /\ Len(new) = Len(list) /\ new[p].value = v
      /\ \A j \in 1 .. Len(list) : j # p => new[j] = list[j]
  BY <1>1
<1>3. list[p].name = n /\ list[p].value \in k.fits
  BY DEF Begins, IsKey
<1>4. \A j \in 1 .. Len(list) : new[j].name = list[j].name
  BY <1>1, <1>2, <1>3
<1>5. Clean(new)
  BY <1>2 DEF Clean
<1>6. ASSUME NEW m, NEW i \in 1 .. Len(list), Seen(list, m, i) PROVE Seen(new, m, i)
  <2>1. i \in 1 .. Len(new) /\ new[i].name = m
    BY <1>2, <1>4, <1>6 DEF Seen
  <2>2. ASSUME NEW j \in 1 .. i - 1 PROVE new[j].name # m
    <3>1. j \in 1 .. Len(list) /\ list[j].name # m
      BY <1>1, <1>6 DEF Seen
    <3> QED BY <1>4, <3>1
  <2> QED BY <2>1, <2>2 DEF Seen
<1>7. ASSUME NEW m, NEW i \in 1 .. Len(list), i = p \/ m # n PROVE Others(new, m, i) = Others(list, m, i)
  <2>1. {j \in 1 .. Len(new) : new[j].name = m /\ j # i} = {j \in 1 .. Len(list) : list[j].name = m /\ j # i}
    BY <1>2, <1>4
  <2>2. \A j \in {j \in 1 .. Len(list) : list[j].name = m /\ j # i} : new[j].value = list[j].value
    BY <1>2, <1>3, <1>7
  <2> QED BY <2>1, <2>2 DEF Others
<1>8. ASSUME NEW m, m # n PROVE Value(new, m) = Value(list, m) /\ Rest(new, m) = Rest(list, m)
  <2>1. CASE Lacks(list, m)
    <3>1. Lacks(new, m)
      BY <1>2, <1>4, <2>1 DEF Lacks
    <3> QED BY <1>5, <2>1, <3>1, Looked
  <2>2. CASE \E i \in 1 .. Len(list) : Seen(list, m, i)
    <3>1. PICK i \in 1 .. Len(list) : Seen(list, m, i)
      BY <2>2
    <3>2. Seen(new, m, i) /\ i \in 1 .. Len(new)
      BY <1>2, <1>6, <3>1
    <3>3. i # p /\ new[i] = list[i]
      BY <1>2, <1>3, <1>8, <3>1 DEF Seen
    <3>4. Others(new, m, i) = Others(list, m, i)
      BY <1>7, <1>8
    <3> QED BY <1>5, <3>1, <3>2, <3>3, <3>4, Looked
  <2> QED BY <2>1, <2>2, SeenOrNot
<1>9. PICK q \in 1 .. Len(list) : Seen(list, n, q)
  <2>1. ~Lacks(list, n)
    BY <1>3 DEF Lacks
  <2> QED BY <2>1, SeenOrNot
<1>10. /\ Value(list, n) = list[q].value /\ Value(list, n) # NULL /\ Rest(list, n) = Others(list, n, q)
       /\ Value(new, n) = new[q].value /\ Rest(new, n) = Others(new, n, q)
  <2>1. Seen(new, n, q) /\ q \in 1 .. Len(new)
    BY <1>2, <1>6, <1>9
  <2> QED BY <1>5, <1>9, <2>1, Looked
<1>11. CASE q = p
  <2>1. Rest(new, n) = Rest(list, n)
    BY <1>7, <1>10, <1>11
  <2>2. Value(new, n) = v /\ Value(list, n) \in k.fits
    BY <1>2, <1>3, <1>10, <1>11
  <2> QED BY <1>5, <1>8, <2>1, <2>2 DEF Stored
<1>12. CASE q # p
  <2>1. q < p
    <3>1. ~(p < q)
      BY <1>3, <1>9 DEF Seen
    <3> QED BY <1>12, <3>1
  <2>2. list[q].value \notin k.fits
    <3>1. q \in 1 .. p - 1
      BY <2>1
    <3>2. ~Begins(list[q], k)
      BY <3>1
    <3> QED BY <1>9, <3>2 DEF Begins, IsKey, Seen
  <2>3. Value(list, n) \notin k.fits \cup {NULL}
    BY <1>10, <2>2
  <2>4. Value(new, n) = Value(list, n)
    BY <1>2, <1>10, <1>12
  <2>5. v \in Others(new, n, q)
    <3>1. p \in 1 .. Len(new) /\ new[p].name = n /\ p # q /\ new[p].value = v
      BY <1>2, <1>3, <1>4, <1>12
    <3> QED BY <3>1 DEF Others
  <2>6. Others(new, n, q) \subseteq Others(list, n, q) \cup {v}
    <3> SUFFICES ASSUME NEW j \in 1 .. Len(new), new[j].name = n, j # q, j # p PROVE new[j].value \in Others(list, n, q)
      BY <1>2 DEF Others
    <3>1. j \in 1 .. Len(list) /\ list[j].name = n /\ new[j].value = list[j].value
      BY <1>2, <1>4
    <3> QED BY <3>1 DEF Others
  <2>7. Others(list, n, q) \ k.fits \subseteq Others(new, n, q)
    <3> SUFFICES ASSUME NEW j \in 1 .. Len(list), list[j].name = n, j # q, list[j].value \notin k.fits
                 PROVE  list[j].value \in Others(new, n, q)
      BY DEF Others
    <3>1. j # p
      BY <1>3
    <3>2. j \in 1 .. Len(new) /\ new[j].name = n /\ new[j].value = list[j].value
      BY <1>2, <1>4, <3>1
    <3> QED BY <3>2 DEF Others
  <2> QED BY <1>5, <1>8, <1>10, <2>3, <2>4, <2>5, <2>6, <2>7 DEF Stored
<1> QED BY <1>11, <1>12

\* An entry is put at the end.
LEMMA AppendedIs ==
  ASSUME ConstantsAssumption, NEW list, Clean(list), NEW n \in AllNames, NEW v \in Values, NEW k, IsKey(k, n),
         \A j \in 1 .. Len(list) : ~Begins(list[j], k),
         NEW new, new = Append(list, Entry(n, v))
  PROVE  Stored(list, new, k, n, v)
<1> DEFINE z == Len(list) + 1
<1>1. Len(list) \in Nat /\ list \in Seq(Set) /\ Entry(n, v) \in Set /\ Entry(n, v).name = n /\ Entry(n, v).value = v
  BY DEF Clean, Entry, Set
<1>2. /\ new \in Seq(Set) /\ Len(new) = z /\ new[z].name = n /\ new[z].value = v
      /\ \A j \in 1 .. Len(list) : new[j] = list[j]
      /\ \A j \in 1 .. Len(new) : j \in 1 .. Len(list) \/ j = z
  BY <1>1
<1>3. Clean(new)
  BY <1>2 DEF Clean
<1>4. ASSUME NEW m, NEW i \in 1 .. Len(list), Seen(list, m, i) PROVE i \in 1 .. Len(new) /\ Seen(new, m, i)
  <2>1. i \in 1 .. Len(new) /\ new[i].name = m
    BY <1>1, <1>2, <1>4 DEF Seen
  <2>2. ASSUME NEW j \in 1 .. i - 1 PROVE new[j].name # m
    <3>1. j \in 1 .. Len(list) /\ list[j].name # m
      BY <1>1, <1>4 DEF Seen
    <3> QED BY <1>2, <3>1
  <2> QED BY <2>1, <2>2 DEF Seen
<1>5. ASSUME NEW m, NEW i \in 1 .. Len(list), m # n PROVE Others(new, m, i) = Others(list, m, i)
  <2>1. {j \in 1 .. Len(new) : new[j].name = m /\ j # i} = {j \in 1 .. Len(list) : list[j].name = m /\ j # i}
    BY <1>1, <1>2, <1>5
  <2> QED BY <1>2, <2>1 DEF Others
<1>6. ASSUME NEW m, m # n PROVE Value(new, m) = Value(list, m) /\ Rest(new, m) = Rest(list, m)
  <2>1. CASE Lacks(list, m)
    <3>1. Lacks(new, m)
      BY <1>2, <1>6, <2>1 DEF Lacks
    <3> QED BY <1>3, <2>1, <3>1, Looked
  <2>2. CASE \E i \in 1 .. Len(list) : Seen(list, m, i)
    <3>1. PICK i \in 1 .. Len(list) : Seen(list, m, i)
      BY <2>2
    <3>2. Seen(new, m, i) /\ i \in 1 .. Len(new)
      BY <1>4, <3>1
    <3>3. Others(new, m, i) = Others(list, m, i)
      BY <1>5, <1>6
    <3> QED BY <1>2, <1>3, <3>1, <3>2, <3>3, Looked
  <2> QED BY <2>1, <2>2, SeenOrNot
<1>7. CASE Lacks(list, n)
  <2>1. Value(list, n) = NULL /\ Rest(list, n) = {}
    BY <1>7, Looked
  <2>2. z \in 1 .. Len(new) /\ Seen(new, n, z)
    <3>1. z \in 1 .. Len(new) /\ z - 1 = Len(list)
      BY <1>1, <1>2
    <3>2. \A j \in 1 .. Len(list) : new[j].name # n
      BY <1>2, <1>7 DEF Lacks
    <3> QED BY <1>2, <3>1, <3>2 DEF Seen
  <2>3. Others(new, n, z) = {}
    <3>1. \A j \in 1 .. Len(new) : ~(new[j].name = n /\ j # z)
      BY <1>2, <1>7 DEF Lacks
    <3> QED BY <3>1 DEF Others
  <2>4. Value(new, n) = v /\ Rest(new, n) = {}
    BY <1>2, <1>3, <2>2, <2>3, Looked
  <2> QED BY <1>3, <1>6, <2>1, <2>4 DEF Stored
<1>8. CASE \E q \in 1 .. Len(list) : Seen(list, n, q)
  <2>1. PICK q \in 1 .. Len(list) : Seen(list, n, q)
    BY <1>8
  <2>2. q \in 1 .. Len(new) /\ Seen(new, n, q)
    BY <1>4, <2>1
  <2>3. /\ Value(list, n) = list[q].value /\ Value(list, n) # NULL /\ Rest(list, n) = Others(list, n, q)
        /\ Value(new, n) = new[q].value /\ Rest(new, n) = Others(new, n, q)
    BY <1>3, <2>1, <2>2, Looked
  <2>4. list[q].value \notin k.fits
    BY <2>1 DEF Begins, IsKey, Seen
  <2>5. q # z /\ z \in 1 .. Len(new)
    BY <1>1, <1>2
  <2>6. v \in Others(new, n, q)
    BY <1>2, <2>5 DEF Others
  <2>7. Others(new, n, q) \subseteq Others(list, n, q) \cup {v}
    <3> SUFFICES ASSUME NEW j \in 1 .. Len(new), new[j].name = n, j # q, j # z PROVE new[j].value \in Others(list, n, q)
      BY <1>2 DEF Others
    <3>1. j \in 1 .. Len(list) /\ new[j] = list[j]
      BY <1>2
    <3> QED BY <3>1 DEF Others
  <2>8. Others(list, n, q) \subseteq Others(new, n, q)
    <3> SUFFICES ASSUME NEW j \in 1 .. Len(list), list[j].name = n, j # q PROVE list[j].value \in Others(new, n, q)
      BY DEF Others
    <3>1. j \in 1 .. Len(new) /\ new[j] = list[j]
      BY <1>1, <1>2
    <3> QED BY <3>1 DEF Others
  <2>9. Value(list, n) \notin k.fits \cup {NULL} /\ Value(new, n) = Value(list, n)
    BY <1>2, <2>3, <2>4
  <2>10. /\ v \in Rest(new, n) /\ Rest(new, n) \subseteq Rest(list, n) \cup {v}
         /\ Rest(list, n) \ k.fits \subseteq Rest(new, n)
    BY <2>3, <2>6, <2>7, <2>8
  <2> QED BY <1>3, <1>6, <2>9, <2>10 DEF Stored
<1> QED BY <1>7, <1>8, SeenOrNot

\* add_to_multi()
LEMMA AddedIs ==
  ASSUME ConstantsAssumption, NEW list, Clean(list), NEW n \in AllNames, NEW v \in Values, NEW k, IsKey(k, n),
         NEW new, new = Added(list, k, v)
  PROVE  Stored(list, new, k, n, v)
<1>1. Len(list) \in Nat /\ k.name = n
  BY DEF Clean, IsKey
<1>2. CASE \A j \in 1 .. Len(list) : ~Begins(list[j], k)
  <2>1. ~Present(list, k)
    <3>1. ~(Position(list, k) \in 1 .. Len(list) /\ Begins(list[Position(list, k)], k))
      BY <1>2
    <3> QED BY <1>1, <3>1, FirstFound
  <2>2. new = Append(list, Entry(n, v))
    BY <1>1, <2>1 DEF Added
  <2> QED BY <1>2, <2>2, AppendedIs
<1>3. CASE /\ Position(list, k) \in 1 .. Len(list) /\ Present(list, k) /\ Begins(list[Position(list, k)], k)
           /\ \A j \in 1 .. Position(list, k) - 1 : ~Begins(list[j], k)
  <2>1. new = [list EXCEPT ![Position(list, k)] = Entry(n, v)]
    BY <1>1, <1>3 DEF Added
  <2> QED BY <1>3, <2>1, ReplacedIs
<1> QED BY <1>1, <1>2, <1>3, FirstFound

\* Without the beginning of a value the value that is seen is replaced.
LEMMA AddedValue ==
  ASSUME ConstantsAssumption, NEW list, Clean(list), NEW n \in AllNames, NEW v \in Values, NEW new, new = Added(list, Key(n), v)
  PROVE  /\ Clean(new)
         /\ \A m : Value(new, m) = (IF m = n THEN v ELSE Value(list, m)) /\ Rest(new, m) = Rest(list, m)
<1>1. IsKey(Key(n), n) /\ Key(n).fits = Values
  BY DEF IsKey, Key
<1>2. PICK k : k = Key(n)
  OBVIOUS
<1>3. Stored(list, new, k, n, v)
  BY <1>1, <1>2, AddedIs
<1>4. Value(list, n) \in Values \cup {NULL}
  BY SeenOrNot, Looked
<1> QED BY <1>1, <1>2, <1>3, <1>4 DEF Stored

\* The entries before and behind one.
Without(list, p) == CopyFrom(list, 0, p - 1) \o CopyFrom(list, p, Len(list))

LEMMA WithoutOne ==
  ASSUME NEW S, NEW list \in Seq(S), NEW p \in 1 .. Len(list), NEW new, new = Without(list, p)
  PROVE  /\ new \in Seq(S) /\ Len(new) = Len(list) - 1
         /\ \A i \in 1 .. p - 1 : new[i] = list[i]
         /\ \A i \in p .. Len(list) - 1 : new[i] = list[i + 1]
<1> DEFINE x == SubSeq(list, 1, p - 1)
           y == SubSeq(list, p + 1, Len(list))
<1>1. p \in Nat /\ Len(list) \in Nat /\ p =< Len(list) /\ 0 + 1 = 1
  OBVIOUS
<1>2. x \in Seq(S) /\ Len(x) = p - 1 /\ \A i \in 1 .. p - 1 : x[i] = list[i]
  OBVIOUS
<1>3. y \in Seq(S) /\ Len(y) = Len(list) - p /\ \A i \in 1 .. Len(list) - p : y[i] = list[i + p]
  OBVIOUS
<1>4. new = x \o y
  BY <1>1 DEF Without, CopyFrom
<1> HIDE DEF x, y
<1>5. PICK u \in Seq(S), v \in Seq(S) : u = x /\ v = y
  BY <1>2, <1>3
<1>6. Len(u \o v) = Len(u) + Len(v) /\ \A i \in 1 .. Len(u) + Len(v) : (u \o v)[i] = IF i =< Len(u) THEN u[i] ELSE v[i - Len(u)]
  OBVIOUS
<1>7. new = u \o v /\ Len(u) = p - 1 /\ Len(v) = Len(list) - p
  BY <1>2, <1>3, <1>4, <1>5
<1>8. new \in Seq(S) /\ Len(new) = Len(list) - 1
  <2>1. u \o v \in Seq(S)
    OBVIOUS
  <2>2. Len(new) = p - 1 + (Len(list) - p)
    BY <1>6, <1>7
  <2> QED BY <1>1, <1>7, <2>1, <2>2
<1>9. ASSUME NEW i \in 1 .. p - 1 PROVE new[i] = list[i]
  <2>1. i \in 1 .. Len(u) + Len(v) /\ i =< Len(u)
    BY <1>1, <1>7
  <2>2. new[i] = u[i]
    BY <1>6, <1>7, <2>1
  <2> QED BY <1>2, <1>5, <2>2
<1>10. ASSUME NEW i \in p .. Len(list) - 1 PROVE new[i] = list[i + 1]
  <2>1. new[i] = y[i - (p - 1)]
    <3>1. i \in 1 .. Len(u) + Len(v) /\ ~(i =< Len(u))
      BY <1>1, <1>7
    <3>2. new[i] = v[i - Len(u)]
      BY <1>6, <1>7, <3>1
    <3> QED BY <1>5, <1>7, <3>2
  <2>2. i - (p - 1) \in 1 .. Len(list) - p /\ i - (p - 1) + p = i + 1
    BY <1>1
  <2> QED BY <1>3, <2>1, <2>2
<1> QED BY <1>8, <1>9, <1>10

\* What the list says of the variables after the entry that is seen of n is taken out:
\* the next of its entries is seen.
Withdrawn(list, new, n) ==
  /\ Clean(new)
  /\ \A m : m # n => Value(new, m) = Value(list, m) /\ Rest(new, m) = Rest(list, m)
  /\ Rest(list, n) = {} => Value(new, n) = NULL /\ Rest(new, n) = {}
  /\ Rest(list, n) # {} => Rest(list, n) = {Value(new, n)} \cup Rest(new, n)

LEMMA RemovedValue ==
  ASSUME ConstantsAssumption, NEW list, Clean(list), NEW n,
         \A i \in 1 .. Len(list) : IsPrefix(n, list[i].name) <=> list[i].name = n,
         NEW new, new = Removed(list, Bare(n))
  PROVE  Withdrawn(list, new, n)
<1>1. list \in Seq(Set) /\ Len(list) \in Nat
  BY DEF Clean
<1>2. \A i \in 1 .. Len(list) : Begins(list[i], Bare(n)) <=> list[i].name = n
  BY DEF Begins, Bare
<1>3. CASE Lacks(list, n)
  <2>1. \A i \in 1 .. Len(list) : ~Begins(list[i], Bare(n))
    BY <1>2, <1>3 DEF Lacks
  <2>2. ~Present(list, Bare(n))
    <3>1. ~(Position(list, Bare(n)) \in 1 .. Len(list) /\ Begins(list[Position(list, Bare(n))], Bare(n)))
      BY <2>1
    <3> QED BY <1>1, <3>1, FirstFound
  <2>3. new = list
    BY <2>2 DEF Removed
  <2> QED BY <1>3, <2>3, Looked DEF Withdrawn
<1>4. CASE \E p \in 1 .. Len(list) : Seen(list, n, p)
  <2>1. PICK p \in 1 .. Len(list) : Seen(list, n, p)
    BY <1>4
  <2>2. Position(list, Bare(n)) = p /\ Present(list, Bare(n))
    <3>1. \A j \in 1 .. p - 1 : j \in 1 .. Len(list)
      BY <1>1
    <3>2. Begins(list[p], Bare(n)) /\ \A j \in 1 .. p - 1 : ~Begins(list[j], Bare(n))
      BY <1>2, <2>1, <3>1 DEF Seen
    <3> QED BY <1>1, <3>2, FoundAt
  <2>3. new = Without(list, p)
    BY <2>2 DEF Removed, Without
  <2>4. /\ new \in Seq(Set) /\ Len(new) = Len(list) - 1
        /\ \A i \in 1 .. p - 1 : new[i] = list[i]
        /\ \A i \in p .. Len(list) - 1 : new[i] = list[i + 1]
    BY <1>1, <2>3, WithoutOne
  <2> DEFINE at(i) == IF i < p THEN i ELSE i + 1
  <2>5. \A i \in 1 .. Len(new) : at(i) \in 1 .. Len(list) /\ at(i) # p /\ new[i] = list[at(i)]
    <3> SUFFICES ASSUME NEW i \in 1 .. Len(new) PROVE at(i) \in 1 .. Len(list) /\ at(i) # p /\ new[i] = list[at(i)]
      OBVIOUS
    <3>1. CASE i < p
      <4>1. i \in 1 .. p - 1 /\ i \in 1 .. Len(list) /\ i # p /\ at(i) = i
        BY <1>1, <2>1, <2>4, <3>1
      <4> QED BY <2>4, <4>1
    <3>2. CASE ~(i < p)
      <4>1. i \in p .. Len(list) - 1 /\ i + 1 \in 1 .. Len(list) /\ i + 1 # p /\ at(i) = i + 1
        BY <1>1, <2>1, <2>4, <3>2
      <4> QED BY <2>4, <4>1
    <3> QED BY <3>1, <3>2
  <2>6. \A i, j \in 1 .. Len(new) : i < j => at(i) < at(j)
    BY <1>1, <2>1, <2>4
  <2>7. \A j \in 1 .. Len(list) : j # p => \E i \in 1 .. Len(new) : at(i) = j
    <3> SUFFICES ASSUME NEW j \in 1 .. Len(list), j # p PROVE \E i \in 1 .. Len(new) : at(i) = j
      OBVIOUS
    <3>1. CASE j < p
      BY <1>1, <2>1, <2>4, <3>1
    <3>2. CASE j > p
      <4>1. j - 1 \in 1 .. Len(new) /\ at(j - 1) = j
        BY <1>1, <2>1, <2>4, <3>2
      <4> QED BY <4>1
    <3> QED BY <1>1, <2>1, <3>1, <3>2
  <2> HIDE DEF at
  <2>8. Clean(new) /\ Len(new) \in Nat
    BY <2>4 DEF Clean
  <2>9. Rest(list, n) = {new[i].value : i \in {i \in 1 .. Len(new) : new[i].name = n}}
    <3>1. Rest(list, n) = Others(list, n, p)
      BY <2>1, Looked
    <3>2. ASSUME NEW i \in 1 .. Len(new), new[i].name = n PROVE new[i].value \in Others(list, n, p)
      <4>1. at(i) \in 1 .. Len(list) /\ at(i) # p /\ new[i] = list[at(i)]
        BY <2>5
      <4> QED BY <3>2, <4>1 DEF Others
    <3>3. ASSUME NEW j \in 1 .. Len(list), list[j].name = n, j # p
          PROVE  \E i \in 1 .. Len(new) : new[i].name = n /\ new[i].value = list[j].value
      <4>1. PICK i \in 1 .. Len(new) : at(i) = j
        BY <2>7, <3>3
      <4>2. new[i] = list[j]
        BY <2>5, <4>1
      <4> QED BY <3>3, <4>2
    <3> QED BY <3>1, <3>2, <3>3 DEF Others
  <2>10. Rest(list, n) = {} => Value(new, n) = NULL /\ Rest(new, n) = {}
    <3>1. ASSUME Rest(list, n) = {} PROVE Lacks(new, n)
      BY <2>9, <3>1 DEF Lacks
    <3> QED BY <2>8, <3>1, Looked
  <2>11. ASSUME Rest(list, n) # {} PROVE Rest(list, n) = {Value(new, n)} \cup Rest(new, n)
    <3>1. ~Lacks(new, n)
      BY <2>9, <2>11 DEF Lacks
    <3>2. PICK q \in 1 .. Len(new) : Seen(new, n, q)
      BY <2>8, <3>1, SeenOrNot
    <3>3. Value(new, n) = new[q].value /\ Rest(new, n) = Others(new, n, q) /\ new[q].name = n
      BY <2>8, <3>2, Looked DEF Seen
    <3>4. {new[i].value : i \in {i \in 1 .. Len(new) : new[i].name = n}} = {new[q].value} \cup Others(new, n, q)
      BY <3>3 DEF Others
    <3> QED BY <2>9, <3>3, <3>4
  <2>12. ASSUME NEW m, m # n PROVE Value(new, m) = Value(list, m) /\ Rest(new, m) = Rest(list, m)
    <3>1. CASE Lacks(list, m)
      <4>1. Lacks(new, m)
        BY <2>5, <3>1 DEF Lacks
      <4> QED BY <2>8, <3>1, <4>1, Looked
    <3>2. CASE \E j \in 1 .. Len(list) : Seen(list, m, j)
      <4>1. PICK j \in 1 .. Len(list) : Seen(list, m, j)
        BY <3>2
      <4>2. j # p
        BY <2>1, <2>12, <4>1 DEF Seen
      <4>3. PICK i \in 1 .. Len(new) : at(i) = j
        BY <2>7, <4>2
      <4>4. new[i] = list[j]
        BY <2>5, <4>3
      <4>5. Seen(new, m, i)
        <5>1. new[i].name = m
          BY <4>1, <4>4 DEF Seen
        <5>2. ASSUME NEW h \in 1 .. i - 1 PROVE new[h].name # m
          <6>1. h \in 1 .. Len(new) /\ h < i
            BY <2>8
          <6>2. at(h) \in 1 .. Len(list) /\ at(h) < j /\ new[h] = list[at(h)]
            BY <2>5, <2>6, <4>3, <6>1
          <6>3. at(h) \in 1 .. j - 1
            BY <1>1, <6>2
          <6> QED BY <4>1, <6>2, <6>3 DEF Seen
        <5> QED BY <5>1, <5>2 DEF Seen
      <4>6. Others(new, m, i) = Others(list, m, j)
        <5>1. ASSUME NEW h \in 1 .. Len(new), new[h].name = m, h # i PROVE new[h].value \in Others(list, m, j)
          <6>1. at(h) \in 1 .. Len(list) /\ new[h] = list[at(h)]
            BY <2>5
          <6>2. at(h) # j
            <7>1. at(h) < at(i) \/ at(i) < at(h)
              <8>1. h < i \/ i < h
                BY <2>8, <5>1
              <8> QED BY <2>6, <8>1
            <7> QED BY <1>1, <4>3, <6>1, <7>1
          <6> QED BY <5>1, <6>1, <6>2 DEF Others
        <5>2. ASSUME NEW g \in 1 .. Len(list), list[g].name = m, g # j PROVE list[g].value \in Others(new, m, i)
          <6>1. g # p
            BY <2>1, <2>12, <5>2 DEF Seen
          <6>2. PICK h \in 1 .. Len(new) : at(h) = g
            BY <2>7, <6>1
          <6>3. h # i /\ new[h] = list[g]
            BY <2>5, <4>3, <5>2, <6>2
          <6> QED BY <5>2, <6>3 DEF Others
        <5> QED BY <5>1, <5>2 DEF Others
      <4>7. Value(new, m) = new[i].value /\ Rest(new, m) = Others(new, m, i)
        BY <2>8, <4>5, Looked
      <4>8. Value(list, m) = list[j].value /\ Rest(list, m) = Others(list, m, j)
        BY <4>1, Looked
      <4> QED BY <4>4, <4>6, <4>7, <4>8
    <3> QED BY <3>1, <3>2, SeenOrNot
  <2> QED BY <2>8, <2>10, <2>11, <2>12 DEF Withdrawn
<1> QED BY <1>3, <1>4, SeenOrNot

-----------------------------------------------------------------------------
(* The list is a store.                                                         *)

\* As long as nothing is wild, each entry of the list has a value.
Kept == ~wild => Clean(envp)

\* The store after a command that leaves the list as new.
Becomes(new) == Clean(new) /\ envp' = new

LEMMA ListIsThere ==
  ASSUME ConstantsAssumption, Kept, ~wild
  PROVE  /\ Entries = envp /\ Clean(envp) /\ envp # NULL
         /\ Dict = [n \in AllNames |-> Value(envp, n)] /\ Behind = [n \in AllNames |-> Rest(envp, n)]
<1>1. Clean(envp)
  BY DEF Kept
<1>2. envp # NULL
  BY <1>1 DEF Clean, ConstantsAssumption
<1>3. Entries = envp
  BY <1>2 DEF Entries
<1> QED BY <1>1, <1>2, <1>3 DEF Dict, Behind

LEMMA NewList ==
  ASSUME ConstantsAssumption, NEW new, Becomes(new)
  PROVE  /\ Kept'
         /\ Dict' = [n \in AllNames |-> Value(new, n)]
         /\ Behind' = [n \in AllNames |-> Rest(new, n)]
<1>1. Clean(new) /\ envp' = new
  BY DEF Becomes
<1>2. new # NULL
  BY <1>1 DEF Clean, ConstantsAssumption
<1>3. Entries' = new
  BY <1>1, <1>2 DEF Entries
<1>4. Dict' = [n \in AllNames |-> Value(new, n)]
  BY <1>3 DEF Dict
<1>5. Behind' = [n \in AllNames |-> Rest(new, n)]
  BY <1>3 DEF Behind
<1>6. Kept'
  BY <1>1 DEF Kept
<1> QED BY <1>4, <1>5, <1>6

\* The beginning of a name: all of it, or nothing of it.
LEMMA Beginnings ==
  ASSUME ConstantsAssumption, NEW n \in AllNames
  PROVE  IsPrefix(n, n) /\ IsPrefix(<<>>, n) /\ n # <<>>
<1>1. PICK L : n \in Seq(L) /\ n # <<>>
  BY DEF ConstantsAssumption
<1>2. Len(n) \in Nat /\ Len(n) =< Len(n)
  BY <1>1
<1>3. IsPrefix(n, n)
  BY <1>2, Zenon DEF IsPrefix
<1>4. IsPrefix(<<>>, n)
  <2>1. Len(<<>>) = 0 /\ 0 =< Len(n)
    BY <1>2
  <2>2. SubSeq(<<>>, 1, 0) = <<>> /\ SubSeq(n, 1, 0) = <<>>
    BY <1>1
  <2> QED BY <2>1, <2>2, Zenon DEF IsPrefix
<1> QED BY <1>1, <1>3, <1>4

LEMMA ExportStep ==
  ASSUME ConstantsAssumption, Kept, ~wild', NEW n \in Names, NEW v \in Values, Export(KeyOf(n, v), v)
  PROVE  Kept' /\ Promised!Next
<1>1. ~wild
  BY DEF Export
<1>2. /\ Entries = envp /\ Clean(envp)
      /\ Dict = [m \in AllNames |-> Value(envp, m)] /\ Behind = [m \in AllNames |-> Rest(envp, m)]
  BY <1>1, ListIsThere
<1>3. n \in AllNames /\ KeyOf(n, v).name = n /\ KeyOf(n, v).eq /\ KeyOf(n, v).fits = Alike[v]
  BY DEF AllNames, KeyOf
<1>4. PICK new : new = Added(envp, KeyOf(n, v), v)
  OBVIOUS
<1>5. IsKey(KeyOf(n, v), n)
  BY <1>3 DEF IsKey, Alike
<1>6. PICK k : k = KeyOf(n, v)
  OBVIOUS
<1>7. Stored(envp, new, k, n, v) /\ k.fits = Alike[v]
  BY <1>2, <1>3, <1>4, <1>5, <1>6, AddedIs
<1>8. envp' = new /\ path' = IF n = PATH /\ v = Blank THEN Blank ELSE path
  BY <1>2, <1>3, <1>4 DEF Export, OfPath
<1>9. Kept' /\ Dict' = [m \in AllNames |-> Value(new, m)] /\ Behind' = [m \in AllNames |-> Rest(new, m)]
  BY <1>7, <1>8, NewList DEF Becomes, Stored
<1>10. ASSUME Value(envp, n) \in Alike[v] \cup {NULL} PROVE Promised!Replace(n, v)
  <2>1. Value(new, n) = v /\ \A m \in AllNames : (m # n => Value(new, m) = Value(envp, m)) /\ Rest(new, m) = Rest(envp, m)
    BY <1>7, <1>10 DEF Stored
  <2>2. Dict' = [Dict EXCEPT ![n] = v] /\ Behind' = Behind
    BY <1>2, <1>9, <2>1
  <2>3. Dict[n] \in Alike[v] \cup {NULL}
    BY <1>2, <1>3, <1>10
  <2> QED BY <2>2, <2>3 DEF Promised!Replace
<1>11. ASSUME Value(envp, n) \notin Alike[v] \cup {NULL} PROVE Promised!Wait(n, v)
  <2>1. /\ \A m \in AllNames : Value(new, m) = Value(envp, m) /\ (m # n => Rest(new, m) = Rest(envp, m))
        /\ v \in Rest(new, n) /\ Rest(new, n) \subseteq Rest(envp, n) \cup {v}
        /\ Rest(envp, n) \ Alike[v] \subseteq Rest(new, n)
    BY <1>7, <1>11 DEF Stored
  <2>2. Dict' = Dict
    BY <1>2, <1>9, <2>1
  <2>3. PICK kept : kept = Rest(new, n) \cap Rest(envp, n)
    OBVIOUS
  <2>4. Rest(new, n) = kept \cup {v} /\ Rest(envp, n) \ Alike[v] \subseteq kept /\ kept \in SUBSET Rest(envp, n)
    BY <2>1, <2>3
  <2>5. Behind' = [Behind EXCEPT ![n] = kept \cup {v}]
    BY <1>2, <1>9, <2>1, <2>4
  <2>6. Dict[n] \notin Alike[v] \cup {NULL} /\ Behind[n] = Rest(envp, n)
    BY <1>2, <1>3, <1>11
  <2> QED BY <2>2, <2>4, <2>5, <2>6 DEF Promised!Wait
<1>12. Promised!Export(n, v)
  BY <1>8, <1>10, <1>11 DEF Promised!Export
<1>13. asked' = [cmd |-> "export", name |-> n, value |-> v]
  BY <1>3 DEF Export, Ask
<1>14. Promised!Does(asked')
  BY <1>12, <1>13 DEF Promised!Does
<1> QED BY <1>9, <1>14 DEF Promised!Next

LEMMA UnsetStep ==
  ASSUME ConstantsAssumption, Kept, ~wild', NEW n \in Names \cup {<<>>}, Unset(n)
  PROVE  Kept' /\ Promised!Next
<1>1. ~wild
  BY DEF Unset
<1>2. /\ Entries = envp /\ Clean(envp) /\ envp # NULL
      /\ Dict = [m \in AllNames |-> Value(envp, m)] /\ Behind = [m \in AllNames |-> Rest(envp, m)]
  BY <1>1, ListIsThere
<1>3. \A m \in {PATH} \cup {envp[i].name : i \in DOMAIN envp} : ~(n # m /\ IsPrefix(n, m))
  BY <1>2 DEF Unset
<1>4. \A i \in 1 .. Len(envp) : IsPrefix(n, envp[i].name) <=> envp[i].name = n
  <2> SUFFICES ASSUME NEW i \in 1 .. Len(envp) PROVE IsPrefix(n, envp[i].name) <=> envp[i].name = n
    OBVIOUS
  <2>1. i \in DOMAIN envp /\ envp[i].name \in AllNames
    <3>1. envp \in Seq(Set)
      BY <1>2 DEF Clean
    <3>2. i \in DOMAIN envp /\ envp[i] \in Set
      BY <3>1
    <3> QED BY <3>2 DEF Set
  <2>2. ~(n # envp[i].name /\ IsPrefix(n, envp[i].name))
    BY <1>3, <2>1
  <2>3. envp[i].name = n => IsPrefix(n, envp[i].name)
    BY <2>1, Beginnings
  <2> QED BY <2>2, <2>3
<1>5. PICK new : new = Removed(envp, Bare(n))
  OBVIOUS
<1>6. Withdrawn(envp, new, n)
  BY <1>2, <1>4, <1>5, RemovedValue
<1>7. IsPrefix(n, PATH) <=> n = PATH
  <2>1. PATH \in AllNames
    BY DEF AllNames
  <2>2. n = PATH => IsPrefix(n, PATH)
    BY <2>1, Beginnings
  <2> QED BY <1>3, <2>2
<1>8. envp' = new /\ path' = IF n = PATH THEN NULL ELSE path
  BY <1>2, <1>5, <1>7 DEF Unset
<1>9. Kept' /\ Dict' = [m \in AllNames |-> Value(new, m)] /\ Behind' = [m \in AllNames |-> Rest(new, m)]
  BY <1>6, <1>8, NewList DEF Becomes, Withdrawn
<1>10. \A m \in AllNames : m # n => Value(new, m) = Value(envp, m) /\ Rest(new, m) = Rest(envp, m)
  BY <1>6 DEF Withdrawn
<1>11. n \in AllNames
  <2>1. n \in AllNames \/ n = <<>>
    BY DEF AllNames
  <2>2. PATH \in AllNames
    BY DEF AllNames
  <2> QED BY <1>3, <2>1, <2>2, Beginnings
<1>12. ASSUME Rest(envp, n) = {} PROVE Promised!Forget(n)
  <2>1. Value(new, n) = NULL /\ Rest(new, n) = {}
    BY <1>6, <1>12 DEF Withdrawn
  <2>2. Dict' = [Dict EXCEPT ![n] = NULL] /\ Behind' = Behind
    BY <1>2, <1>9, <1>10, <1>11, <1>12, <2>1
  <2>3. Behind[n] = {}
    BY <1>2, <1>11, <1>12
  <2> QED BY <1>8, <2>2, <2>3 DEF Promised!Forget
<1>13. ASSUME Rest(envp, n) # {} PROVE Promised!Forget(n)
  <2>1. PICK v : v = Value(new, n)
    OBVIOUS
  <2>2. PICK rest : rest = Rest(new, n)
    OBVIOUS
  <2>3. Rest(envp, n) = {v} \cup rest
    BY <1>6, <1>13, <2>1, <2>2 DEF Withdrawn
  <2>4. Behind[n] = Rest(envp, n) /\ v \in Behind[n] /\ rest \in {Behind[n], Behind[n] \ {v}}
    BY <1>2, <1>11, <1>13, <2>3
  <2>5. Dict' = [Dict EXCEPT ![n] = v] /\ Behind' = [Behind EXCEPT ![n] = rest]
    BY <1>2, <1>9, <1>10, <1>11, <1>13, <2>1, <2>2
  <2> QED BY <1>8, <2>4, <2>5 DEF Promised!Forget
<1>14. Promised!Forget(n)
  BY <1>12, <1>13
<1>15. asked' = [cmd |-> "unset", name |-> n]
  BY DEF Unset, Ask
<1>16. Promised!Does(asked')
  BY <1>14, <1>15 DEF Promised!Does
<1> QED BY <1>9, <1>16 DEF Promised!Next

\* cd remembers where the shell was, and where it is.
LEMMA MovedValue ==
  ASSUME ConstantsAssumption, NEW list, Clean(list), NEW d \in Dirs, NEW new, new = Moved(list, d)
  PROVE  /\ Clean(new)
         /\ \A m : /\ Value(new, m) = IF m = PWD THEN d
                                      ELSE IF m = OLDPWD /\ Value(list, PWD) # NULL THEN Value(list, PWD) ELSE Value(list, m)
                   /\ Rest(new, m) = Rest(list, m)
<1>1. PWD \in AllNames /\ OLDPWD \in AllNames /\ d \in Values
  BY DEF AllNames, ConstantsAssumption
<1>2. CASE Lacks(list, PWD)
  <2>1. ~Present(list, Key(PWD)) /\ Value(list, PWD) = NULL
    BY <1>2, Looked
  <2>2. new = Added(list, Key(PWD), d)
    BY <2>1 DEF Moved
  <2> QED BY <1>1, <2>1, <2>2, AddedValue
<1>3. CASE \E i \in 1 .. Len(list) : Seen(list, PWD, i)
  <2>1. PICK i \in 1 .. Len(list) : Seen(list, PWD, i)
    BY <1>3
  <2>2. Present(list, Key(PWD)) /\ Value(list, PWD) # NULL /\ Value(list, PWD) \in Values
    BY <2>1, Looked
  <2>3. PICK w \in Values : w = Value(list, PWD)
    BY <2>2
  <2>4. PICK mid : mid = Added(list, Key(OLDPWD), w)
    OBVIOUS
  <2>5. Clean(mid) /\ \A m : Value(mid, m) = (IF m = OLDPWD THEN w ELSE Value(list, m)) /\ Rest(mid, m) = Rest(list, m)
    BY <1>1, <2>4, AddedValue
  <2>6. new = Added(mid, Key(PWD), d)
    BY <2>2, <2>3, <2>4 DEF Moved
  <2>7. Clean(new) /\ \A m : Value(new, m) = (IF m = PWD THEN d ELSE Value(mid, m)) /\ Rest(new, m) = Rest(mid, m)
    BY <1>1, <2>5, <2>6, AddedValue
  <2> QED BY <2>2, <2>3, <2>5, <2>7
<1> QED BY <1>2, <1>3, SeenOrNot

LEMMA ChdirStep ==
  ASSUME ConstantsAssumption, Kept, ~wild', NEW arg, Chdir(arg)
  PROVE  Kept' /\ Promised!Next
<1>1. ~wild
  BY DEF Chdir
<1>2. /\ Entries = envp /\ Clean(envp)
      /\ Dict = [m \in AllNames |-> Value(envp, m)] /\ Behind = [m \in AllNames |-> Rest(envp, m)]
  BY <1>1, ListIsThere
<1>3. PICK d \in Dirs : d = Where(arg)
  BY DEF Chdir
<1>4. PICK new : new = Moved(envp, d)
  OBVIOUS
<1>5. /\ Clean(new)
      /\ \A m : /\ Value(new, m) = IF m = PWD THEN d
                                   ELSE IF m = OLDPWD /\ Value(envp, PWD) # NULL THEN Value(envp, PWD) ELSE Value(envp, m)
                /\ Rest(new, m) = Rest(envp, m)
  BY <1>2, <1>4, MovedValue
<1>6. envp' = new /\ path' = path
  BY <1>2, <1>3, <1>4 DEF Chdir
<1>7. PWD \in AllNames /\ OLDPWD \in AllNames
  BY DEF AllNames
<1>8. Kept' /\ Dict' = [m \in AllNames |-> Value(new, m)] /\ Behind' = [m \in AllNames |-> Rest(new, m)]
  BY <1>5, <1>6, NewList DEF Becomes
<1>9. Dict' = [Dict EXCEPT ![OLDPWD] = IF Dict[PWD] = NULL THEN @ ELSE Dict[PWD], ![PWD] = d]
  BY <1>2, <1>5, <1>7, <1>8
<1>10. Behind' = Behind
  BY <1>2, <1>5, <1>8
<1>11. Promised!ChangeDir(d)
  BY <1>6, <1>9, <1>10 DEF Promised!ChangeDir
<1>12. asked'.cmd = "cd"
  BY DEF Chdir, Ask
<1>13. Promised!Does(asked')
  <2>1. d \in Values
    BY DEF ConstantsAssumption
  <2> QED BY <1>11, <1>12, <2>1 DEF Promised!Does
<1> QED BY <1>8, <1>13 DEF Promised!Next

\* What neither sets, removes nor moves leaves the store as it is.
LEMMA KeepStep ==
  ASSUME ConstantsAssumption, Kept, ~wild', ~wild, envp' = envp, path' = path,
         asked'.cmd \in {"cd", "env", "export alone", "pwd", "echo", "export =", "exit"}
  PROVE  Kept' /\ Promised!Next
<1>1. Kept'
  BY DEF Kept
<1>2. Dict' = Dict /\ Behind' = Behind
  BY DEF Dict, Behind, Entries
<1>3. Promised!Keep
  BY <1>2 DEF Promised!Keep
<1>4. asked'.cmd = "cd" \/ asked'.cmd \notin {"export", "unset", "cd"}
  OBVIOUS
<1>5. Promised!Does(asked')
  BY <1>3, <1>4 DEF Promised!Does
<1> QED BY <1>1, <1>5 DEF Promised!Next

\* Every command does what is promised of it.
LEMMA CommandStep ==
  ASSUME ConstantsAssumption, Kept, ~wild', Next
  PROVE  Kept' /\ Promised!Next
<1>1. ASSUME NEW n \in Names, NEW v \in Values, Export(KeyOf(n, v), v) PROVE Kept' /\ Promised!Next
  BY <1>1, ExportStep
<1>2. ASSUME NEW n \in Names, Export(Bare(n), NoText) PROVE FALSE
  BY <1>2 DEF Export, Bare
<1>3. ASSUME NEW n \in Names \cup {<<>>}, Unset(n) PROVE Kept' /\ Promised!Next
  BY <1>3, UnsetStep
<1>4. ASSUME UnsetNothing PROVE FALSE
  BY <1>4 DEF UnsetNothing
<1>5. ASSUME NEW arg, Chdir(arg) PROVE Kept' /\ Promised!Next
  BY <1>5, ChdirStep
<1>6. ASSUME NEW arg, ChdirFails(arg) PROVE Kept' /\ Promised!Next
  <2>1. ~wild /\ envp' = envp /\ path' = path /\ asked'.cmd = "cd"
    BY <1>6 DEF ChdirFails, Ask
  <2> QED BY <2>1, KeepStep
<1>7. ASSUME NEW cmd \in {"env", "export alone"}, PrintEnv(cmd) PROVE Kept' /\ Promised!Next
  <2>1. ~wild /\ envp' = envp /\ path' = path /\ asked'.cmd = cmd
    BY <1>7 DEF PrintEnv, Ask
  <2> QED BY <2>1, KeepStep
<1>8. ASSUME NEW cmd \in {"pwd", "echo", "export ="}, Say(cmd) PROVE Kept' /\ Promised!Next
  <2>1. ~wild /\ envp' = envp /\ path' = path /\ asked'.cmd = cmd
    BY <1>8 DEF Say, Ask
  <2> QED BY <2>1, KeepStep
<1>9. ASSUME Exit PROVE Kept' /\ Promised!Next
  <2>1. ~wild /\ envp' = envp /\ path' = path /\ asked'.cmd = "exit"
    BY <1>9 DEF Exit, Ask
  <2> QED BY <2>1, KeepStep
<1> QED BY <1>1, <1>2, <1>3, <1>4, <1>5, <1>6, <1>7, <1>8, <1>9, Zenon DEF Next, Change

\* The shell starts with a store.
LEMMA FirstStore ==
  ASSUME ConstantsAssumption, Init
  PROVE  Kept /\ Promised!Init
<1>1. PICK parent \in Parents : envp = Inherited(parent) /\ path = Value(Inherited(parent), PATH)
  BY DEF Init
<1>2. cwd \in Dirs /\ wild = FALSE
  BY DEF Init
<1>3. PICK list : list = Inherited(parent)
  OBVIOUS
<1>4. Clean(list)
  <2>1. CASE parent = <<>>
    <3>1. cwd \in Values /\ One \in Values /\ PWD \in AllNames /\ SHLVL \in AllNames
      BY <1>2 DEF ConstantsAssumption, AllNames
    <3>2. list = <<Entry(PWD, cwd), Entry(SHLVL, One)>>
      BY <1>3, <2>1 DEF Inherited
    <3> QED BY <3>1, <3>2 DEF Clean, Set, Entry
  <2>2. CASE parent # <<>>
    BY <1>3, <2>2 DEF Inherited, ConstantsAssumption, Clean
  <2> QED BY <2>1, <2>2
<1>5. Kept
  BY <1>1, <1>3, <1>4 DEF Kept
<1>6. Dict = [n \in AllNames |-> Value(list, n)] /\ Behind = [n \in AllNames |-> Rest(list, n)]
  BY <1>1, <1>2, <1>3, <1>5, ListIsThere
<1>7. ASSUME NEW n \in AllNames
      PROVE  Value(list, n) \in Values \cup {NULL} /\ Rest(list, n) \in SUBSET Values /\ (Value(list, n) = NULL => Rest(list, n) = {})
  <2>1. CASE Lacks(list, n)
    BY <1>4, <2>1, Looked
  <2>2. CASE \E i \in 1 .. Len(list) : Seen(list, n, i)
    <3>1. PICK i \in 1 .. Len(list) : Seen(list, n, i)
      BY <2>2
    <3>2. Value(list, n) \in Values /\ Value(list, n) # NULL
      BY <1>4, <3>1, Looked
    <3>3. Rest(list, n) \subseteq Values
      <4>1. ASSUME NEW j \in 1 .. Len(list) PROVE list[j].value \in Values
        <5>1. list[j] \in Set
          BY <1>4 DEF Clean
        <5> QED BY <5>1 DEF Set
      <4> QED BY <4>1 DEF Rest
    <3> QED BY <3>2, <3>3
  <2> QED BY <1>4, <2>1, <2>2, SeenOrNot
<1>8. PATH \in AllNames
  BY DEF AllNames
<1> QED BY <1>1, <1>2, <1>3, <1>5, <1>6, <1>7, <1>8 DEF Promised!Init

\* Until a command names a variable by the beginning of its name or exports one without a
\* value, what mini_export(), mini_unset() and mini_cd() make of the list is the store of
\* Store: each of them changes the variable it names and no other, a value takes the place
\* of the one that is seen when it begins like it and waits behind it when it does not, and
\* where commands are searched is changed by the empty PATH and by unset alone.
THEOREM VariablesAreAStore == ASSUME ConstantsAssumption PROVE Spec => ImplementsStore
<1>1. Init => Kept /\ Promised!Init
  BY FirstStore
<1>2. Kept /\ [Next]_vars => Kept' /\ [Promised!Next]_<<Dict, Behind, path, asked, wild>>
  <2> SUFFICES ASSUME Kept, [Next]_vars PROVE Kept' /\ [Promised!Next]_<<Dict, Behind, path, asked, wild>>
    OBVIOUS
  <2>1. CASE UNCHANGED vars
    BY <2>1 DEF vars, Kept, Clean, Dict, Behind, Entries
  <2>2. CASE Next /\ wild'
    BY <2>2 DEF Kept, Promised!Next
  <2>3. CASE Next /\ ~wild'
    BY <2>3, CommandStep
  <2> QED BY <2>1, <2>2, <2>3
<1> QED BY <1>1, <1>2, PTL DEF Spec, ImplementsStore, Promised!Spec

-----------------------------------------------------------------------------
(* The forms.                                                                   *)

CONSTANTS Bureaucrats, Papers, LOWEST, Grades, Needed
VARIABLES grade, form, executed

F == INSTANCE Forms

\* Who has a grade has one there is.
GradesOK == grade \in [Bureaucrats -> 1 .. LOWEST \cup {NULL}]

\* A paper that is signed was signed by a grade that was high enough, or its sign is another's.
Signed(paper) ==
  paper.signed => paper.signer # NULL /\ (paper.forged \/ paper.signer =< Needed[paper.kind].toSign)

FormsOK == form \in [Papers -> F!Paper \cup {NULL}] /\ \A f \in Papers : form[f] # NULL => Signed(form[f])

ExecutedOK ==
  executed # NULL =>
    LET paper == executed.paper
    IN executed.grade =< Needed[paper.kind].toExecute /\ paper.signer # NULL /\ (paper.forged \/ paper.signer =< Needed[paper.kind].toSign)

Office == GradesOK /\ FormsOK /\ ExecutedOK

\* A bureaucrat that gets another grade.
LEMMA GradedStep ==
  ASSUME Office, NEW b \in Bureaucrats, NEW g \in 1 .. LOWEST \cup {NULL}, F!Graded(b, g)
  PROVE  Office'
<1>1. grade' = [grade EXCEPT ![b] = g] /\ form' = form /\ executed' = executed
  BY DEF F!Graded
<1>2. GradesOK'
  BY <1>1 DEF Office, GradesOK
<1>3. FormsOK' /\ ExecutedOK'
  BY <1>1 DEF Office, FormsOK, ExecutedOK, Signed
<1> QED BY <1>2, <1>3 DEF Office

\* A paper that becomes another.
LEMMA FilledStep ==
  ASSUME Office, NEW f \in Papers, NEW r \in F!Paper \cup {NULL}, r # NULL => Signed(r), F!Filled(f, r)
  PROVE  Office'
<1>1. form' = [form EXCEPT ![f] = r] /\ executed' = NULL /\ grade' = grade
  BY DEF F!Filled
<1>2. GradesOK'
  BY <1>1 DEF Office, GradesOK
<1>3. form' \in [Papers -> F!Paper \cup {NULL}]
  BY <1>1 DEF Office, FormsOK
<1>4. ASSUME NEW h \in Papers, form'[h] # NULL PROVE Signed(form'[h])
  <2>1. CASE h = f
    BY <1>1, <1>4, <2>1 DEF Office, FormsOK
  <2>2. CASE h # f
    BY <1>1, <1>4, <2>2 DEF Office, FormsOK
  <2> QED BY <2>1, <2>2
<1>5. FormsOK'
  BY <1>3, <1>4 DEF FormsOK, Signed
<1>6. ExecutedOK'
  BY <1>1 DEF ExecutedOK
<1> QED BY <1>2, <1>5, <1>6 DEF Office

\* A step of a bureaucrat alone.
LEMMA BureaucratStep ==
  ASSUME F!ConstantsAssumption, Office, F!OfBureaucrat
  PROVE  Office'
<1>1. LOWEST \in Nat
  BY DEF F!ConstantsAssumption
<1>2. \A b \in F!Hired : b \in Bureaucrats /\ grade[b] \in 1 .. LOWEST
  BY DEF F!Hired, Office, GradesOK
<1>3. PICK b \in Bureaucrats : (\E g \in Grades : F!Hire(b, g)) \/ F!Increase(b) \/ F!Decrease(b) \/ (\E c \in Bureaucrats : F!Assign(b, c))
  BY DEF F!OfBureaucrat
<1>4. \E g \in 1 .. LOWEST : F!Graded(b, g)
  <2>1. ASSUME NEW g \in Grades, F!Hire(b, g) PROVE g \in 1 .. LOWEST /\ F!Graded(b, g)
    BY <2>1 DEF F!Hire
  <2>2. ASSUME F!Increase(b) PROVE grade[b] - 1 \in 1 .. LOWEST /\ F!Graded(b, grade[b] - 1)
    <3>1. b \in F!Hired /\ ~(grade[b] - 1 < 1) /\ F!Graded(b, grade[b] - 1)
      BY <2>2 DEF F!Increase
    <3> QED BY <1>1, <1>2, <3>1
  <2>3. ASSUME F!Decrease(b) PROVE grade[b] + 1 \in 1 .. LOWEST /\ F!Graded(b, grade[b] + 1)
    <3>1. b \in F!Hired /\ ~(grade[b] + 1 > LOWEST) /\ F!Graded(b, grade[b] + 1)
      BY <2>3 DEF F!Decrease
    <3> QED BY <1>1, <1>2, <3>1
  <2>4. ASSUME NEW c \in Bureaucrats, F!Assign(b, c) PROVE grade[c] \in 1 .. LOWEST /\ F!Graded(b, grade[c])
    BY <1>2, <2>4 DEF F!Assign
  <2> QED BY <1>3, <2>1, <2>2, <2>3, <2>4
<1> QED BY <1>4, GradedStep

\* A step of a form alone.
LEMMA FormStep ==
  ASSUME F!ConstantsAssumption, Office, F!OfForm
  PROVE  Office'
<1>1. \A f \in F!There : f \in Papers /\ form[f] \in F!Paper /\ Signed(form[f])
  BY DEF F!There, Office, FormsOK
<1>2. ASSUME NEW kind \in DOMAIN Needed PROVE F!Blank(kind) \in F!Paper /\ Signed(F!Blank(kind))
  BY DEF F!Blank, F!Paper, Signed
<1>3. PICK f \in Papers : (\E kind \in DOMAIN Needed : F!MakeForm(f, kind)) \/ (\E h \in Papers : F!Copy(f, h) \/ F!AssignForm(f, h)) \/ F!Delete(f)
  BY DEF F!OfForm
<1>4. ASSUME NEW kind \in DOMAIN Needed, F!MakeForm(f, kind) PROVE Office'
  <2>1. F!Filled(f, F!Blank(kind))
    BY <1>4 DEF F!MakeForm
  <2> QED BY <1>2, <2>1, FilledStep
<1>5. ASSUME NEW h \in Papers, F!Copy(f, h) PROVE Office'
  <2>1. h \in F!There /\ F!Filled(f, F!Blank(form[h].kind))
    BY <1>5 DEF F!Copy
  <2>2. form[h].kind \in DOMAIN Needed
    BY <1>1, <2>1 DEF F!Paper
  <2> QED BY <1>2, <2>1, <2>2, FilledStep
<1>6. ASSUME NEW h \in Papers, F!AssignForm(f, h) PROVE Office'
  <2>1. PICK to \in F!Paper, from \in F!Paper : to = form[f] /\ from = form[h] /\ Signed(to) /\ Signed(from)
    BY <1>1, <1>6 DEF F!AssignForm
  <2>2. PICK r : r = [to EXCEPT !.signed = from.signed, !.signer = from.signer, !.forged = from.signed /\ (from.forged \/ from.kind # to.kind)]
    OBVIOUS
  <2>3. F!Filled(f, r)
    BY <1>6, <2>1, <2>2 DEF F!AssignForm
  <2>4. r \in F!Paper
    BY <2>1, <2>2 DEF F!Paper
  <2>5. Signed(r)
    <3> SUFFICES ASSUME r.signed PROVE r.signer # NULL /\ (r.forged \/ r.signer =< Needed[r.kind].toSign)
      BY DEF Signed
    <3>1. r.signed = from.signed /\ r.signer = from.signer /\ r.kind = to.kind
      BY <2>1, <2>2 DEF F!Paper
    <3>2. r.forged <=> from.signed /\ (from.forged \/ from.kind # to.kind)
      BY <2>1, <2>2 DEF F!Paper
    <3>3. from.signer # NULL /\ (from.forged \/ from.signer =< Needed[from.kind].toSign)
      BY <2>1, <3>1 DEF Signed
    <3> QED BY <3>1, <3>2, <3>3
  <2> QED BY <2>3, <2>4, <2>5, FilledStep
<1>7. ASSUME F!Delete(f) PROVE Office'
  <2>1. F!Filled(f, NULL)
    BY <1>7 DEF F!Delete
  <2> QED BY <2>1, FilledStep
<1> QED BY <1>3, <1>4, <1>5, <1>6, <1>7

\* A bureaucrat signs or executes a form.
LEMMA BothStep ==
  ASSUME F!ConstantsAssumption, Office, F!OfBoth
  PROVE  Office'
<1>1. \A f \in F!There : f \in Papers /\ form[f] \in F!Paper /\ Signed(form[f])
  BY DEF F!There, Office, FormsOK
<1>2. \A b \in F!Hired : b \in Bureaucrats /\ grade[b] \in 1 .. LOWEST /\ grade[b] \in Int /\ grade[b] # NULL
  BY DEF F!Hired, Office, GradesOK
<1>3. PICK b \in Bureaucrats, f \in Papers : F!SignForm(b, f) \/ F!ExecuteForm(b, f)
  BY DEF F!OfBoth
<1>4. b \in F!Hired /\ f \in F!There
  BY <1>3 DEF F!SignForm, F!ExecuteForm
<1>5. PICK paper \in F!Paper : paper = form[f] /\ Signed(paper)
  BY <1>1, <1>4
<1>6. PICK g \in 1 .. LOWEST : g = grade[b] /\ g # NULL
  BY <1>2, <1>4
<1>7. g \in Int /\ Needed[paper.kind].toSign \in Int /\ Needed[paper.kind].toExecute \in Int
  BY DEF F!Paper, F!ConstantsAssumption
<1>8. CASE F!SignForm(b, f)
  <2>1. PICK r : r = [paper EXCEPT !.signed = TRUE, !.signer = g]
    OBVIOUS
  <2>2. F!Filled(f, r) /\ ~(g > Needed[paper.kind].toSign)
    BY <1>5, <1>6, <1>8, <2>1 DEF F!SignForm
  <2>3. r \in F!Paper /\ r.signer = g /\ r.kind = paper.kind
    BY <2>1 DEF F!Paper
  <2>4. g =< Needed[paper.kind].toSign
    BY <1>7, <2>2
  <2>5. Signed(r)
    BY <1>6, <2>3, <2>4 DEF Signed
  <2> QED BY <2>2, <2>3, <2>5, FilledStep
<1>9. CASE F!ExecuteForm(b, f)
  <2>1. paper.signed /\ ~(g > Needed[paper.kind].toExecute) /\ executed' = [paper |-> paper, grade |-> g] /\ grade' = grade /\ form' = form
    BY <1>5, <1>6, <1>9 DEF F!ExecuteForm
  <2>2. g =< Needed[paper.kind].toExecute
    BY <1>7, <2>1
  <2>3. ExecutedOK'
    BY <1>5, <2>1, <2>2 DEF ExecutedOK, Signed
  <2>4. GradesOK' /\ FormsOK'
    BY <2>1 DEF Office, GradesOK, FormsOK, Signed
  <2> QED BY <2>3, <2>4 DEF Office
<1> QED BY <1>3, <1>8, <1>9

\* Whoever is promoted, degraded or copied and whatever forms are copied, assigned or deleted:
\* what AForm::execute() lets through was signed before, by a grade high enough for it then or by way
\* of AForm::operator=() from another kind, is executed by a grade high enough, and no grade
\* leaves its range.
THEOREM SignedBeforeExecuted == ASSUME F!ConstantsAssumption PROVE F!Spec => []F!ExecutedWasSigned
<1>1. F!Init => Office
  BY DEF F!Init, Office, GradesOK, FormsOK, ExecutedOK
<1>2. Office /\ [F!Next]_F!vars => Office'
  <2> SUFFICES ASSUME Office, [F!Next]_F!vars PROVE Office'
    OBVIOUS
  <2>1. CASE UNCHANGED F!vars
    BY <2>1 DEF F!vars, Office, GradesOK, FormsOK, ExecutedOK, Signed
  <2>2. CASE F!Next
    BY <2>2, BureaucratStep, FormStep, BothStep DEF F!Next
  <2> QED BY <2>1, <2>2
<1>3. Office => F!ExecutedWasSigned
  BY DEF Office, GradesOK, ExecutedOK, F!ExecutedWasSigned, F!Hired
<1> QED BY <1>1, <1>2, <1>3, PTL DEF F!Spec

-----------------------------------------------------------------------------
(* The materias: what deleting, cloning and handing over do to who holds what,  *)
(* for a function at from any set P of places to what is in each.               *)

CONSTANTS Pointers, Types, SLOTS, Rooms, Sources, FIRST, Characters
VARIABLES heap, source, character, hand, rough, misused

M == INSTANCE Materias WITH wild <- misused

\* The sizes of sets are those of the module that Materias takes them from.
LEMMA SameSize ==
  ASSUME NEW S
  PROVE  (M!IsFiniteSet(S) <=> IsFiniteSet(S)) /\ M!Cardinality(S) = Cardinality(S)
BY DEF M!IsFiniteSet, IsFiniteSet, M!Cardinality, Cardinality

\* What is in two places is not the same, is not free, and what is not free is in a place.
Owned(P, at, h) ==
  /\ at \in [P -> Pointers \cup {NULL}] /\ h \in [Pointers -> Types \cup {"free"}]
  /\ \A x, y \in P : at[x] = at[y] /\ at[x] # NULL => x = y
  /\ \A x \in P : at[x] # NULL => h[at[x]] # "free"
  /\ \A p \in Pointers : h[p] # "free" => \E x \in P : at[x] = p

\* A materia passes from one place to another.
LEMMA Passed ==
  ASSUME M!ConstantsAssumption, NEW P, NEW at, NEW h, Owned(P, at, h), NEW x \in P, NEW y \in P, x # y, NEW m \in Pointers, at[x] = m, at[y] = NULL,
         NEW new \in [P -> Pointers \cup {NULL}], new[x] = NULL, new[y] = m, \A z \in P : z # x /\ z # y => new[z] = at[z]
  PROVE  Owned(P, new, h)
<1>1. at \in [P -> Pointers \cup {NULL}] /\ NULL \notin Pointers /\ m # NULL
  BY DEF Owned, M!ConstantsAssumption
<1>2. new \in [P -> Pointers \cup {NULL}] /\ new[x] = NULL /\ new[y] = m /\ \A z \in P : z # x /\ z # y => new[z] = at[z]
  BY <1>1
<1>3. ASSUME NEW z \in P, NEW w \in P, new[z] = new[w], new[z] # NULL PROVE z = w
  <2>1. \A v \in P : v # x => (v # y => at[v] # m)
    BY <1>1 DEF Owned
  <2>2. z # x /\ w # x
    BY <1>2, <1>3
  <2>3. CASE z = y
    BY <1>2, <1>3, <2>1, <2>2, <2>3
  <2>4. CASE w = y
    BY <1>2, <1>3, <2>1, <2>2, <2>4
  <2>5. CASE z # y /\ w # y
    BY <1>2, <1>3, <2>2, <2>5 DEF Owned
  <2> QED BY <2>3, <2>4, <2>5
<1>4. ASSUME NEW z \in P, new[z] # NULL PROVE h[new[z]] # "free"
  <2>1. h[m] # "free"
    BY <1>1 DEF Owned
  <2>2. CASE z = y
    BY <1>2, <2>1, <2>2
  <2>3. CASE z # y
    BY <1>2, <1>4, <2>3 DEF Owned
  <2> QED BY <2>2, <2>3
<1>5. ASSUME NEW p \in Pointers, h[p] # "free" PROVE \E z \in P : new[z] = p
  <2>1. PICK z \in P : at[z] = p
    BY <1>5 DEF Owned
  <2>2. CASE z = x
    BY <1>2, <2>1, <2>2
  <2>3. CASE z # x
    <3>1. z # y
      BY <1>1, <2>1
    <3> QED BY <1>2, <2>1, <2>3, <3>1
  <2> QED BY <2>2, <2>3
<1> QED BY <1>2, <1>3, <1>4, <1>5 DEF Owned

\* What is in some places is deleted, each only once.
LEMMA Dropped ==
  ASSUME M!ConstantsAssumption, NEW P, NEW at, NEW h, Owned(P, at, h), NEW slots, NEW pl \in [DOMAIN slots -> P],
         \A j, k \in DOMAIN slots : pl[j] = pl[k] => j = k,
         \A k \in DOMAIN slots : at[pl[k]] = slots[k],
         NEW new \in [P -> Pointers \cup {NULL}], \A k \in DOMAIN slots : new[pl[k]] = NULL,
         \A x \in P : (\A k \in DOMAIN slots : pl[k] # x) => new[x] = at[x],
         NEW d, d = M!Deleted(h, slots)
  PROVE  Owned(P, new, d.heap) /\ ~d.twice
<1>1. \A k \in DOMAIN slots : pl[k] \in P
  OBVIOUS
<1>2. M!Held(slots) \subseteq DOMAIN slots /\ \A k \in M!Held(slots) : slots[k] # NULL /\ slots[k] \in Pointers /\ h[slots[k]] # "free"
  <2>1. \A k \in DOMAIN slots : slots[k] # NULL => slots[k] \in Pointers /\ h[slots[k]] # "free"
    BY <1>1 DEF Owned
  <2> QED BY <2>1 DEF M!Held
<1>3. \A j, k \in M!Held(slots) : slots[j] = slots[k] => j = k
  <2> SUFFICES ASSUME NEW j \in M!Held(slots), NEW k \in M!Held(slots), slots[j] = slots[k] PROVE j = k
    OBVIOUS
  <2>1. at[pl[j]] = at[pl[k]] /\ at[pl[j]] # NULL
    BY <1>2
  <2>2. pl[j] = pl[k]
    BY <1>1, <1>2, <2>1 DEF Owned
  <2> QED BY <1>2, <2>2
<1>4. /\ d.heap = [p \in Pointers |-> IF \E k \in M!Held(slots) : slots[k] = p THEN "free" ELSE h[p]]
      /\ d.twice = \E k \in M!Held(slots) : h[slots[k]] = "free" \/ \E j \in M!Held(slots) : j # k /\ slots[j] = slots[k]
  BY DEF M!Deleted
<1>5. ~d.twice
  BY <1>2, <1>3, <1>4
<1>6. PICK g : g = d.heap
  OBVIOUS
<1>7. g \in [Pointers -> Types \cup {"free"}]
  BY <1>4, <1>6 DEF Owned
<1>8. \A x \in P : new[x] # NULL => new[x] = at[x] /\ \A k \in DOMAIN slots : pl[k] # x
  OBVIOUS
<1>9. ASSUME NEW x \in P, NEW y \in P, new[x] = new[y], new[x] # NULL PROVE x = y
  BY <1>8, <1>9 DEF Owned
<1>10. ASSUME NEW x \in P, new[x] # NULL PROVE g[new[x]] # "free"
  <2>1. at[x] # NULL /\ at[x] = new[x] /\ at[x] \in Pointers /\ h[at[x]] # "free"
    BY <1>8, <1>10 DEF Owned
  <2>2. ASSUME NEW k \in M!Held(slots), slots[k] = at[x] PROVE FALSE
    <3>1. k \in DOMAIN slots /\ at[pl[k]] = at[x] /\ pl[k] \in P
      BY <1>1, <1>2, <2>2
    <3>2. pl[k] = x
      BY <2>1, <3>1 DEF Owned
    <3> QED BY <1>8, <1>10, <3>1, <3>2
  <2>3. ~\E k \in M!Held(slots) : slots[k] = new[x]
    BY <2>1, <2>2
  <2> QED BY <1>4, <1>6, <2>1, <2>3
<1>11. ASSUME NEW p \in Pointers, g[p] # "free" PROVE \E x \in P : new[x] = p
  <2>1. h[p] # "free" /\ ~\E k \in M!Held(slots) : slots[k] = p
    BY <1>4, <1>6, <1>11
  <2>2. PICK x \in P : at[x] = p
    BY <2>1 DEF Owned
  <2>3. ASSUME NEW k \in DOMAIN slots, pl[k] = x PROVE FALSE
    <3>1. slots[k] = p /\ p # NULL
      BY <2>2, <2>3 DEF M!ConstantsAssumption
    <3> QED BY <2>1, <3>1 DEF M!Held
  <2> QED BY <2>2, <2>3
<1>12. Owned(P, new, g)
  BY <1>7, <1>9, <1>10, <1>11 DEF Owned
<1> QED BY <1>5, <1>6, <1>12

\* New memory is put into places where there was nothing.
LEMMA Filled ==
  ASSUME M!ConstantsAssumption, NEW P, NEW at, NEW h, Owned(P, at, h), NEW D \in SUBSET P, \A x \in D : at[x] = NULL,
         NEW new \in [P -> Pointers \cup {NULL}], \A x \in P \ D : new[x] = at[x],
         \A x, y \in D : new[x] = new[y] /\ new[x] # NULL => x = y,
         \A x \in D : new[x] # NULL => h[new[x]] = "free",
         NEW g \in [Pointers -> Types \cup {"free"}], \A x \in D : new[x] # NULL => g[new[x]] # "free",
         \A p \in Pointers : (\A x \in D : new[x] # p) => g[p] = h[p]
  PROVE  Owned(P, new, g)
<1>1. \A x \in P : new[x] # NULL => new[x] \in Pointers
  OBVIOUS
<1>2. ASSUME NEW x \in D, NEW y \in P \ D, new[x] = new[y], new[x] # NULL PROVE FALSE
  BY <1>2 DEF Owned
<1>3. ASSUME NEW x \in P, NEW y \in P, new[x] = new[y], new[x] # NULL PROVE x = y
  <2>1. CASE x \in D /\ y \in D
    BY <1>3, <2>1
  <2>2. CASE x \notin D /\ y \notin D
    BY <1>3, <2>2 DEF Owned
  <2>3. CASE x \in D /\ y \notin D
    BY <1>2, <1>3, <2>3
  <2>4. CASE x \notin D /\ y \in D
    BY <1>2, <1>3, <2>4
  <2> QED BY <2>1, <2>2, <2>3, <2>4
<1>4. ASSUME NEW x \in P, new[x] # NULL PROVE g[new[x]] # "free"
  <2>1. CASE x \in D
    BY <1>4, <2>1
  <2>2. CASE x \notin D
    <3>1. \A y \in D : new[y] # new[x]
      BY <1>2, <1>4, <2>2
    <3>2. g[new[x]] = h[new[x]]
      BY <1>1, <1>4, <3>1
    <3> QED BY <1>4, <2>2, <3>2 DEF Owned
  <2> QED BY <2>1, <2>2
<1>5. ASSUME NEW p \in Pointers, g[p] # "free" PROVE \E x \in P : new[x] = p
  <2>1. CASE \E x \in D : new[x] = p
    BY <2>1
  <2>2. CASE \A x \in D : new[x] # p
    <3>1. PICK x \in P : at[x] = p
      BY <1>5, <2>2 DEF Owned
    <3>2. x \notin D
      BY <3>1 DEF M!ConstantsAssumption
    <3> QED BY <3>1, <3>2
  <2> QED BY <2>1, <2>2
<1> QED BY <1>3, <1>4, <1>5 DEF Owned

\* When there is memory for all of them the clones are each in memory of their own.
LEMMA CloneFits ==
  ASSUME M!ConstantsAssumption, NEW h, NEW slots \in [1 .. SLOTS -> Pointers \cup {NULL}], Cardinality(M!Free(h)) >= SLOTS,
         NEW clone, clone = M!Clones(h, slots)
  PROVE  clone \in [M!Held(slots) -> M!Free(h)] /\ \A j, k \in M!Held(slots) : clone[j] = clone[k] => j = k
<1> DEFINE S == M!Free(h)
           n == Cardinality(S)
<1>1. IsFiniteSet(S)
  <2>1. S \in SUBSET Pointers
    BY DEF M!Free
  <2>2. IsFiniteSet(Pointers)
    BY SameSize DEF M!ConstantsAssumption
  <2> HIDE DEF S
  <2> QED BY <2>1, <2>2, FS_Subset
<1>2. n \in Nat /\ n >= SLOTS /\ SLOTS \in Nat /\ ExistsBijection(1 .. n, S)
  <2> HIDE DEF S
  <2>1. Cardinality(S) \in Nat /\ ExistsBijection(1 .. Cardinality(S), S)
    BY <1>1, FS_CardinalityType
  <2> QED BY <2>1 DEF M!ConstantsAssumption, S
<1>3. M!Held(slots) \subseteq 1 .. SLOTS
  BY DEF M!Held
<1> HIDE DEF S, n
<1>4. PICK b : b \in [1 .. n -> S] /\ \A i, j \in 1 .. n : b[i] = b[j] => i = j
  BY <1>2, Zenon DEF ExistsBijection, Bijection, Injection, IsInjective
<1>5. PICK H : H = M!Held(slots)
  OBVIOUS
<1>6. H \subseteq 1 .. n
  BY <1>2, <1>3, <1>5
<1>7. \E f \in [H -> S] : \A j, k \in H : f[j] = f[k] => j = k
  <2> DEFINE f == [k \in H |-> b[k]]
  <2>1. f \in [H -> S] /\ \A j, k \in H : f[j] = f[k] => j = k
    BY <1>4, <1>6
  <2> QED BY <2>1
<1>8. clone = CHOOSE f \in [H -> S] : \A j, k \in H : f[j] = f[k] => j = k
  BY <1>5, Zenon DEF M!Clones, S
<1>9. clone \in [H -> S] /\ \A j, k \in H : clone[j] = clone[k] => j = k
  BY <1>7, <1>8, Zenon
<1> QED BY <1>5, <1>9 DEF S

\* In the places pl there was nothing, and there are the clones of what is in slots.
ClonesAt(P, at, h, slots, pl, new) ==
  /\ Owned(P, at, h) /\ slots \in [1 .. SLOTS -> Pointers \cup {NULL}] /\ Cardinality(M!Free(h)) >= SLOTS
  /\ \A k \in 1 .. SLOTS : slots[k] # NULL => h[slots[k]] # "free"
  /\ pl \in [1 .. SLOTS -> P] /\ \A j, k \in 1 .. SLOTS : pl[j] = pl[k] => j = k
  /\ new \in [P -> Pointers \cup {NULL}]
  /\ \A k \in 1 .. SLOTS : at[pl[k]] = NULL /\ new[pl[k]] = M!Copied(h, slots).slots[k]
  /\ \A x \in P : (\A k \in 1 .. SLOTS : pl[k] # x) => new[x] = at[x]

\* What copying makes of slots.
LEMMA CopiedType ==
  ASSUME M!ConstantsAssumption, NEW h, NEW slots \in [1 .. SLOTS -> Pointers \cup {NULL}], Cardinality(M!Free(h)) >= SLOTS
  PROVE  M!Copied(h, slots).slots \in [1 .. SLOTS -> Pointers \cup {NULL}]
<1>1. PICK clone : clone = M!Clones(h, slots)
  OBVIOUS
<1>2. clone \in [M!Held(slots) -> M!Free(h)]
  BY <1>1, CloneFits
<1>3. M!Copied(h, slots).slots = [k \in 1 .. SLOTS |-> IF slots[k] = NULL THEN NULL ELSE clone[k]]
  BY <1>1 DEF M!Copied
<1>4. \A k \in 1 .. SLOTS : slots[k] # NULL => clone[k] \in Pointers
  BY <1>2 DEF M!Held, M!Free
<1> QED BY <1>3, <1>4

\* Copying puts clones of what is there in places where there was nothing.
LEMMA Cloned ==
  ASSUME M!ConstantsAssumption, NEW P, NEW at, NEW h, NEW slots, NEW pl, NEW new, ClonesAt(P, at, h, slots, pl, new)
  PROVE  Owned(P, new, M!Copied(h, slots).heap)
<1> USE DEF ClonesAt
<1> DEFINE c == M!Copied(h, slots)
<1> DEFINE H == M!Held(slots)
<1>1. PICK clone : clone = M!Clones(h, slots)
  OBVIOUS
<1>2. clone \in [H -> M!Free(h)] /\ \A j, k \in H : clone[j] = clone[k] => j = k
  BY <1>1, CloneFits
<1>3. /\ c.heap = [p \in Pointers |-> IF \E k \in H : clone[k] = p THEN h[slots[CHOOSE k \in H : clone[k] = p]] ELSE h[p]]
      /\ c.slots = [k \in DOMAIN slots |-> IF slots[k] = NULL THEN NULL ELSE clone[k]]
  BY <1>1 DEF M!Copied
<1>4. H = {k \in 1 .. SLOTS : slots[k] # NULL}
  BY DEF M!Held
<1>5. \A k \in H : clone[k] \in Pointers /\ h[clone[k]] = "free"
  BY <1>2 DEF M!Free
<1> HIDE DEF H
<1>6. c.slots \in [1 .. SLOTS -> Pointers \cup {NULL}] /\ \A k \in 1 .. SLOTS : c.slots[k] = IF k \in H THEN clone[k] ELSE NULL
  BY <1>3, <1>4, <1>5
<1>7. PICK g : g = c.heap
  OBVIOUS
<1>8. ASSUME NEW k \in H PROVE g[clone[k]] = h[slots[k]]
  <2>1. (CHOOSE j \in H : clone[j] = clone[k]) = k
    BY <1>2
  <2> QED BY <1>3, <1>5, <1>7, <2>1
<1>9. \A k \in H : h[slots[k]] \in Types /\ h[slots[k]] # "free"
  BY <1>4 DEF Owned
<1>10. \A p \in Pointers : (\A k \in H : clone[k] # p) => g[p] = h[p]
  BY <1>3, <1>7
<1>11. g \in [Pointers -> Types \cup {"free"}]
  <2>1. g = [p \in Pointers |-> g[p]]
    BY <1>3, <1>7
  <2>2. ASSUME NEW p \in Pointers PROVE g[p] \in Types \cup {"free"}
    <3>1. CASE \E k \in H : clone[k] = p
      BY <1>8, <1>9, <3>1
    <3>2. CASE \A k \in H : clone[k] # p
      BY <1>10, <3>2 DEF Owned
    <3> QED BY <3>1, <3>2
  <2> QED BY <2>1, <2>2
<1>12. Owned(P, new, g)
  <2> DEFINE D == {pl[k] : k \in 1 .. SLOTS}
  <2>1. D \in SUBSET P /\ \A x \in D : at[x] = NULL
    OBVIOUS
  <2>2. \A x \in P \ D : new[x] = at[x]
    OBVIOUS
  <2>3. \A k \in 1 .. SLOTS : new[pl[k]] = IF k \in H THEN clone[k] ELSE NULL
    BY <1>6
  <2>4. \A x \in D : new[x] # NULL => \E k \in H : x = pl[k] /\ new[x] = clone[k]
    BY <2>3
  <2>5. \A k \in H : pl[k] \in D /\ new[pl[k]] = clone[k]
    BY <1>4, <2>3
  <2> HIDE DEF D
  <2>6. \A x, y \in D : new[x] = new[y] /\ new[x] # NULL => x = y
    BY <1>2, <2>4
  <2>7. \A x \in D : new[x] # NULL => h[new[x]] = "free"
    BY <1>5, <2>4
  <2>8. \A x \in D : new[x] # NULL => g[new[x]] # "free"
    BY <1>8, <1>9, <2>4
  <2>9. \A p \in Pointers : (\A x \in D : new[x] # p) => g[p] = h[p]
    BY <1>10, <2>5
  <2> QED BY <1>11, <2>1, <2>2, <2>6, <2>7, <2>8, <2>9, Filled
<1> QED BY <1>7, <1>12

-----------------------------------------------------------------------------
(* The places of the materias.                                                  *)

InHand(p)       == <<"hand", p, 0>>
Pattern(s, k)   == <<"materias", s, k>>
Inventory(s, k) == <<"inventory", s, k>>
Slot(c, k)      == <<"slots", c, k>>
Index           == 1 .. SLOTS
Shelf           == UNION {1 .. n : n \in Rooms}

LEMMA PlacesAre ==
  /\ \A p \in Pointers : InHand(p) \in M!Places
  /\ \A s \in Sources : (\A k \in Index : Pattern(s, k) \in M!Places) /\ (\A k \in Shelf : Inventory(s, k) \in M!Places)
  /\ \A c \in Characters : \A k \in Index : Slot(c, k) \in M!Places
  /\ \A x \in M!Places : \/ \E p \in Pointers : x = InHand(p)
                         \/ \E s \in Sources : (\E k \in Index : x = Pattern(s, k)) \/ (\E k \in Shelf : x = Inventory(s, k))
                         \/ \E c \in Characters : \E k \in Index : x = Slot(c, k)
<1> DEFINE A == {"hand"} \X Pointers \X {0}
           B == {"materias"} \X Sources \X Index
           C == {"inventory"} \X Sources \X Shelf
           D == {"slots"} \X Characters \X Index
<1>1. M!Places = A \cup B \cup C \cup D
  BY DEF M!Places, Index, Shelf
<1>2. (\A p \in Pointers : InHand(p) \in A) /\ (\A x \in A : \E p \in Pointers : x = InHand(p))
  BY DEF InHand
<1>3. (\A s \in Sources : \A k \in Index : Pattern(s, k) \in B) /\ (\A x \in B : \E s \in Sources : \E k \in Index : x = Pattern(s, k))
  BY DEF Pattern
<1>4. (\A s \in Sources : \A k \in Shelf : Inventory(s, k) \in C) /\ (\A x \in C : \E s \in Sources : \E k \in Shelf : x = Inventory(s, k))
  BY DEF Inventory
<1>5. (\A c \in Characters : \A k \in Index : Slot(c, k) \in D) /\ (\A x \in D : \E c \in Characters : \E k \in Index : x = Slot(c, k))
  BY DEF Slot
<1> HIDE DEF A, B, C, D
<1> QED BY <1>1, <1>2, <1>3, <1>4, <1>5

LEMMA PlacesDiffer ==
  /\ \A p, q : InHand(p) = InHand(q) => p = q
  /\ \A s, t, j, k : (Pattern(s, j) = Pattern(t, k) => s = t /\ j = k) /\ (Inventory(s, j) = Inventory(t, k) => s = t /\ j = k)
                     /\ (Slot(s, j) = Slot(t, k) => s = t /\ j = k)
  /\ \A p, s, t, j, k : InHand(p) # Pattern(s, j) /\ InHand(p) # Inventory(s, j) /\ InHand(p) # Slot(s, j)
                        /\ Pattern(s, j) # Inventory(t, k) /\ Pattern(s, j) # Slot(t, k) /\ Inventory(s, j) # Slot(t, k)
BY DEF InHand, Pattern, Inventory, Slot

\* What is in each place, as the objects and the hand of the caller tell.
Content(src, chr, hnd, x) ==
  CASE x[1] = "hand"      -> IF x[2] \in hnd THEN x[2] ELSE NULL
    [] x[1] = "materias"  -> src[x[2]].materias[x[3]]
    [] x[1] = "inventory" -> IF x[3] \in DOMAIN src[x[2]].inventory THEN src[x[2]].inventory[x[3]] ELSE NULL
    [] x[1] = "slots"     -> chr[x[2]].slots[x[3]]

MapOf(src, chr, hnd) == [x \in M!Places |-> Content(src, chr, hnd, x)]

LEMMA MapAt ==
  ASSUME NEW src, NEW chr, NEW hnd
  PROVE  /\ DOMAIN MapOf(src, chr, hnd) = M!Places
         /\ \A p \in Pointers : MapOf(src, chr, hnd)[InHand(p)] = IF p \in hnd THEN p ELSE NULL
         /\ \A s \in Sources : \A k \in Index : MapOf(src, chr, hnd)[Pattern(s, k)] = src[s].materias[k]
         /\ \A s \in Sources : \A k \in Shelf : MapOf(src, chr, hnd)[Inventory(s, k)] = IF k \in DOMAIN src[s].inventory THEN src[s].inventory[k] ELSE NULL
         /\ \A c \in Characters : \A k \in Index : MapOf(src, chr, hnd)[Slot(c, k)] = chr[c].slots[k]
<1>1. DOMAIN MapOf(src, chr, hnd) = M!Places
  BY DEF MapOf
<1>2. ASSUME NEW p \in Pointers PROVE MapOf(src, chr, hnd)[InHand(p)] = IF p \in hnd THEN p ELSE NULL
  <2>1. InHand(p) \in M!Places /\ InHand(p)[1] = "hand" /\ InHand(p)[2] = p
    BY PlacesAre DEF InHand
  <2> QED BY <2>1 DEF MapOf, Content
<1>3. ASSUME NEW s \in Sources, NEW k \in Index PROVE MapOf(src, chr, hnd)[Pattern(s, k)] = src[s].materias[k]
  <2>1. Pattern(s, k) \in M!Places /\ Pattern(s, k)[1] = "materias" /\ Pattern(s, k)[2] = s /\ Pattern(s, k)[3] = k
    BY PlacesAre DEF Pattern
  <2> QED BY <2>1 DEF MapOf, Content
<1>4. ASSUME NEW s \in Sources, NEW k \in Shelf
      PROVE  MapOf(src, chr, hnd)[Inventory(s, k)] = IF k \in DOMAIN src[s].inventory THEN src[s].inventory[k] ELSE NULL
  <2>1. Inventory(s, k) \in M!Places /\ Inventory(s, k)[1] = "inventory" /\ Inventory(s, k)[2] = s /\ Inventory(s, k)[3] = k
    BY PlacesAre DEF Inventory
  <2> QED BY <2>1 DEF MapOf, Content
<1>5. ASSUME NEW c \in Characters, NEW k \in Index PROVE MapOf(src, chr, hnd)[Slot(c, k)] = chr[c].slots[k]
  <2>1. Slot(c, k) \in M!Places /\ Slot(c, k)[1] = "slots" /\ Slot(c, k)[2] = c /\ Slot(c, k)[3] = k
    BY PlacesAre DEF Slot
  <2> QED BY <2>1 DEF MapOf, Content
<1> QED BY <1>1, <1>2, <1>3, <1>4, <1>5

Things == Pointers \cup {NULL}

\* Two functions of the places are the same when they agree on every kind of place.
LEMMA SameMap ==
  ASSUME NEW f \in [M!Places -> Things], NEW g \in [M!Places -> Things],
         \A p \in Pointers : f[InHand(p)] = g[InHand(p)],
         \A s \in Sources : (\A k \in Index : f[Pattern(s, k)] = g[Pattern(s, k)]) /\ (\A k \in Shelf : f[Inventory(s, k)] = g[Inventory(s, k)]),
         \A c \in Characters : \A k \in Index : f[Slot(c, k)] = g[Slot(c, k)]
  PROVE  f = g
<1>1. ASSUME NEW x \in M!Places PROVE f[x] = g[x]
  BY PlacesAre
<1> QED BY <1>1

SourceObjects    == [live : BOOLEAN, materias : [Index -> Things], inventory : UNION {[1 .. n -> Things] : n \in Rooms}]
CharacterObjects == [live : BOOLEAN, slots : [Index -> Things]]

Typed(src, chr, hnd) == src \in [Sources -> SourceObjects] /\ chr \in [Characters -> CharacterObjects] /\ hnd \in SUBSET Pointers

LEMMA MapType ==
  ASSUME NEW src, NEW chr, NEW hnd, Typed(src, chr, hnd)
  PROVE  /\ MapOf(src, chr, hnd) \in [M!Places -> Things]
         /\ \A s \in Sources : DOMAIN src[s].inventory \subseteq Shelf /\ DOMAIN src[s].materias = Index
         /\ \A c \in Characters : DOMAIN chr[c].slots = Index
<1>1. \A s \in Sources : src[s].materias \in [Index -> Things] /\ \E n \in Rooms : src[s].inventory \in [1 .. n -> Things]
  BY DEF Typed, SourceObjects
<1>2. \A c \in Characters : chr[c].slots \in [Index -> Things]
  BY DEF Typed, CharacterObjects
<1>3. PICK f : f = MapOf(src, chr, hnd)
  OBVIOUS
<1>4. f \in [M!Places -> {f[x] : x \in M!Places}]
  BY <1>3 DEF MapOf
<1>5. ASSUME NEW x \in M!Places PROVE f[x] \in Things
  <2>1. ASSUME NEW p \in Pointers PROVE f[InHand(p)] \in Things
    BY <1>3, MapAt DEF Things
  <2>2. ASSUME NEW s \in Sources, NEW k \in Index PROVE f[Pattern(s, k)] \in Things
    BY <1>1, <1>3, MapAt
  <2>3. ASSUME NEW s \in Sources, NEW k \in Shelf PROVE f[Inventory(s, k)] \in Things
    <3>1. f[Inventory(s, k)] = IF k \in DOMAIN src[s].inventory THEN src[s].inventory[k] ELSE NULL
      BY <1>3, MapAt
    <3> QED BY <1>1, <3>1 DEF Things
  <2>4. ASSUME NEW c \in Characters, NEW k \in Index PROVE f[Slot(c, k)] \in Things
    BY <1>2, <1>3, MapAt
  <2> QED BY <2>1, <2>2, <2>3, <2>4, PlacesAre
<1>6. \A s \in Sources : DOMAIN src[s].inventory \subseteq Shelf /\ DOMAIN src[s].materias = Index
  BY <1>1 DEF Shelf
<1> QED BY <1>2, <1>3, <1>4, <1>5, <1>6

\* The caller gives something away, or is given something.
Gives(hnd, m)   == hnd \ {m}
IsGiven(hnd, m) == hnd \cup {m}

LEMMA HandChanges ==
  ASSUME NEW src, NEW chr, NEW hnd, Typed(src, chr, hnd), NEW m \in Pointers
  PROVE  /\ Typed(src, chr, Gives(hnd, m)) /\ Typed(src, chr, IsGiven(hnd, m))
         /\ MapOf(src, chr, Gives(hnd, m)) = [MapOf(src, chr, hnd) EXCEPT ![InHand(m)] = NULL]
         /\ MapOf(src, chr, IsGiven(hnd, m)) = [MapOf(src, chr, hnd) EXCEPT ![InHand(m)] = m]
<1>1. Typed(src, chr, Gives(hnd, m)) /\ Typed(src, chr, IsGiven(hnd, m))
  BY DEF Typed, Gives, IsGiven
<1>2. PICK f : f = MapOf(src, chr, hnd)
  OBVIOUS
<1>3. f \in [M!Places -> Things]
  BY <1>2, MapType
<1>4. PICK less, more : less = Gives(hnd, m) /\ more = IsGiven(hnd, m)
  OBVIOUS
<1>5. MapOf(src, chr, less) = [f EXCEPT ![InHand(m)] = NULL]
  <2>1. PICK g, e : g = MapOf(src, chr, less) /\ e = [f EXCEPT ![InHand(m)] = NULL]
    OBVIOUS
  <2>2. g \in [M!Places -> Things]
    BY <1>1, <1>4, <2>1, MapType
  <2>3. e \in [M!Places -> Things] /\ e[InHand(m)] = NULL /\ \A x \in M!Places : x # InHand(m) => e[x] = f[x]
    BY <1>3, <2>1, PlacesAre DEF Things
  <2>4. \A p \in Pointers : g[InHand(p)] = e[InHand(p)]
    BY <1>2, <1>4, <2>1, <2>3, MapAt, PlacesAre, PlacesDiffer DEF Gives, IsGiven
  <2>5. \A s \in Sources : (\A k \in Index : e[Pattern(s, k)] = f[Pattern(s, k)]) /\ (\A k \in Shelf : e[Inventory(s, k)] = f[Inventory(s, k)])
    BY <2>3, PlacesAre, PlacesDiffer
  <2>6. \A s \in Sources : (\A k \in Index : g[Pattern(s, k)] = f[Pattern(s, k)]) /\ (\A k \in Shelf : g[Inventory(s, k)] = f[Inventory(s, k)])
    BY <1>2, <2>1, MapAt
  <2>7. \A c \in Characters : \A k \in Index : e[Slot(c, k)] = f[Slot(c, k)]
    BY <2>3, PlacesAre, PlacesDiffer
  <2>8. \A c \in Characters : \A k \in Index : g[Slot(c, k)] = f[Slot(c, k)]
    BY <1>2, <2>1, MapAt
  <2>9. g = e
    BY <2>2, <2>3, <2>4, <2>5, <2>6, <2>7, <2>8, SameMap
  <2> QED BY <2>1, <2>9
<1>6. MapOf(src, chr, more) = [f EXCEPT ![InHand(m)] = m]
  <2>1. PICK g, e : g = MapOf(src, chr, more) /\ e = [f EXCEPT ![InHand(m)] = m]
    OBVIOUS
  <2>2. g \in [M!Places -> Things]
    BY <1>1, <1>4, <2>1, MapType
  <2>3. e \in [M!Places -> Things] /\ e[InHand(m)] = m /\ \A x \in M!Places : x # InHand(m) => e[x] = f[x]
    BY <1>3, <2>1, PlacesAre DEF Things
  <2>4. \A p \in Pointers : g[InHand(p)] = e[InHand(p)]
    BY <1>2, <1>4, <2>1, <2>3, MapAt, PlacesAre, PlacesDiffer DEF Gives, IsGiven
  <2>5. \A s \in Sources : (\A k \in Index : e[Pattern(s, k)] = f[Pattern(s, k)]) /\ (\A k \in Shelf : e[Inventory(s, k)] = f[Inventory(s, k)])
    BY <2>3, PlacesAre, PlacesDiffer
  <2>6. \A s \in Sources : (\A k \in Index : g[Pattern(s, k)] = f[Pattern(s, k)]) /\ (\A k \in Shelf : g[Inventory(s, k)] = f[Inventory(s, k)])
    BY <1>2, <2>1, MapAt
  <2>7. \A c \in Characters : \A k \in Index : e[Slot(c, k)] = f[Slot(c, k)]
    BY <2>3, PlacesAre, PlacesDiffer
  <2>8. \A c \in Characters : \A k \in Index : g[Slot(c, k)] = f[Slot(c, k)]
    BY <1>2, <2>1, MapAt
  <2>9. g = e
    BY <2>2, <2>3, <2>4, <2>5, <2>6, <2>7, <2>8, SameMap
  <2> QED BY <2>1, <2>9
<1> QED BY <1>1, <1>2, <1>4, <1>5, <1>6

\* One object changes.
OnlySource(src, s, new)    == new \in [Sources -> SourceObjects] /\ \A t \in Sources : t # s => new[t] = src[t]
OnlyCharacter(chr, c, new) == new \in [Characters -> CharacterObjects] /\ \A d \in Characters : d # c => new[d] = chr[d]

SourceMap(src, chr, hnd, s, new) ==
  /\ Typed(new, chr, hnd)
  /\ \A k \in Index : MapOf(new, chr, hnd)[Pattern(s, k)] = new[s].materias[k]
  /\ \A k \in Shelf : MapOf(new, chr, hnd)[Inventory(s, k)] = IF k \in DOMAIN new[s].inventory THEN new[s].inventory[k] ELSE NULL
  /\ \A x \in M!Places : (\A k \in Index : x # Pattern(s, k)) /\ (\A k \in Shelf : x # Inventory(s, k)) => MapOf(new, chr, hnd)[x] = MapOf(src, chr, hnd)[x]

LEMMA SourceChanges ==
  ASSUME NEW src, NEW chr, NEW hnd, Typed(src, chr, hnd), NEW s \in Sources, NEW new, OnlySource(src, s, new)
  PROVE  SourceMap(src, chr, hnd, s, new)
<1>1. Typed(new, chr, hnd) /\ \A t \in Sources : t # s => new[t] = src[t]
  BY DEF Typed, OnlySource
<1>2. \A k \in Index : MapOf(new, chr, hnd)[Pattern(s, k)] = new[s].materias[k]
  BY <1>1, MapAt
<1>3. \A k \in Shelf : MapOf(new, chr, hnd)[Inventory(s, k)] = IF k \in DOMAIN new[s].inventory THEN new[s].inventory[k] ELSE NULL
  BY <1>1, MapAt
<1>4. ASSUME NEW x \in M!Places, \A k \in Index : x # Pattern(s, k), \A k \in Shelf : x # Inventory(s, k) PROVE MapOf(new, chr, hnd)[x] = MapOf(src, chr, hnd)[x]
  <2>1. ASSUME NEW p \in Pointers, x = InHand(p) PROVE MapOf(new, chr, hnd)[x] = MapOf(src, chr, hnd)[x]
    BY <1>1, <2>1, MapAt
  <2>2. ASSUME NEW t \in Sources, NEW k \in Index, x = Pattern(t, k) PROVE MapOf(new, chr, hnd)[x] = MapOf(src, chr, hnd)[x]
    <3>1. t # s
      BY <1>4, <2>2
    <3> QED BY <1>1, <2>2, <3>1, MapAt
  <2>3. ASSUME NEW t \in Sources, NEW k \in Shelf, x = Inventory(t, k) PROVE MapOf(new, chr, hnd)[x] = MapOf(src, chr, hnd)[x]
    <3>1. t # s
      BY <1>4, <2>3
    <3> QED BY <1>1, <2>3, <3>1, MapAt
  <2>4. ASSUME NEW c \in Characters, NEW k \in Index, x = Slot(c, k) PROVE MapOf(new, chr, hnd)[x] = MapOf(src, chr, hnd)[x]
    BY <1>1, <2>4, MapAt
  <2> QED BY <2>1, <2>2, <2>3, <2>4, PlacesAre
<1> QED BY <1>1, <1>2, <1>3, <1>4 DEF SourceMap

CharacterMap(src, chr, hnd, c, new) ==
  /\ Typed(src, new, hnd)
  /\ \A k \in Index : MapOf(src, new, hnd)[Slot(c, k)] = new[c].slots[k]
  /\ \A x \in M!Places : (\A k \in Index : x # Slot(c, k)) => MapOf(src, new, hnd)[x] = MapOf(src, chr, hnd)[x]

LEMMA CharacterChanges ==
  ASSUME NEW src, NEW chr, NEW hnd, Typed(src, chr, hnd), NEW c \in Characters, NEW new, OnlyCharacter(chr, c, new)
  PROVE  CharacterMap(src, chr, hnd, c, new)
<1>1. Typed(src, new, hnd) /\ \A d \in Characters : d # c => new[d] = chr[d]
  BY DEF Typed, OnlyCharacter
<1>2. \A k \in Index : MapOf(src, new, hnd)[Slot(c, k)] = new[c].slots[k]
  BY <1>1, MapAt
<1>3. ASSUME NEW x \in M!Places, \A k \in Index : x # Slot(c, k) PROVE MapOf(src, new, hnd)[x] = MapOf(src, chr, hnd)[x]
  <2>1. ASSUME NEW p \in Pointers, x = InHand(p) PROVE MapOf(src, new, hnd)[x] = MapOf(src, chr, hnd)[x]
    BY <1>1, <2>1, MapAt
  <2>2. ASSUME NEW t \in Sources, NEW k \in Index, x = Pattern(t, k) PROVE MapOf(src, new, hnd)[x] = MapOf(src, chr, hnd)[x]
    BY <1>1, <2>2, MapAt
  <2>3. ASSUME NEW t \in Sources, NEW k \in Shelf, x = Inventory(t, k) PROVE MapOf(src, new, hnd)[x] = MapOf(src, chr, hnd)[x]
    BY <1>1, <2>3, MapAt
  <2>4. ASSUME NEW d \in Characters, NEW k \in Index, x = Slot(d, k) PROVE MapOf(src, new, hnd)[x] = MapOf(src, chr, hnd)[x]
    <3>1. d # c
      BY <1>3, <2>4
    <3> QED BY <1>1, <2>4, <3>1, MapAt
  <2> QED BY <2>1, <2>2, <2>3, <2>4, PlacesAre
<1> QED BY <1>1, <1>2, <1>3 DEF CharacterMap

-----------------------------------------------------------------------------
(* What the functions of the materias do.                                       *)

\* Everything there is has one owner; what is no object any more holds nothing.
Sound(src, chr, hnd, h) ==
  /\ Typed(src, chr, hnd) /\ Owned(M!Places, MapOf(src, chr, hnd), h)
  /\ \A s \in Sources : ~src[s].live => M!Held(src[s].materias) = {} /\ M!Held(src[s].inventory) = {}

\* The first free place, when there is one.
LEMMA FreePlace ==
  ASSUME NEW n \in Nat, NEW slots \in [1 .. n -> Things], M!FirstFree(slots) # 0
  PROVE  M!FirstFree(slots) \in 1 .. n /\ slots[M!FirstFree(slots)] = NULL
<1> DEFINE I == {i \in 1 .. n : slots[i] = NULL}
<1>1. Len(slots) = n
  OBVIOUS
<1>2. M!FirstFree(slots) = IF {i \in 1 .. Len(slots) : slots[i] = NULL} # {} THEN Min({i \in 1 .. Len(slots) : slots[i] = NULL}) ELSE 0
  BY Zenon DEF M!FirstFree, M!SelectInSeq, M!Min, Min
<1>3. I # {} /\ M!FirstFree(slots) = Min(I)
  BY <1>1, <1>2
<1>4. I \in SUBSET Nat
  OBVIOUS
<1>5. Min(I) \in I
  <2> HIDE DEF I
  <2>1. \E i \in I : \A j \in I : i =< j
    BY <1>3, <1>4, LeastOf
  <2> QED BY <2>1, Zenon DEF Min
<1> QED BY <1>3, <1>5

\* Memory that is new.
LEMMA NewIsFree ==
  ASSUME M!ConstantsAssumption, NEW h, Cardinality(M!Free(h)) >= 1
  PROVE  M!New(h) \in Pointers /\ h[M!New(h)] = "free"
<1>1. M!Free(h) # {}
  BY FS_EmptySet
<1>2. M!New(h) \in M!Free(h)
  BY <1>1 DEF M!New
<1> QED BY <1>2 DEF M!Free

\* The caller gets a new materia.
LEMMA HandedNew ==
  ASSUME M!ConstantsAssumption, NEW src, NEW chr, NEW hnd, NEW h, Sound(src, chr, hnd, h), NEW type \in Types,
         NEW p \in Pointers, h[p] = "free", NEW g, g = [h EXCEPT ![p] = type]
  PROVE  Sound(src, chr, IsGiven(hnd, p), g)
<1>1. p \in Pointers /\ h[p] = "free"
  OBVIOUS
<1>2. PICK f, new : f = MapOf(src, chr, hnd) /\ new = MapOf(src, chr, IsGiven(hnd, p))
  OBVIOUS
<1>3. Typed(src, chr, hnd) /\ Owned(M!Places, f, h)
  BY <1>2 DEF Sound
<1>4. Typed(src, chr, IsGiven(hnd, p)) /\ new = [f EXCEPT ![InHand(p)] = p]
  BY <1>1, <1>2, <1>3, HandChanges
<1>5. InHand(p) \in M!Places
  BY <1>1, PlacesAre
<1>6. f \in [M!Places -> Pointers \cup {NULL}] /\ h \in [Pointers -> Types \cup {"free"}] /\ p # NULL
  BY <1>1, <1>3 DEF Owned, M!ConstantsAssumption
<1>7. f[InHand(p)] = NULL
  <2>1. f[InHand(p)] = IF p \in hnd THEN p ELSE NULL
    BY <1>1, <1>2, MapAt
  <2>2. f[InHand(p)] # NULL => h[f[InHand(p)]] # "free"
    BY <1>3, <1>5 DEF Owned
  <2> QED BY <1>1, <2>1, <2>2
<1>8. Owned(M!Places, new, g)
  <2>1. PICK D : D = {InHand(p)}
    OBVIOUS
  <2>2. D \in SUBSET M!Places /\ \A x \in D : f[x] = NULL
    BY <1>5, <1>7, <2>1
  <2>3. new \in [M!Places -> Pointers \cup {NULL}] /\ \A x \in M!Places \ D : new[x] = f[x]
    BY <1>1, <1>4, <1>5, <1>6, <2>1
  <2>4. \A x \in D : new[x] = p
    BY <1>4, <1>5, <1>6, <2>1
  <2>5. \A x, y \in D : x = y
    BY <2>1
  <2>6. PICK e : e = g
    OBVIOUS
  <2>7. e \in [Pointers -> Types \cup {"free"}] /\ e[p] # "free" /\ \A q \in Pointers : q # p => e[q] = h[q]
    BY <1>1, <1>6, <2>6 DEF M!ConstantsAssumption
  <2>8. \A q \in Pointers : (\A x \in D : new[x] # q) => e[q] = h[q]
    BY <2>1, <2>4, <2>7
  <2>9. Owned(M!Places, new, e)
    BY <1>1, <1>3, <2>2, <2>3, <2>4, <2>5, <2>7, <2>8, Filled
  <2> QED BY <2>6, <2>9
<1> QED BY <1>2, <1>4, <1>8 DEF Sound


\* What the objects are, when only their places changed.
LEMMA Living ==
  ASSUME NEW src, NEW chr, NEW hnd, NEW h, Sound(src, chr, hnd, h), NEW s \in Sources, NEW new, OnlySource(src, s, new), NEW chr2, NEW hnd2, NEW g,
         Typed(new, chr2, hnd2), Owned(M!Places, MapOf(new, chr2, hnd2), g), new[s].live \/ (M!Held(new[s].materias) = {} /\ M!Held(new[s].inventory) = {})
  PROVE  Sound(new, chr2, hnd2, g)
BY DEF Sound, OnlySource

\* A source with something more on its shelf.
LEMMA FullerShelf ==
  ASSUME M!ConstantsAssumption, NEW old \in SourceObjects, M!FirstFree(old.inventory) # 0, NEW m \in Pointers,
         NEW k, k = M!FirstFree(old.inventory), NEW o, o = [old EXCEPT !.inventory[k] = m]
  PROVE  /\ o \in SourceObjects /\ o.live = old.live /\ o.materias = old.materias /\ k \in Shelf /\ k \in DOMAIN old.inventory
         /\ old.inventory[k] = NULL /\ o.inventory[k] = m /\ DOMAIN o.inventory = DOMAIN old.inventory
         /\ \A j \in DOMAIN old.inventory : j # k => o.inventory[j] = old.inventory[j]
<1>1. PICK n \in Rooms : old.inventory \in [1 .. n -> Things]
  BY DEF SourceObjects
<1>2. n \in Nat
  BY DEF M!ConstantsAssumption
<1>3. k \in 1 .. n /\ old.inventory[k] = NULL
  BY <1>1, <1>2, FreePlace
<1>4. k \in Shelf
  BY <1>3 DEF Shelf
<1>5. o.inventory \in [1 .. n -> Things] /\ o.inventory[k] = m /\ \A j \in 1 .. n : j # k => o.inventory[j] = old.inventory[j]
  BY <1>1, <1>3 DEF SourceObjects, Things
<1>6. o.live = old.live /\ o.materias = old.materias
  BY DEF SourceObjects
<1>7. o.inventory \in UNION {[1 .. j -> Things] : j \in Rooms}
  BY <1>5
<1>8. o = [live |-> o.live, materias |-> o.materias, inventory |-> o.inventory]
  BY DEF SourceObjects
<1>9. o \in SourceObjects
  BY <1>6, <1>7, <1>8 DEF SourceObjects
<1> QED BY <1>1, <1>3, <1>4, <1>5, <1>6, <1>9

\* A materia that the caller gives away goes to a free place of a source.
LEMMA Shelved ==
  ASSUME M!ConstantsAssumption, NEW src, NEW chr, NEW hnd, NEW h, Sound(src, chr, hnd, h), NEW m \in hnd, NEW s \in Sources,
         NEW k \in Shelf, k \in DOMAIN src[s].inventory, src[s].inventory[k] = NULL,
         NEW e, OnlySource(src, s, e), e[s].live, e[s].materias = src[s].materias, DOMAIN e[s].inventory = DOMAIN src[s].inventory,
         e[s].inventory[k] = m, \A j \in DOMAIN src[s].inventory : j # k => e[s].inventory[j] = src[s].inventory[j]
  PROVE  Sound(e, chr, Gives(hnd, m), h)
<1>1. m \in Pointers /\ Typed(src, chr, hnd)
  BY DEF Sound, Typed
<1>2. PICK less : less = Gives(hnd, m)
  OBVIOUS
<1>3. PICK f, f1, g : f = MapOf(src, chr, hnd) /\ f1 = MapOf(src, chr, less) /\ g = MapOf(e, chr, less)
  OBVIOUS
<1>4. Typed(src, chr, less) /\ f1 = [f EXCEPT ![InHand(m)] = NULL]
  BY <1>1, <1>2, <1>3, HandChanges
<1>5. /\ Typed(e, chr, less)
      /\ \A j \in Index : g[Pattern(s, j)] = e[s].materias[j]
      /\ \A j \in Shelf : g[Inventory(s, j)] = IF j \in DOMAIN e[s].inventory THEN e[s].inventory[j] ELSE NULL
      /\ \A x \in M!Places : (\A j \in Index : x # Pattern(s, j)) /\ (\A j \in Shelf : x # Inventory(s, j)) => g[x] = f1[x]
  <2>1. SourceMap(src, chr, less, s, e)
    BY <1>4, SourceChanges
  <2> QED BY <1>3, <2>1 DEF SourceMap
<1>6. Owned(M!Places, f, h)
  BY <1>3 DEF Sound
<1>7. f \in [M!Places -> Things] /\ g \in [M!Places -> Things] /\ InHand(m) \in M!Places /\ Inventory(s, k) \in M!Places /\ InHand(m) # Inventory(s, k)
  BY <1>1, <1>3, <1>5, MapType, PlacesAre, PlacesDiffer
<1>8. f[InHand(m)] = m /\ f[Inventory(s, k)] = NULL /\ g[Inventory(s, k)] = m
  <2>1. f[InHand(m)] = m
    BY <1>1, <1>3, MapAt
  <2>2. f[Inventory(s, k)] = NULL
    BY <1>3, MapAt
  <2> QED BY <1>5, <2>1, <2>2
<1>9. \A x \in M!Places : x # InHand(m) => f1[x] = f[x]
  BY <1>4, <1>7
<1>10. g[InHand(m)] = NULL
  <2>1. \A j : InHand(m) # Pattern(s, j) /\ InHand(m) # Inventory(s, j)
    BY PlacesDiffer
  <2>2. g[InHand(m)] = f1[InHand(m)]
    BY <1>5, <1>7, <2>1
  <2> QED BY <1>4, <1>7, <2>2
<1>11. ASSUME NEW x \in M!Places, x # InHand(m), x # Inventory(s, k) PROVE g[x] = f[x]
  <2>1. ASSUME NEW j \in Index, x = Pattern(s, j) PROVE g[x] = f[x]
    BY <1>3, <1>5, <2>1, MapAt
  <2>2. ASSUME NEW j \in Shelf, x = Inventory(s, j) PROVE g[x] = f[x]
    <3>1. j # k
      BY <1>11, <2>2
    <3>2. f[x] = IF j \in DOMAIN src[s].inventory THEN src[s].inventory[j] ELSE NULL
      BY <1>3, <2>2, MapAt
    <3>3. g[x] = IF j \in DOMAIN e[s].inventory THEN e[s].inventory[j] ELSE NULL
      BY <1>5, <2>2
    <3> QED BY <3>1, <3>2, <3>3
  <2>3. CASE (\A j \in Index : x # Pattern(s, j)) /\ (\A j \in Shelf : x # Inventory(s, j))
    BY <1>5, <1>9, <1>11, <2>3
  <2> QED BY <2>1, <2>2, <2>3
<1>12. Owned(M!Places, g, h)
  BY <1>1, <1>6, <1>7, <1>8, <1>10, <1>11, Passed DEF Things
<1> QED BY <1>2, <1>3, <1>5, <1>12, Living

\* A source is given a pattern in new memory.
Put(h, p, type) == [h EXCEPT ![p] = type]

LEMMA PatternNew ==
  ASSUME M!ConstantsAssumption, NEW src, NEW chr, NEW hnd, NEW h, Sound(src, chr, hnd, h), NEW s \in Sources, src[s].live,
         NEW i \in Index, src[s].materias[i] = NULL, NEW p \in Pointers, h[p] = "free", NEW type \in Types, NEW g, g = Put(h, p, type),
         NEW new, OnlySource(src, s, new), new[s].live, new[s].inventory = src[s].inventory,
         new[s].materias[i] = p, \A j \in Index : j # i => new[s].materias[j] = src[s].materias[j]
  PROVE  Sound(new, chr, hnd, g)
<1>1. PICK f, n : f = MapOf(src, chr, hnd) /\ n = MapOf(new, chr, hnd)
  OBVIOUS
<1>2. Typed(src, chr, hnd) /\ Owned(M!Places, f, h) /\ f \in [M!Places -> Things]
  <2>1. Typed(src, chr, hnd)
    BY DEF Sound
  <2> QED BY <1>1, <2>1, MapType DEF Sound
<1>3. SourceMap(src, chr, hnd, s, new)
  BY <1>2, SourceChanges
<1>4. /\ Typed(new, chr, hnd)
      /\ \A j \in Index : n[Pattern(s, j)] = new[s].materias[j]
      /\ \A j \in Shelf : n[Inventory(s, j)] = IF j \in DOMAIN new[s].inventory THEN new[s].inventory[j] ELSE NULL
      /\ \A x \in M!Places : (\A j \in Index : x # Pattern(s, j)) /\ (\A j \in Shelf : x # Inventory(s, j)) => n[x] = f[x]
  BY <1>1, <1>3 DEF SourceMap
<1>5. n \in [M!Places -> Things]
  BY <1>1, <1>4, MapType
<1>6. PICK D : D = {Pattern(s, i)}
  OBVIOUS
<1>7. D \in SUBSET M!Places /\ \A x \in D : f[x] = NULL /\ n[x] = p
  <2>1. Pattern(s, i) \in M!Places
    BY PlacesAre
  <2>2. f[Pattern(s, i)] = NULL
    BY <1>1, MapAt
  <2>3. n[Pattern(s, i)] = p
    BY <1>4
  <2> QED BY <1>6, <2>1, <2>2, <2>3
<1>8. \A x \in M!Places \ D : n[x] = f[x]
  <2>1. ASSUME NEW x \in M!Places, x # Pattern(s, i) PROVE n[x] = f[x]
    <3>1. ASSUME NEW j \in Index, x = Pattern(s, j) PROVE n[x] = f[x]
      <4>1. j # i
        BY <2>1, <3>1
      <4>2. f[x] = src[s].materias[j]
        BY <1>1, <3>1, MapAt
      <4> QED BY <1>4, <3>1, <4>1, <4>2
    <3>2. ASSUME NEW j \in Shelf, x = Inventory(s, j) PROVE n[x] = f[x]
      <4>1. f[x] = IF j \in DOMAIN src[s].inventory THEN src[s].inventory[j] ELSE NULL
        BY <1>1, <3>2, MapAt
      <4> QED BY <1>4, <3>2, <4>1
    <3> QED BY <1>4, <2>1, <3>1, <3>2
  <2> QED BY <1>6, <2>1
<1>9. h \in [Pointers -> Types \cup {"free"}] /\ "free" \notin Types
  BY <1>2 DEF Owned, M!ConstantsAssumption
<1>10. g \in [Pointers -> Types \cup {"free"}] /\ g[p] # "free" /\ \A q \in Pointers : q # p => g[q] = h[q]
  BY <1>9 DEF Put
<1>11. \A x, y \in D : x = y
  BY <1>6
<1>12. \A q \in Pointers : (\A x \in D : n[x] # q) => g[q] = h[q]
  BY <1>6, <1>7, <1>10
<1>13. Owned(M!Places, n, g)
  <2>1. PICK e : e = g
    OBVIOUS
  <2>2. n \in [M!Places -> Pointers \cup {NULL}]
    BY <1>5 DEF Things
  <2>3. e \in [Pointers -> Types \cup {"free"}] /\ (\A x \in D : n[x] # NULL => e[n[x]] # "free" /\ h[n[x]] = "free") /\ \A q \in Pointers : (\A x \in D : n[x] # q) => e[q] = h[q]
    BY <1>7, <1>10, <1>12, <2>1
  <2>4. Owned(M!Places, n, e)
    BY <1>2, <1>7, <1>8, <1>11, <2>2, <2>3, Filled
  <2> QED BY <2>1, <2>4
<1> QED BY <1>1, <1>4, <1>13, Living

\* A materia that the caller gives away is deleted.
LEMMA Discarded ==
  ASSUME M!ConstantsAssumption, NEW src, NEW chr, NEW hnd, NEW h, Sound(src, chr, hnd, h), NEW m \in hnd, NEW g, g = [h EXCEPT ![m] = "free"]
  PROVE  Sound(src, chr, Gives(hnd, m), g)
<1>1. PICK f, n : f = MapOf(src, chr, hnd) /\ n = MapOf(src, chr, Gives(hnd, m))
  OBVIOUS
<1>2. Typed(src, chr, hnd) /\ Owned(M!Places, f, h) /\ m \in Pointers
  BY <1>1 DEF Sound, Typed
<1>3. Typed(src, chr, Gives(hnd, m)) /\ n = [f EXCEPT ![InHand(m)] = NULL]
  BY <1>1, <1>2, HandChanges
<1>4. f \in [M!Places -> Pointers \cup {NULL}] /\ h \in [Pointers -> Types \cup {"free"}] /\ InHand(m) \in M!Places /\ m # NULL
  BY <1>2, PlacesAre DEF Owned, M!ConstantsAssumption
<1>5. f[InHand(m)] = m
  BY <1>1, <1>2, MapAt
<1>6. n \in [M!Places -> Pointers \cup {NULL}] /\ n[InHand(m)] = NULL /\ \A x \in M!Places : x # InHand(m) => n[x] = f[x]
  BY <1>3, <1>4
<1>7. PICK e : e = g
  OBVIOUS
<1>8. e \in [Pointers -> Types \cup {"free"}] /\ e[m] = "free" /\ \A q \in Pointers : q # m => e[q] = h[q]
  BY <1>2, <1>4, <1>7
<1>9. \A x, y \in M!Places : n[x] = n[y] /\ n[x] # NULL => x = y
  BY <1>2, <1>6 DEF Owned
<1>10. ASSUME NEW x \in M!Places, n[x] # NULL PROVE e[n[x]] # "free"
  <2>1. x # InHand(m) /\ n[x] = f[x]
    BY <1>6, <1>10
  <2>2. f[x] # m
    BY <1>2, <1>4, <1>5, <2>1 DEF Owned
  <2> QED BY <1>2, <1>4, <1>8, <1>10, <2>1, <2>2 DEF Owned
<1>11. ASSUME NEW p \in Pointers, e[p] # "free" PROVE \E x \in M!Places : n[x] = p
  <2>1. p # m /\ h[p] # "free"
    BY <1>8, <1>11
  <2>2. PICK x \in M!Places : f[x] = p
    BY <1>2, <2>1 DEF Owned
  <2> QED BY <1>5, <1>6, <2>1, <2>2
<1>12. Owned(M!Places, n, e)
  BY <1>6, <1>8, <1>9, <1>10, <1>11 DEF Owned
<1> QED BY <1>1, <1>3, <1>7, <1>12 DEF Sound

\* The patterns of a source are deleted.
LEMMA PatternsDropped ==
  ASSUME M!ConstantsAssumption, NEW src, NEW chr, NEW hnd, NEW h, Sound(src, chr, hnd, h), NEW s \in Sources, src[s].live,
         NEW new, OnlySource(src, s, new), new[s].live, new[s].inventory = src[s].inventory, \A k \in Index : new[s].materias[k] = NULL,
         NEW d, d = M!Deleted(h, src[s].materias)
  PROVE  Sound(new, chr, hnd, d.heap) /\ ~d.twice
<1>1. PICK f, n : f = MapOf(src, chr, hnd) /\ n = MapOf(new, chr, hnd)
  OBVIOUS
<1>2. Typed(src, chr, hnd) /\ Owned(M!Places, f, h)
  BY <1>1 DEF Sound
<1>3. Typed(new, chr, hnd)
  BY <1>2, SourceChanges DEF SourceMap
<1>4. n \in [M!Places -> Pointers \cup {NULL}]
  BY <1>1, <1>3, MapType DEF Things
<1>5. PICK pl : pl = [k \in Index |-> Pattern(s, k)]
  OBVIOUS
<1>6. PICK slots : slots = src[s].materias
  OBVIOUS
<1>7. DOMAIN slots = Index
  BY <1>2, <1>6, MapType
<1>8. pl \in [DOMAIN slots -> M!Places] /\ (\A j, k \in DOMAIN slots : pl[j] = pl[k] => j = k) /\ \A k \in DOMAIN slots : pl[k] = Pattern(s, k)
  BY <1>5, <1>7, PlacesAre, PlacesDiffer
<1>9. \A k \in DOMAIN slots : f[pl[k]] = slots[k] /\ n[pl[k]] = NULL
  BY <1>1, <1>6, <1>7, <1>8, MapAt
<1>10. ASSUME NEW x \in M!Places, \A k \in DOMAIN slots : pl[k] # x PROVE n[x] = f[x]
  <2>1. \A k \in Index : x # Pattern(s, k)
    BY <1>7, <1>8, <1>10
  <2>2. ASSUME NEW j \in Shelf, x = Inventory(s, j) PROVE n[x] = f[x]
    BY <1>1, <2>2, MapAt
  <2>3. CASE \A j \in Shelf : x # Inventory(s, j)
    <3>1. SourceMap(src, chr, hnd, s, new)
      BY <1>2, SourceChanges
    <3> QED BY <1>1, <2>1, <2>3, <3>1 DEF SourceMap
  <2> QED BY <2>2, <2>3
<1>11. d = M!Deleted(h, slots)
  BY <1>6
<1>12. Owned(M!Places, n, d.heap) /\ ~d.twice
  BY <1>2, <1>4, <1>8, <1>9, <1>10, <1>11, Dropped
<1>13. PICK g : g = d.heap
  OBVIOUS
<1>14. Sound(new, chr, hnd, g)
  BY <1>1, <1>3, <1>12, <1>13, Living
<1> QED BY <1>12, <1>13, <1>14

\* Clones are the patterns of a source that had none.
LEMMA PatternsCloned ==
  ASSUME M!ConstantsAssumption, NEW src, NEW chr, NEW hnd, NEW h, Sound(src, chr, hnd, h), NEW s \in Sources,
         \A k \in Index : src[s].materias[k] = NULL, M!Held(src[s].inventory) = {},
         NEW slots \in [Index -> Things], \A k \in Index : slots[k] # NULL => h[slots[k]] # "free", Cardinality(M!Free(h)) >= SLOTS,
         NEW c, c = M!Copied(h, slots), NEW new, OnlySource(src, s, new), new[s].live, new[s].materias = c.slots, M!Held(new[s].inventory) = {}
  PROVE  Sound(new, chr, hnd, c.heap)
<1>1. PICK f, n : f = MapOf(src, chr, hnd) /\ n = MapOf(new, chr, hnd)
  OBVIOUS
<1>2. Typed(src, chr, hnd) /\ Owned(M!Places, f, h)
  BY <1>1 DEF Sound
<1>3. Typed(new, chr, hnd)
  BY <1>2, SourceChanges DEF SourceMap
<1>4. n \in [M!Places -> Pointers \cup {NULL}] /\ DOMAIN n = M!Places
  BY <1>1, <1>3, MapType DEF Things
<1>5. PICK pl : pl = [k \in Index |-> Pattern(s, k)]
  OBVIOUS
<1>6. pl \in [1 .. SLOTS -> M!Places] /\ (\A j, k \in 1 .. SLOTS : pl[j] = pl[k] => j = k) /\ \A k \in 1 .. SLOTS : pl[k] = Pattern(s, k)
  BY <1>5, PlacesAre, PlacesDiffer DEF Index
<1>7. \A k \in 1 .. SLOTS : f[pl[k]] = NULL /\ n[pl[k]] = c.slots[k]
  BY <1>1, <1>6, MapAt DEF Index
<1>8. ASSUME NEW x \in M!Places, \A k \in 1 .. SLOTS : pl[k] # x PROVE n[x] = f[x]
  <2>1. \A k \in Index : x # Pattern(s, k)
    BY <1>6, <1>8 DEF Index
  <2>2. ASSUME NEW j \in Shelf, x = Inventory(s, j) PROVE n[x] = f[x]
    <3>1. n[x] = IF j \in DOMAIN new[s].inventory THEN new[s].inventory[j] ELSE NULL
      BY <1>1, <2>2, MapAt
    <3>2. f[x] = IF j \in DOMAIN src[s].inventory THEN src[s].inventory[j] ELSE NULL
      BY <1>1, <2>2, MapAt
    <3> QED BY <3>1, <3>2 DEF M!Held
  <2>3. CASE \A j \in Shelf : x # Inventory(s, j)
    <3>1. SourceMap(src, chr, hnd, s, new)
      BY <1>2, SourceChanges
    <3> QED BY <1>1, <2>1, <2>3, <3>1 DEF SourceMap
  <2> QED BY <2>2, <2>3
<1>9. slots \in [1 .. SLOTS -> Pointers \cup {NULL}] /\ \A k \in 1 .. SLOTS : slots[k] # NULL => h[slots[k]] # "free"
  BY DEF Index, Things
<1>10. Owned(M!Places, n, c.heap)
  <2>1. \A k \in 1 .. SLOTS : n[pl[k]] = M!Copied(h, slots).slots[k]
    BY <1>7
  <2>2. PICK P : P = M!Places
    OBVIOUS
  <2>3. ClonesAt(P, f, h, slots, pl, n)
    BY <1>2, <1>4, <1>6, <1>7, <1>8, <1>9, <2>1, <2>2 DEF ClonesAt
  <2> QED BY <2>2, <2>3, Cloned
<1>11. PICK g : g = c.heap
  OBVIOUS
<1>12. Sound(new, chr, hnd, g)
  BY <1>1, <1>3, <1>10, <1>11, Living
<1> QED BY <1>11, <1>12

\* The patterns of a source and what is on its shelf are deleted.
LEMMA SourceDropped ==
  ASSUME M!ConstantsAssumption, NEW src, NEW chr, NEW hnd, NEW h, Sound(src, chr, hnd, h), NEW s \in Sources,
         NEW new, OnlySource(src, s, new), \A k \in Index : new[s].materias[k] = NULL, M!Held(new[s].materias) = {}, M!Held(new[s].inventory) = {},
         NEW slots, slots = src[s].materias \o src[s].inventory, NEW d, d = M!Deleted(h, slots)
  PROVE  Sound(new, chr, hnd, d.heap) /\ ~d.twice
<1>1. PICK f, n : f = MapOf(src, chr, hnd) /\ n = MapOf(new, chr, hnd)
  OBVIOUS
<1>2. Typed(src, chr, hnd) /\ Owned(M!Places, f, h)
  BY <1>1 DEF Sound
<1>3. Typed(new, chr, hnd)
  BY <1>2, SourceChanges DEF SourceMap
<1>4. n \in [M!Places -> Pointers \cup {NULL}]
  BY <1>1, <1>3, MapType DEF Things
<1>5. PICK a, b : a = src[s].materias /\ b = src[s].inventory
  OBVIOUS
<1>6. PICK r \in Rooms : a \in [1 .. SLOTS -> Things] /\ b \in [1 .. r -> Things]
  <2>1. src[s] \in SourceObjects
    BY <1>2 DEF Typed
  <2> QED BY <1>5, <2>1 DEF SourceObjects, Index
<1>7. SLOTS \in Nat /\ r \in Nat /\ \A k \in 1 .. r : k \in Shelf
  BY DEF M!ConstantsAssumption, Shelf
<1>8. PICK c : c = a \o b
  OBVIOUS
<1>9. c = slots
  BY <1>5, <1>8
<1>10. DOMAIN c = 1 .. SLOTS + r /\ (\A j \in 1 .. SLOTS : c[j] = a[j]) /\ \A j \in SLOTS + 1 .. SLOTS + r : c[j] = b[j - SLOTS]
  <2>1. a \in Seq(Things) /\ b \in Seq(Things) /\ Len(a) = SLOTS /\ Len(b) = r
    BY <1>6, <1>7
  <2> QED BY <1>7, <1>8, <2>1
<1>11. PICK pl : pl = [j \in 1 .. SLOTS + r |-> IF j =< SLOTS THEN Pattern(s, j) ELSE Inventory(s, j - SLOTS)]
  OBVIOUS
<1>12. ASSUME NEW j \in DOMAIN c PROVE \/ j \in Index /\ j =< SLOTS /\ pl[j] = Pattern(s, j)
                                       \/ j - SLOTS \in 1 .. r /\ j \in SLOTS + 1 .. SLOTS + r /\ pl[j] = Inventory(s, j - SLOTS)
  <2>1. j \in 1 .. SLOTS + r /\ pl[j] = IF j =< SLOTS THEN Pattern(s, j) ELSE Inventory(s, j - SLOTS)
    BY <1>10, <1>11
  <2>2. j =< SLOTS => j \in Index
    BY <1>7, <2>1 DEF Index
  <2>3. ~(j =< SLOTS) => j - SLOTS \in 1 .. r /\ j \in SLOTS + 1 .. SLOTS + r
    BY <1>7, <2>1
  <2>4. CASE j =< SLOTS
    <3>1. j \in Index
      BY <2>2, <2>4
    <3>2. pl[j] = Pattern(s, j)
      BY <2>1, <2>4, Zenon
    <3> QED BY <2>4, <3>1, <3>2
  <2>5. CASE ~(j =< SLOTS)
    BY <2>1, <2>3, <2>5
  <2> QED BY <2>4, <2>5
<1>13. pl \in [DOMAIN c -> M!Places]
  <2>1. \A j \in DOMAIN c : pl[j] \in M!Places
    BY <1>7, <1>12, PlacesAre
  <2> QED BY <1>10, <1>11, <2>1
<1>14. ASSUME NEW j \in DOMAIN c, NEW k \in DOMAIN c, pl[j] = pl[k] PROVE j = k
  <2>1. j \in Int /\ k \in Int
    BY <1>7, <1>10
  <2>2. CASE pl[j] = Pattern(s, j) /\ pl[k] = Pattern(s, k)
    BY <1>14, <2>2, PlacesDiffer
  <2>3. CASE pl[j] = Inventory(s, j - SLOTS) /\ pl[k] = Inventory(s, k - SLOTS)
    <3>1. PICK x, y : x = j - SLOTS /\ y = k - SLOTS
      OBVIOUS
    <3>2. Inventory(s, x) = Inventory(s, y)
      BY <1>14, <2>3, <3>1
    <3>3. x = y
      BY <3>2, PlacesDiffer
    <3> QED BY <1>7, <2>1, <3>1, <3>3
  <2>4. ~(pl[j] = Pattern(s, j) /\ pl[k] = Inventory(s, k - SLOTS)) /\ ~(pl[k] = Pattern(s, k) /\ pl[j] = Inventory(s, j - SLOTS))
    BY <1>14, PlacesDiffer
  <2> QED BY <1>12, <2>2, <2>3, <2>4
<1>15. ASSUME NEW j \in DOMAIN c PROVE f[pl[j]] = c[j] /\ n[pl[j]] = NULL
  <2>1. CASE j \in Index /\ j =< SLOTS /\ pl[j] = Pattern(s, j)
    BY <1>1, <1>5, <1>10, <2>1, MapAt DEF Index
  <2>2. CASE j - SLOTS \in 1 .. r /\ j \in SLOTS + 1 .. SLOTS + r /\ pl[j] = Inventory(s, j - SLOTS)
    <3>1. PICK i : i = j - SLOTS
      OBVIOUS
    <3>2. i \in Shelf /\ i \in DOMAIN b /\ c[j] = b[i] /\ pl[j] = Inventory(s, i)
      BY <1>6, <1>7, <1>10, <2>2, <3>1
    <3>3. f[Inventory(s, i)] = b[i]
      BY <1>1, <1>5, <3>2, MapAt
    <3>4. n[Inventory(s, i)] = IF i \in DOMAIN new[s].inventory THEN new[s].inventory[i] ELSE NULL
      BY <1>1, <3>2, MapAt
    <3>5. n[Inventory(s, i)] = NULL
      BY <3>4 DEF M!Held
    <3> QED BY <3>2, <3>3, <3>5
  <2> QED BY <1>12, <2>1, <2>2
<1>16. ASSUME NEW x \in M!Places, \A j \in DOMAIN c : pl[j] # x PROVE n[x] = f[x]
  <2>1. ASSUME NEW k \in Index PROVE x # Pattern(s, k)
    <3>1. k \in DOMAIN c /\ pl[k] = Pattern(s, k)
      BY <1>7, <1>10, <1>11 DEF Index
    <3> QED BY <1>16, <3>1
  <2>2. ASSUME NEW i \in Shelf, x = Inventory(s, i) PROVE n[x] = f[x]
    <3>1. f[x] = IF i \in DOMAIN b THEN b[i] ELSE NULL
      BY <1>1, <1>5, <2>2, MapAt
    <3>2. n[x] = IF i \in DOMAIN new[s].inventory THEN new[s].inventory[i] ELSE NULL
      BY <1>1, <2>2, MapAt
    <3>3. i \notin DOMAIN b
      <4>1. ASSUME i \in 1 .. r PROVE FALSE
        <5>1. PICK j : j = SLOTS + i
          OBVIOUS
        <5>2. j \in DOMAIN c /\ ~(j =< SLOTS) /\ j - SLOTS = i
          BY <1>7, <1>10, <4>1, <5>1
        <5>3. pl[j] = Inventory(s, i)
          BY <1>10, <1>11, <5>2
        <5> QED BY <1>16, <2>2, <5>2, <5>3
      <4> QED BY <1>6, <4>1
    <3> QED BY <3>1, <3>2, <3>3 DEF M!Held
  <2>3. CASE \A j \in Shelf : x # Inventory(s, j)
    <3>1. SourceMap(src, chr, hnd, s, new)
      BY <1>2, SourceChanges
    <3> QED BY <1>1, <2>1, <2>3, <3>1 DEF SourceMap
  <2> QED BY <2>2, <2>3
<1>17. d = M!Deleted(h, c)
  BY <1>9
<1>18. Owned(M!Places, n, d.heap) /\ ~d.twice
  BY <1>2, <1>4, <1>13, <1>14, <1>15, <1>16, <1>17, Dropped
<1>19. PICK g : g = d.heap
  OBVIOUS
<1>20. Sound(new, chr, hnd, g)
  BY <1>1, <1>3, <1>18, <1>19, Living
<1> QED BY <1>18, <1>19, <1>20

\* A character is given a materia by the caller, or gives one back.
Handed(hnd, hnd2, m, old, new) ==
  \/ m \in hnd /\ hnd2 = Gives(hnd, m) /\ old = NULL /\ new = m
  \/ hnd2 = IsGiven(hnd, m) /\ old = m /\ new = NULL

LEMMA Carried ==
  ASSUME M!ConstantsAssumption, NEW src, NEW chr, NEW hnd, NEW h, Sound(src, chr, hnd, h), NEW c \in Characters, NEW k \in Index, NEW m \in Pointers,
         NEW new, OnlyCharacter(chr, c, new), \A j \in Index : j # k => new[c].slots[j] = chr[c].slots[j], NEW hnd2, Handed(hnd, hnd2, m, chr[c].slots[k], new[c].slots[k])
  PROVE  Sound(src, new, hnd2, h)
<1>1. PICK f, f1, n : f = MapOf(src, chr, hnd) /\ f1 = MapOf(src, chr, hnd2) /\ n = MapOf(src, new, hnd2)
  OBVIOUS
<1>2. Typed(src, chr, hnd) /\ Owned(M!Places, f, h)
  BY <1>1 DEF Sound
<1>3. Typed(src, chr, hnd2) /\ (f1 = [f EXCEPT ![InHand(m)] = NULL] \/ f1 = [f EXCEPT ![InHand(m)] = m])
  BY <1>1, <1>2, HandChanges DEF Handed
<1>4. f \in [M!Places -> Things] /\ InHand(m) \in M!Places /\ Slot(c, k) \in M!Places /\ InHand(m) # Slot(c, k)
  <2>1. f \in [M!Places -> Things]
    BY <1>1, <1>2, MapType
  <2>2. InHand(m) \in M!Places /\ Slot(c, k) \in M!Places
    BY PlacesAre
  <2>3. InHand(m) # Slot(c, k)
    BY DEF InHand, Slot
  <2> QED BY <2>1, <2>2, <2>3
<1>5. \A x \in M!Places : x # InHand(m) => f1[x] = f[x]
  BY <1>3, <1>4
<1>6. /\ Typed(src, new, hnd2)
      /\ \A j \in Index : n[Slot(c, j)] = new[c].slots[j]
      /\ \A x \in M!Places : (\A j \in Index : x # Slot(c, j)) => n[x] = f1[x]
  <2>1. CharacterMap(src, chr, hnd2, c, new)
    BY <1>3, CharacterChanges
  <2> QED BY <1>1, <2>1 DEF CharacterMap
<1>7. n \in [M!Places -> Pointers \cup {NULL}]
  BY <1>1, <1>6, MapType DEF Things
<1>8. ASSUME NEW x \in M!Places, x # InHand(m), x # Slot(c, k) PROVE n[x] = f[x]
  <2>1. ASSUME NEW j \in Index, x = Slot(c, j) PROVE n[x] = f[x]
    <3>1. j # k
      BY <1>8, <2>1
    <3>2. f[x] = chr[c].slots[j]
      BY <1>1, <2>1, MapAt
    <3> QED BY <1>6, <2>1, <3>1, <3>2
  <2>2. CASE \A j \in Index : x # Slot(c, j)
    BY <1>5, <1>6, <1>8, <2>2
  <2> QED BY <2>1, <2>2
<1>9. /\ f[InHand(m)] = IF m \in hnd THEN m ELSE NULL
      /\ n[InHand(m)] = IF m \in hnd2 THEN m ELSE NULL
      /\ f[Slot(c, k)] = chr[c].slots[k] /\ n[Slot(c, k)] = new[c].slots[k]
  BY <1>1, <1>6, MapAt
<1>10. CASE m \in hnd /\ hnd2 = Gives(hnd, m) /\ chr[c].slots[k] = NULL /\ new[c].slots[k] = m
  <2>1. f[InHand(m)] = m /\ n[InHand(m)] = NULL /\ f[Slot(c, k)] = NULL /\ n[Slot(c, k)] = m
    BY <1>9, <1>10 DEF Gives
  <2>2. Owned(M!Places, n, h)
    BY <1>2, <1>4, <1>7, <1>8, <2>1, Passed
  <2> QED BY <1>1, <1>6, <2>2 DEF Sound
<1>11. CASE hnd2 = IsGiven(hnd, m) /\ chr[c].slots[k] = m /\ new[c].slots[k] = NULL
  <2>1. m # NULL
    BY DEF M!ConstantsAssumption
  <2>2. f[Slot(c, k)] = m /\ n[Slot(c, k)] = NULL /\ n[InHand(m)] = m
    BY <1>9, <1>11 DEF IsGiven
  <2>3. f[InHand(m)] # m
    BY <1>2, <1>4, <2>1, <2>2 DEF Owned
  <2>4. f[InHand(m)] = NULL
    BY <1>9, <2>3
  <2>5. Owned(M!Places, n, h)
    BY <1>2, <1>4, <1>7, <1>8, <2>2, <2>4, Passed
  <2> QED BY <1>1, <1>6, <2>5 DEF Sound
<1> QED BY <1>10, <1>11 DEF Handed

\* What a character has is deleted.
LEMMA SlotsDropped ==
  ASSUME M!ConstantsAssumption, NEW src, NEW chr, NEW hnd, NEW h, Sound(src, chr, hnd, h), NEW c \in Characters,
         NEW new, OnlyCharacter(chr, c, new), \A k \in Index : new[c].slots[k] = NULL, NEW d, d = M!Deleted(h, chr[c].slots)
  PROVE  Sound(src, new, hnd, d.heap) /\ ~d.twice
<1>1. PICK f, n : f = MapOf(src, chr, hnd) /\ n = MapOf(src, new, hnd)
  OBVIOUS
<1>2. Typed(src, chr, hnd) /\ Owned(M!Places, f, h)
  BY <1>1 DEF Sound
<1>3. /\ Typed(src, new, hnd)
      /\ \A k \in Index : n[Slot(c, k)] = new[c].slots[k]
      /\ \A x \in M!Places : (\A k \in Index : x # Slot(c, k)) => n[x] = f[x]
  <2>1. CharacterMap(src, chr, hnd, c, new)
    BY <1>2, CharacterChanges
  <2> QED BY <1>1, <2>1 DEF CharacterMap
<1>4. n \in [M!Places -> Pointers \cup {NULL}]
  BY <1>1, <1>3, MapType DEF Things
<1>5. PICK pl : pl = [k \in Index |-> Slot(c, k)]
  OBVIOUS
<1>6. PICK slots : slots = chr[c].slots
  OBVIOUS
<1>7. DOMAIN slots = Index
  BY <1>2, <1>6, MapType
<1>8. pl \in [DOMAIN slots -> M!Places] /\ (\A j, k \in DOMAIN slots : pl[j] = pl[k] => j = k) /\ \A k \in DOMAIN slots : pl[k] = Slot(c, k)
  <2>1. \A k \in DOMAIN slots : pl[k] = Slot(c, k)
    BY <1>5, <1>7
  <2>2. pl \in [DOMAIN slots -> M!Places]
    BY <1>5, <1>7, PlacesAre
  <2>3. \A j, k \in DOMAIN slots : pl[j] = pl[k] => j = k
    BY <2>1, PlacesDiffer
  <2> QED BY <2>1, <2>2, <2>3
<1>9. \A k \in DOMAIN slots : f[pl[k]] = slots[k] /\ n[pl[k]] = NULL
  BY <1>1, <1>3, <1>6, <1>7, <1>8, MapAt
<1>10. \A x \in M!Places : (\A k \in DOMAIN slots : pl[k] # x) => n[x] = f[x]
  BY <1>3, <1>7, <1>8
<1>11. d = M!Deleted(h, slots)
  BY <1>6
<1>12. Owned(M!Places, n, d.heap) /\ ~d.twice
  BY <1>2, <1>4, <1>8, <1>9, <1>10, <1>11, Dropped
<1>13. PICK g : g = d.heap
  OBVIOUS
<1>14. Sound(src, new, hnd, g)
  BY <1>1, <1>3, <1>12, <1>13 DEF Sound
<1> QED BY <1>12, <1>13, <1>14

\* A character that has nothing is given clones.
LEMMA SlotsCloned ==
  ASSUME M!ConstantsAssumption, NEW src, NEW chr, NEW hnd, NEW h, Sound(src, chr, hnd, h), NEW c \in Characters, \A k \in Index : chr[c].slots[k] = NULL,
         NEW slots \in [Index -> Things], \A k \in Index : slots[k] # NULL => h[slots[k]] # "free", Cardinality(M!Free(h)) >= SLOTS,
         NEW new, OnlyCharacter(chr, c, new), new[c].slots = M!Copied(h, slots).slots
  PROVE  Sound(src, new, hnd, M!Copied(h, slots).heap)
<1>1. PICK f, n : f = MapOf(src, chr, hnd) /\ n = MapOf(src, new, hnd)
  OBVIOUS
<1>2. Typed(src, chr, hnd) /\ Owned(M!Places, f, h)
  BY <1>1 DEF Sound
<1>3. /\ Typed(src, new, hnd)
      /\ \A k \in Index : n[Slot(c, k)] = new[c].slots[k]
      /\ \A x \in M!Places : (\A k \in Index : x # Slot(c, k)) => n[x] = f[x]
  <2>1. CharacterMap(src, chr, hnd, c, new)
    BY <1>2, CharacterChanges
  <2> QED BY <1>1, <2>1 DEF CharacterMap
<1>4. n \in [M!Places -> Pointers \cup {NULL}]
  BY <1>1, <1>3, MapType DEF Things
<1>5. PICK pl : pl = [k \in Index |-> Slot(c, k)]
  OBVIOUS
<1>6. pl \in [1 .. SLOTS -> M!Places] /\ (\A j, k \in 1 .. SLOTS : pl[j] = pl[k] => j = k) /\ \A k \in 1 .. SLOTS : pl[k] = Slot(c, k)
  BY <1>5, PlacesAre, PlacesDiffer DEF Index
<1>7. \A k \in 1 .. SLOTS : f[pl[k]] = NULL /\ n[pl[k]] = M!Copied(h, slots).slots[k]
  BY <1>1, <1>3, <1>6, MapAt DEF Index
<1>8. \A x \in M!Places : (\A k \in 1 .. SLOTS : pl[k] # x) => n[x] = f[x]
  BY <1>3, <1>6 DEF Index
<1>9. slots \in [1 .. SLOTS -> Pointers \cup {NULL}] /\ \A k \in 1 .. SLOTS : slots[k] # NULL => h[slots[k]] # "free"
  BY DEF Index, Things
<1>10. PICK P : P = M!Places
  OBVIOUS
<1>11. ClonesAt(P, f, h, slots, pl, n)
  BY <1>2, <1>4, <1>6, <1>7, <1>8, <1>9, <1>10 DEF ClonesAt
<1>12. PICK g : g = M!Copied(h, slots).heap
  OBVIOUS
<1>13. Owned(M!Places, n, g)
  BY <1>10, <1>11, <1>12, Cloned
<1>14. Sound(src, new, hnd, g)
  BY <1>1, <1>3, <1>13 DEF Sound
<1> QED BY <1>12, <1>14

-----------------------------------------------------------------------------
(* The steps.                                                                   *)

Order == Sound(source, character, hand, heap)

\* There is memory for n materias.
LEMMA ThereIsMemory ==
  ASSUME M!ConstantsAssumption, NEW n, M!MemoryFor(n)
  PROVE  Cardinality(M!Free(heap)) >= n
BY SameSize DEF M!MemoryFor

LEMMA LearnStep ==
  ASSUME M!ConstantsAssumption, Order, NEW s \in Sources, NEW m \in Pointers, M!learnMateria(s, m)
  PROVE  Order'
<1>1. PICK src, chr, hnd, h : src = source /\ chr = character /\ hnd = hand /\ h = heap
  OBVIOUS
<1>2. PICK l : l = M!learnt(s, m)
  OBVIOUS
<1>3. source' = [src EXCEPT ![s] = l.source] /\ hand' = Gives(hnd, m) /\ heap' = l.heap /\ character' = chr /\ m \in hnd /\ src[s].live
  BY <1>1, <1>2 DEF M!learnMateria, Gives
<1>4. Sound(src, chr, hnd, h) /\ Typed(src, chr, hnd) /\ src \in [Sources -> SourceObjects] /\ src[s] \in SourceObjects
  BY <1>1 DEF Order, Sound, Typed
<1>5. PICK new, less : new = [src EXCEPT ![s] = l.source] /\ less = Gives(hnd, m)
  OBVIOUS
<1>6. PICK k, i : k = M!FirstFree(src[s].inventory) /\ i = M!FirstFree(src[s].materias)
  OBVIOUS
<1>7. CASE k = 0
  <2>1. l = [heap |-> [h EXCEPT ![m] = "free"], source |-> src[s]]
    BY <1>1, <1>2, <1>6, <1>7 DEF M!learnt
  <2>2. new = src
    BY <1>4, <1>5, <2>1
  <2>3. PICK g : g = [h EXCEPT ![m] = "free"]
    OBVIOUS
  <2>4. Sound(src, chr, less, g)
    BY <1>3, <1>4, <1>5, <2>3, Discarded
  <2> QED BY <1>3, <1>5, <2>1, <2>2, <2>3, <2>4 DEF Order
<1>8. CASE k # 0
  <2>1. PICK o : o = [src[s] EXCEPT !.inventory[k] = m]
    OBVIOUS
  <2>2. /\ o \in SourceObjects /\ o.live = src[s].live /\ o.materias = src[s].materias /\ k \in Shelf /\ k \in DOMAIN src[s].inventory
        /\ src[s].inventory[k] = NULL /\ o.inventory[k] = m /\ DOMAIN o.inventory = DOMAIN src[s].inventory
        /\ \A j \in DOMAIN src[s].inventory : j # k => o.inventory[j] = src[s].inventory[j]
    <3>1. PICK old : old = src[s]
      OBVIOUS
    <3> QED BY <1>4, <1>6, <1>8, <2>1, <3>1, FullerShelf
  <2>3. PICK e : e = [src EXCEPT ![s] = o]
    OBVIOUS
  <2>4. OnlySource(src, s, e) /\ e[s] = o
    BY <1>4, <2>2, <2>3 DEF OnlySource
  <2>5. Sound(e, chr, less, h)
    BY <1>3, <1>4, <1>5, <2>2, <2>4, Shelved
  <2>6. CASE i = 0
    <3>1. l = [heap |-> h, source |-> o]
      BY <1>1, <1>2, <1>6, <1>8, <2>1, <2>6 DEF M!learnt
    <3>2. new = e
      BY <1>5, <2>3, <3>1
    <3> QED BY <1>3, <1>5, <2>5, <3>1, <3>2 DEF Order
  <2>7. CASE i # 0
    <3>1. Cardinality(M!Free(h)) >= 1
      <4>1. M!MemoryFor(1)
        BY <1>1, <1>6, <1>8, <2>7 DEF M!learnMateria
      <4> QED BY <1>1, <4>1, ThereIsMemory
    <3>2. PICK p : p = M!New(h)
      OBVIOUS
    <3>3. p \in Pointers /\ h[p] = "free"
      BY <3>1, <3>2, NewIsFree
    <3>4. PICK g, o2 : g = [h EXCEPT ![p] = h[m]] /\ o2 = [o EXCEPT !.materias[i] = p]
      OBVIOUS
    <3>5. l = [heap |-> g, source |-> o2]
      <4>1. o2 = [src[s] EXCEPT !.inventory[k] = m, !.materias[i] = p]
        BY <2>1, <3>4
      <4> QED BY <1>1, <1>2, <1>6, <1>8, <2>7, <3>2, <3>4, <4>1 DEF M!learnt
    <3>6. i \in Index /\ o.materias[i] = NULL
      <4>1. src[s].materias \in [1 .. SLOTS -> Things] /\ SLOTS \in Nat
        BY <1>4 DEF SourceObjects, Index, M!ConstantsAssumption
      <4> QED BY <1>6, <2>2, <2>7, <4>1, FreePlace DEF Index
    <3>7. /\ o2 \in SourceObjects /\ o2.live = o.live /\ o2.inventory = o.inventory
          /\ o2.materias[i] = p /\ \A j \in Index : j # i => o2.materias[j] = o.materias[j]
      BY <2>2, <3>3, <3>4, <3>6 DEF SourceObjects, Things
    <3>8. e \in [Sources -> SourceObjects] /\ new = [e EXCEPT ![s] = o2]
      BY <1>4, <1>5, <2>2, <2>3, <3>5
    <3>9. OnlySource(e, s, new) /\ new[s] = o2
      BY <3>7, <3>8 DEF OnlySource
    <3>10. PICK type : type = h[m]
      OBVIOUS
    <3>11. type \in Types
      <4>1. m \in Pointers /\ m # NULL /\ InHand(m) \in M!Places
        BY PlacesAre DEF M!ConstantsAssumption
      <4>2. PICK f : f = MapOf(src, chr, hnd)
        OBVIOUS
      <4>3. Owned(M!Places, f, h)
        BY <1>4, <4>2 DEF Sound
      <4>4. f[InHand(m)] = m
        BY <1>3, <4>1, <4>2, MapAt
      <4>5. h \in [Pointers -> Types \cup {"free"}] /\ h[m] # "free"
        BY <4>1, <4>3, <4>4 DEF Owned
      <4> QED BY <3>10, <4>1, <4>5
    <3>12. g = Put(h, p, type)
      BY <3>4, <3>10 DEF Put
    <3>13. Sound(new, chr, less, g)
      <4>1. e[s].live /\ new[s].live /\ new[s].inventory = e[s].inventory /\ e[s].materias[i] = NULL
        BY <1>3, <2>2, <2>4, <3>6, <3>7, <3>9
      <4>2. new[s].materias[i] = p /\ \A j \in Index : j # i => new[s].materias[j] = e[s].materias[j]
        BY <2>4, <3>7, <3>9
      <4> QED BY <2>5, <3>3, <3>6, <3>9, <3>11, <3>12, <4>1, <4>2, PatternNew
    <3> QED BY <1>3, <1>5, <3>5, <3>13 DEF Order
  <2> QED BY <2>6, <2>7
<1> QED BY <1>7, <1>8

\* Make() and createMateria().
LEMMA NewStep ==
  ASSUME M!ConstantsAssumption, Order, NEW type \in Types, M!MemoryFor(1),
         heap' = [heap EXCEPT ![M!New(heap)] = type], hand' = hand \cup {M!New(heap)}, UNCHANGED <<source, character>>
  PROVE  Order'
<1>1. PICK src, chr, hnd, h : src = source /\ chr = character /\ hnd = hand /\ h = heap
  OBVIOUS
<1>2. PICK p : p = M!New(h)
  OBVIOUS
<1>3. Cardinality(M!Free(h)) >= 1
  BY <1>1, ThereIsMemory
<1>4. p \in Pointers /\ h[p] = "free"
  BY <1>2, <1>3, NewIsFree
<1>5. PICK g, more : g = [h EXCEPT ![p] = type] /\ more = IsGiven(hnd, p)
  OBVIOUS
<1>6. Sound(src, chr, hnd, h)
  BY <1>1 DEF Order
<1>7. Sound(src, chr, more, g)
  BY <1>4, <1>5, <1>6, HandedNew
<1>8. heap' = g /\ hand' = more /\ source' = src /\ character' = chr
  BY <1>1, <1>2, <1>5 DEF IsGiven
<1> QED BY <1>7, <1>8 DEF Order

\* An object with no materias.
LEMMA EmptyHas ==
  ASSUME NEW n
  PROVE  M!Empty(n) \in [1 .. n -> Things] /\ M!Held(M!Empty(n)) = {} /\ \A k \in 1 .. n : M!Empty(n)[k] = NULL
BY DEF M!Empty, M!Held, Things

\* What is in a place is not free.
LEMMA HeldIsThere ==
  ASSUME NEW src, NEW chr, NEW hnd, NEW h, Sound(src, chr, hnd, h)
  PROVE  /\ \A s \in Sources : \A k \in Index : src[s].materias[k] # NULL => h[src[s].materias[k]] # "free"
         /\ \A c \in Characters : \A k \in Index : chr[c].slots[k] # NULL => h[chr[c].slots[k]] # "free"
<1>1. PICK f : f = MapOf(src, chr, hnd)
  OBVIOUS
<1>2. Owned(M!Places, f, h)
  BY <1>1 DEF Sound
<1>3. ASSUME NEW s \in Sources, NEW k \in Index, src[s].materias[k] # NULL PROVE h[src[s].materias[k]] # "free"
  <2>1. f[Pattern(s, k)] = src[s].materias[k] /\ Pattern(s, k) \in M!Places
    BY <1>1, MapAt, PlacesAre
  <2> QED BY <1>2, <1>3, <2>1 DEF Owned
<1>4. ASSUME NEW c \in Characters, NEW k \in Index, chr[c].slots[k] # NULL PROVE h[chr[c].slots[k]] # "free"
  <2>1. f[Slot(c, k)] = chr[c].slots[k] /\ Slot(c, k) \in M!Places
    BY <1>1, MapAt, PlacesAre
  <2> QED BY <1>2, <1>4, <2>1 DEF Owned
<1> QED BY <1>3, <1>4

\* Deleting leaves no less memory.
LEMMA MoreMemory ==
  ASSUME M!ConstantsAssumption, NEW n \in Nat, NEW h, NEW slots, Cardinality(M!Free(h)) >= n
  PROVE  Cardinality(M!Free(M!Deleted(h, slots).heap)) >= n
<1>1. PICK A, B : A = M!Free(h) /\ B = M!Free(M!Deleted(h, slots).heap)
  OBVIOUS
<1>2. A \subseteq B /\ B \subseteq Pointers
  BY <1>1 DEF M!Free, M!Deleted
<1>3. IsFiniteSet(B)
  <2>1. IsFiniteSet(Pointers)
    BY SameSize DEF M!ConstantsAssumption
  <2> QED BY <1>2, <2>1, FS_Subset
<1>4. Cardinality(A) =< Cardinality(B) /\ Cardinality(A) \in Nat /\ Cardinality(B) \in Nat
  BY <1>2, <1>3, FS_Subset, FS_CardinalityType
<1>5. Cardinality(A) >= n
  BY <1>1
<1>6. Cardinality(B) >= n
  BY <1>4, <1>5
<1> QED BY <1>1, <1>6

LEMMA CopySourceStep ==
  ASSUME M!ConstantsAssumption, Order, NEW s \in Sources, NEW t \in Sources, M!CopySource(s, t), ~rough'
  PROVE  Order'
<1>1. PICK src, chr, hnd, h : src = source /\ chr = character /\ hnd = hand /\ h = heap
  OBVIOUS
<1>2. PICK slots, shelf : slots = src[s].materias /\ shelf = src[s].inventory
  OBVIOUS
<1>3. PICK new : new = [src EXCEPT ![t] = [live |-> TRUE, materias |-> M!Copied(h, slots).slots, inventory |-> shelf]]
  OBVIOUS
<1>4. source' = new /\ heap' = M!Copied(h, slots).heap /\ hand' = hnd /\ character' = chr /\ ~src[t].live /\ M!Held(shelf) = {}
  BY <1>1, <1>2, <1>3 DEF M!CopySource
<1>5. Sound(src, chr, hnd, h) /\ src \in [Sources -> SourceObjects]
  BY <1>1 DEF Order, Sound, Typed
<1>6. slots \in [Index -> Things] /\ shelf \in UNION {[1 .. n -> Things] : n \in Rooms} /\ src[t].materias \in [Index -> Things]
  BY <1>2, <1>5 DEF SourceObjects
<1>7. Cardinality(M!Free(h)) >= SLOTS
  <2>1. M!MemoryFor(SLOTS)
    BY DEF M!CopySource
  <2> QED BY <1>1, <2>1, ThereIsMemory
<1>8. \A k \in Index : slots[k] # NULL => h[slots[k]] # "free"
  BY <1>2, <1>5, HeldIsThere
<1>9. PICK c : c = M!Copied(h, slots)
  OBVIOUS
<1>10. c.slots \in [Index -> Things]
  BY <1>6, <1>7, <1>9, CopiedType DEF Index, Things
<1>11. new[t] = [live |-> TRUE, materias |-> c.slots, inventory |-> shelf] /\ OnlySource(src, t, new)
  BY <1>3, <1>5, <1>6, <1>9, <1>10 DEF OnlySource, SourceObjects
<1>12. (\A k \in Index : src[t].materias[k] = NULL) /\ M!Held(src[t].inventory) = {}
  BY <1>4, <1>5, <1>6 DEF Sound, M!Held
<1>13. Sound(new, chr, hnd, c.heap)
  BY <1>4, <1>5, <1>6, <1>7, <1>8, <1>9, <1>11, <1>12, PatternsCloned
<1> QED BY <1>4, <1>9, <1>13 DEF Order

LEMMA AssignSourceStep ==
  ASSUME M!ConstantsAssumption, Order, NEW s \in Sources, NEW t \in Sources, M!AssignSource(s, t), ~rough'
  PROVE  Order' /\ ~misused'
<1>1. PICK src, chr, hnd, h : src = source /\ chr = character /\ hnd = hand /\ h = heap
  OBVIOUS
<1>2. PICK slots, shelf, freed : slots = src[s].materias /\ shelf = src[s].inventory /\ freed = M!Deleted(h, src[t].materias)
  OBVIOUS
<1>3. PICK c : c = M!Copied(freed.heap, slots)
  OBVIOUS
<1>4. PICK new : new = [src EXCEPT ![t] = [live |-> TRUE, materias |-> c.slots, inventory |-> shelf]]
  OBVIOUS
<1>5. /\ source' = new /\ heap' = c.heap /\ hand' = hnd /\ character' = chr /\ misused' = freed.twice
      /\ s # t /\ src[s].live /\ src[t].live /\ M!Held(shelf) = {} /\ M!Held(src[t].inventory) = {}
  BY <1>1, <1>2, <1>3, <1>4 DEF M!AssignSource
<1>6. Sound(src, chr, hnd, h) /\ src \in [Sources -> SourceObjects]
  BY <1>1 DEF Order, Sound, Typed
<1>7. slots \in [Index -> Things] /\ shelf \in UNION {[1 .. n -> Things] : n \in Rooms} /\ src[t].inventory \in UNION {[1 .. n -> Things] : n \in Rooms}
  BY <1>2, <1>6 DEF SourceObjects
<1>8. PICK mid : mid = [src EXCEPT ![t] = [live |-> TRUE, materias |-> M!Empty(SLOTS), inventory |-> src[t].inventory]]
  OBVIOUS
<1>9. M!Empty(SLOTS) \in [Index -> Things] /\ \A k \in Index : M!Empty(SLOTS)[k] = NULL
  BY EmptyHas DEF Index
<1>10. mid[t] = [live |-> TRUE, materias |-> M!Empty(SLOTS), inventory |-> src[t].inventory] /\ mid[s] = src[s] /\ OnlySource(src, t, mid)
  BY <1>5, <1>6, <1>7, <1>8, <1>9 DEF OnlySource, SourceObjects
<1>11. Sound(mid, chr, hnd, freed.heap) /\ ~freed.twice
  <2>1. mid[t].live /\ mid[t].inventory = src[t].inventory /\ \A k \in Index : mid[t].materias[k] = NULL
    BY <1>9, <1>10
  <2> QED BY <1>2, <1>5, <1>6, <1>10, <2>1, PatternsDropped
<1>12. PICK g : g = freed.heap
  OBVIOUS
<1>13. Cardinality(M!Free(g)) >= SLOTS
  <2>1. M!MemoryFor(SLOTS) /\ SLOTS \in Nat
    BY DEF M!AssignSource, M!ConstantsAssumption
  <2>2. Cardinality(M!Free(h)) >= SLOTS
    BY <1>1, <2>1, ThereIsMemory
  <2> QED BY <1>2, <1>12, <2>1, <2>2, MoreMemory
<1>14. \A k \in Index : slots[k] # NULL => g[slots[k]] # "free"
  <2>1. Sound(mid, chr, hnd, g) /\ slots = mid[s].materias
    BY <1>2, <1>10, <1>11, <1>12
  <2> QED BY <2>1, HeldIsThere
<1>15. c.slots \in [Index -> Things]
  BY <1>3, <1>7, <1>12, <1>13, CopiedType DEF Index, Things
<1>16. new[t] = [live |-> TRUE, materias |-> c.slots, inventory |-> shelf] /\ OnlySource(mid, t, new)
  BY <1>4, <1>6, <1>7, <1>8, <1>15 DEF OnlySource, SourceObjects
<1>17. Sound(new, chr, hnd, c.heap)
  <2>1. (\A k \in Index : mid[t].materias[k] = NULL) /\ M!Held(mid[t].inventory) = {}
    BY <1>5, <1>9, <1>10
  <2>2. c = M!Copied(g, slots) /\ Sound(mid, chr, hnd, g)
    BY <1>3, <1>11, <1>12
  <2>3. new[t].live /\ new[t].materias = c.slots /\ M!Held(new[t].inventory) = {}
    BY <1>5, <1>16
  <2> QED BY <1>7, <1>13, <1>14, <1>16, <2>1, <2>2, <2>3, PatternsCloned
<1> QED BY <1>5, <1>11, <1>17 DEF Order

LEMMA DestroySourceStep ==
  ASSUME M!ConstantsAssumption, Order, NEW s \in Sources, M!DestroySource(s)
  PROVE  Order' /\ ~misused'
<1>1. PICK src, chr, hnd, h : src = source /\ chr = character /\ hnd = hand /\ h = heap
  OBVIOUS
<1>2. PICK slots : slots = src[s].materias \o src[s].inventory
  OBVIOUS
<1>3. PICK d, n : d = M!Deleted(h, slots) /\ n = Len(src[s].inventory)
  OBVIOUS
<1>4. PICK new : new = [src EXCEPT ![s] = [live |-> FALSE, materias |-> M!Empty(SLOTS), inventory |-> M!Empty(n)]]
  OBVIOUS
<1>5. source' = new /\ heap' = d.heap /\ misused' = d.twice /\ hand' = hnd /\ character' = chr
  BY <1>1, <1>2, <1>3, <1>4 DEF M!DestroySource
<1>6. Sound(src, chr, hnd, h) /\ src \in [Sources -> SourceObjects]
  BY <1>1 DEF Order, Sound, Typed
<1>7. n \in Rooms
  <2>1. PICK r \in Rooms : src[s].inventory \in [1 .. r -> Things]
    BY <1>6 DEF SourceObjects
  <2>2. r \in Nat
    BY DEF M!ConstantsAssumption
  <2> QED BY <1>3, <2>1, <2>2
<1>8. M!Empty(SLOTS) \in [Index -> Things] /\ M!Held(M!Empty(SLOTS)) = {} /\ \A k \in Index : M!Empty(SLOTS)[k] = NULL
  BY EmptyHas DEF Index
<1>9. M!Empty(n) \in UNION {[1 .. j -> Things] : j \in Rooms} /\ M!Held(M!Empty(n)) = {}
  BY <1>7, EmptyHas
<1>10. new[s] = [live |-> FALSE, materias |-> M!Empty(SLOTS), inventory |-> M!Empty(n)] /\ OnlySource(src, s, new)
  BY <1>4, <1>6, <1>8, <1>9 DEF OnlySource, SourceObjects
<1>11. Sound(new, chr, hnd, d.heap) /\ ~d.twice
  <2>1. (\A k \in Index : new[s].materias[k] = NULL) /\ M!Held(new[s].materias) = {} /\ M!Held(new[s].inventory) = {}
    BY <1>8, <1>9, <1>10
  <2> QED BY <1>2, <1>3, <1>6, <1>10, <2>1, SourceDropped
<1> QED BY <1>5, <1>11 DEF Order

LEMMA EquipStep ==
  ASSUME M!ConstantsAssumption, Order, NEW c \in Characters, NEW m \in Pointers, M!equip(c, m)
  PROVE  Order'
<1>1. PICK src, chr, hnd, h : src = source /\ chr = character /\ hnd = hand /\ h = heap
  OBVIOUS
<1>2. PICK k : k = M!FirstFree(chr[c].slots)
  OBVIOUS
<1>3. PICK new, less : new = [chr EXCEPT ![c].slots[k] = m] /\ less = Gives(hnd, m)
  OBVIOUS
<1>4. character' = new /\ hand' = less /\ source' = src /\ heap' = h /\ m \in hnd /\ k # 0
  BY <1>1, <1>2, <1>3 DEF M!equip, Gives
<1>5. Sound(src, chr, hnd, h) /\ chr \in [Characters -> CharacterObjects]
  BY <1>1 DEF Order, Sound, Typed
<1>6. chr[c].slots \in [1 .. SLOTS -> Things] /\ SLOTS \in Nat
  BY <1>5 DEF CharacterObjects, Index, M!ConstantsAssumption
<1>7. k \in Index /\ chr[c].slots[k] = NULL
  BY <1>2, <1>4, <1>6, FreePlace DEF Index
<1>8. OnlyCharacter(chr, c, new) /\ new[c].slots[k] = m /\ \A j \in Index : j # k => new[c].slots[j] = chr[c].slots[j]
  BY <1>3, <1>5, <1>7 DEF OnlyCharacter, CharacterObjects, Things
<1>9. Sound(src, new, less, h)
  <2>1. Handed(hnd, less, m, chr[c].slots[k], new[c].slots[k])
    BY <1>3, <1>4, <1>7, <1>8 DEF Handed
  <2> QED BY <1>5, <1>7, <1>8, <2>1, Carried
<1> QED BY <1>4, <1>9 DEF Order

LEMMA UnequipStep ==
  ASSUME M!ConstantsAssumption, Order, NEW c \in Characters, NEW idx \in 0 .. SLOTS, M!unequip(c, idx), ~rough'
  PROVE  Order' /\ misused' = misused
<1>1. PICK src, chr, hnd, h : src = source /\ chr = character /\ hnd = hand /\ h = heap
  OBVIOUS
<1>2. PICK k : k = idx + 1
  OBVIOUS
<1>3. PICK m : m = chr[c].slots[k]
  OBVIOUS
<1>4. PICK new, more : new = [chr EXCEPT ![c].slots[k] = NULL] /\ more = IsGiven(hnd, m)
  OBVIOUS
<1>5. character' = new /\ hand' = more /\ source' = src /\ heap' = h /\ misused' = misused /\ k \in M!Held(chr[c].slots)
  BY <1>1, <1>2, <1>3, <1>4 DEF M!unequip, M!Outside, IsGiven
<1>6. Sound(src, chr, hnd, h) /\ chr \in [Characters -> CharacterObjects]
  BY <1>1 DEF Order, Sound, Typed
<1>7. k \in Index /\ m \in Pointers
  BY <1>3, <1>5, <1>6 DEF CharacterObjects, M!Held, Things
<1>8. OnlyCharacter(chr, c, new) /\ new[c].slots[k] = NULL /\ \A j \in Index : j # k => new[c].slots[j] = chr[c].slots[j]
  BY <1>4, <1>6, <1>7 DEF OnlyCharacter, CharacterObjects, Things
<1>9. Sound(src, new, more, h)
  <2>1. Handed(hnd, more, m, chr[c].slots[k], new[c].slots[k])
    BY <1>3, <1>4, <1>8 DEF Handed
  <2> QED BY <1>6, <1>7, <1>8, <2>1, Carried
<1> QED BY <1>5, <1>9 DEF Order

LEMMA UseStep ==
  ASSUME M!ConstantsAssumption, Order, NEW c \in Characters, NEW idx \in 0 .. SLOTS, M!use(c, idx), ~rough'
  PROVE  Order' /\ ~misused'
<1>1. PICK k : k = idx + 1
  OBVIOUS
<1>2. UNCHANGED <<heap, source, character, hand>> /\ misused' = (heap[character[c].slots[k]] = "free") /\ k \in M!Held(character[c].slots)
  BY <1>1 DEF M!use, M!Outside
<1>3. PICK src, chr, hnd, h : src = source /\ chr = character /\ hnd = hand /\ h = heap
  OBVIOUS
<1>4. Sound(src, chr, hnd, h) /\ chr[c].slots \in [Index -> Things] /\ k \in M!Held(chr[c].slots)
  BY <1>2, <1>3 DEF Order, Sound, Typed, CharacterObjects
<1>5. k \in Index /\ chr[c].slots[k] # NULL
  BY <1>4 DEF M!Held
<1>6. h[chr[c].slots[k]] # "free"
  BY <1>4, <1>5, HeldIsThere
<1> QED BY <1>2, <1>3, <1>6 DEF Order

LEMMA AssignCharacterStep ==
  ASSUME M!ConstantsAssumption, Order, NEW c \in Characters, NEW d \in Characters, M!AssignCharacter(c, d), ~rough'
  PROVE  Order' /\ ~misused'
<1>1. PICK src, chr, hnd, h : src = source /\ chr = character /\ hnd = hand /\ h = heap
  OBVIOUS
<1>2. PICK slots, freed : slots = chr[c].slots /\ freed = M!Deleted(h, chr[d].slots)
  OBVIOUS
<1>3. PICK g : g = freed.heap
  OBVIOUS
<1>4. PICK copy : copy = M!Copied(g, slots)
  OBVIOUS
<1>5. PICK new : new = [chr EXCEPT ![d].slots = copy.slots]
  OBVIOUS
<1>6. c # d /\ character' = new /\ heap' = copy.heap /\ source' = src /\ hand' = hnd /\ misused' = freed.twice
  BY <1>1, <1>2, <1>3, <1>4, <1>5 DEF M!AssignCharacter
<1>7. Sound(src, chr, hnd, h) /\ chr \in [Characters -> CharacterObjects] /\ slots \in [Index -> Things]
  BY <1>1, <1>2 DEF Order, Sound, Typed, CharacterObjects
<1>8. PICK mid : mid = [chr EXCEPT ![d].slots = M!Empty(SLOTS)]
  OBVIOUS
<1>9. M!Empty(SLOTS) \in [Index -> Things] /\ \A k \in Index : M!Empty(SLOTS)[k] = NULL
  BY EmptyHas DEF Index
<1>10. OnlyCharacter(chr, d, mid) /\ mid[d].slots = M!Empty(SLOTS) /\ mid[c] = chr[c]
  BY <1>6, <1>7, <1>8, <1>9 DEF OnlyCharacter, CharacterObjects
<1>11. Sound(src, mid, hnd, freed.heap) /\ ~freed.twice
  BY <1>2, <1>7, <1>9, <1>10, SlotsDropped
<1>12. Cardinality(M!Free(g)) >= SLOTS
  <2>1. M!MemoryFor(SLOTS) /\ SLOTS \in Nat
    BY DEF M!AssignCharacter, M!ConstantsAssumption
  <2>2. Cardinality(M!Free(h)) >= SLOTS
    BY <1>1, <2>1, ThereIsMemory
  <2> QED BY <1>2, <1>3, <2>1, <2>2, MoreMemory
<1>13. Sound(src, mid, hnd, g)
  BY <1>3, <1>11
<1>14. \A k \in Index : slots[k] # NULL => g[slots[k]] # "free"
  <2>1. slots = mid[c].slots
    BY <1>2, <1>10
  <2> QED BY <1>13, <2>1, HeldIsThere
<1>15. copy.slots \in [Index -> Things]
  BY <1>4, <1>7, <1>12, CopiedType DEF Index, Things
<1>16. OnlyCharacter(mid, d, new) /\ new[d].slots = M!Copied(g, slots).slots
  BY <1>4, <1>5, <1>7, <1>8, <1>9, <1>15 DEF OnlyCharacter, CharacterObjects
<1>17. Sound(src, new, hnd, M!Copied(g, slots).heap)
  <2>1. \A k \in Index : mid[d].slots[k] = NULL
    BY <1>9, <1>10
  <2> QED BY <1>7, <1>12, <1>13, <1>14, <1>16, <2>1, SlotsCloned
<1> QED BY <1>4, <1>6, <1>11, <1>17 DEF Order

\* A character begins, and has nothing more or less than before.
LEMMA NewCharacterStep ==
  ASSUME M!ConstantsAssumption, Order, NEW c \in Characters, M!NewCharacter(c)
  PROVE  Order'
<1>1. PICK src, chr, hnd, h : src = source /\ chr = character /\ hnd = hand /\ h = heap
  OBVIOUS
<1>2. PICK new : new = [chr EXCEPT ![c].live = TRUE]
  OBVIOUS
<1>3. character' = new /\ source' = src /\ heap' = h /\ hand' = hnd
  BY <1>1, <1>2 DEF M!NewCharacter
<1>4. Sound(src, chr, hnd, h) /\ Typed(src, chr, hnd) /\ chr \in [Characters -> CharacterObjects]
  BY <1>1 DEF Order, Sound, Typed
<1>5. OnlyCharacter(chr, c, new) /\ new[c].slots = chr[c].slots
  BY <1>2, <1>4 DEF OnlyCharacter, CharacterObjects
<1>6. PICK f, n : f = MapOf(src, chr, hnd) /\ n = MapOf(src, new, hnd)
  OBVIOUS
<1>7. /\ Typed(src, new, hnd)
      /\ \A k \in Index : n[Slot(c, k)] = new[c].slots[k]
      /\ \A x \in M!Places : (\A k \in Index : x # Slot(c, k)) => n[x] = f[x]
  <2>1. CharacterMap(src, chr, hnd, c, new)
    BY <1>4, <1>5, CharacterChanges
  <2> QED BY <1>6, <2>1 DEF CharacterMap
<1>8. f \in [M!Places -> Things] /\ n \in [M!Places -> Things]
  BY <1>4, <1>6, <1>7, MapType
<1>9. ASSUME NEW x \in M!Places PROVE n[x] = f[x]
  <2>1. ASSUME NEW k \in Index, x = Slot(c, k) PROVE n[x] = f[x]
    BY <1>5, <1>6, <1>7, <2>1, MapAt
  <2> QED BY <1>7, <2>1
<1>10. n = f
  BY <1>8, <1>9
<1>11. Sound(src, new, hnd, h)
  BY <1>4, <1>6, <1>7, <1>10 DEF Sound
<1> QED BY <1>3, <1>11 DEF Order

LEMMA DestroyCharacterStep ==
  ASSUME M!ConstantsAssumption, Order, NEW c \in Characters, M!DestroyCharacter(c)
  PROVE  Order' /\ ~misused'
<1>1. PICK src, chr, hnd, h : src = source /\ chr = character /\ hnd = hand /\ h = heap
  OBVIOUS
<1>2. PICK d : d = M!Deleted(h, chr[c].slots)
  OBVIOUS
<1>3. PICK new : new = [chr EXCEPT ![c] = [live |-> FALSE, slots |-> M!Empty(SLOTS)]]
  OBVIOUS
<1>4. character' = new /\ heap' = d.heap /\ source' = src /\ hand' = hnd /\ misused' = d.twice
  BY <1>1, <1>2, <1>3 DEF M!DestroyCharacter
<1>5. Sound(src, chr, hnd, h) /\ chr \in [Characters -> CharacterObjects]
  BY <1>1 DEF Order, Sound, Typed
<1>6. M!Empty(SLOTS) \in [Index -> Things] /\ \A k \in Index : M!Empty(SLOTS)[k] = NULL
  BY EmptyHas DEF Index
<1>7. OnlyCharacter(chr, c, new) /\ new[c].slots = M!Empty(SLOTS)
  BY <1>3, <1>5, <1>6 DEF OnlyCharacter, CharacterObjects
<1>8. Sound(src, new, hnd, d.heap) /\ ~d.twice
  BY <1>2, <1>5, <1>6, <1>7, SlotsDropped
<1> QED BY <1>4, <1>8 DEF Order

-----------------------------------------------------------------------------
\* As long as the caller is not rough everything has one owner.
OneEach == ~rough => ~misused /\ Order

LEMMA OneEachStep ==
  ASSUME M!ConstantsAssumption, OneEach, M!Next
  PROVE  OneEach'
<1> SUFFICES ASSUME ~rough' PROVE ~misused' /\ Order'
  BY DEF OneEach
<1>1. ASSUME NEW s \in Sources, M!DestroySource(s) PROVE ~misused' /\ Order'
  <2>1. ~rough
    BY <1>1 DEF M!DestroySource
  <2> QED BY <1>1, <2>1, DestroySourceStep DEF OneEach
<1>2. ASSUME NEW c \in Characters, M!DestroyCharacter(c) PROVE ~misused' /\ Order'
  <2>1. ~rough
    BY <1>2 DEF M!DestroyCharacter
  <2> QED BY <1>2, <2>1, DestroyCharacterStep DEF OneEach
<1>3. ASSUME ~rough, NEW type \in Types, M!Make(type) PROVE ~misused' /\ Order'
  <2>1. Order /\ ~misused
    BY <1>3 DEF OneEach
  <2>2. M!MemoryFor(1) /\ heap' = [heap EXCEPT ![M!New(heap)] = type] /\ hand' = hand \cup {M!New(heap)} /\ UNCHANGED <<source, character>> /\ misused' = misused
    BY <1>3 DEF M!Make
  <2> QED BY <2>1, <2>2, NewStep
<1>4. ASSUME ~rough, M!OfSource PROVE ~misused' /\ Order'
  <2>1. Order /\ ~misused
    BY <1>4 DEF OneEach
  <2>2. PICK s \in Sources : \/ \E m \in Pointers : M!learnMateria(s, m)
                             \/ \E type \in Types : M!createMateria(s, type)
                             \/ \E t \in Sources : M!CopySource(s, t) \/ M!AssignSource(s, t)
    BY <1>4 DEF M!OfSource
  <2>3. ASSUME NEW m \in Pointers, M!learnMateria(s, m) PROVE ~misused' /\ Order'
    <3>1. misused' = misused
      BY <2>3 DEF M!learnMateria
    <3> QED BY <2>1, <2>3, <3>1, LearnStep
  <2>4. ASSUME NEW type \in Types, M!createMateria(s, type) PROVE ~misused' /\ Order'
    <3>1. M!MemoryFor(1) /\ heap' = [heap EXCEPT ![M!New(heap)] = type] /\ hand' = hand \cup {M!New(heap)} /\ UNCHANGED <<source, character>> /\ misused' = misused
      BY <2>4 DEF M!createMateria
    <3> QED BY <2>1, <3>1, NewStep
  <2>5. ASSUME NEW t \in Sources, M!CopySource(s, t) PROVE ~misused' /\ Order'
    <3>1. misused' = misused
      BY <2>5 DEF M!CopySource
    <3> QED BY <2>1, <2>5, <3>1, CopySourceStep
  <2>6. ASSUME NEW t \in Sources, M!AssignSource(s, t) PROVE ~misused' /\ Order'
    BY <2>1, <2>6, AssignSourceStep
  <2> QED BY <2>2, <2>3, <2>4, <2>5, <2>6
<1>5. ASSUME ~rough, M!OfCharacter PROVE ~misused' /\ Order'
  <2>1. Order /\ ~misused
    BY <1>5 DEF OneEach
  <2>2. PICK c \in Characters : \/ \E m \in Pointers : M!equip(c, m)
                                \/ \E idx \in 0 .. SLOTS : M!unequip(c, idx) \/ M!use(c, idx)
                                \/ \E d \in Characters : M!AssignCharacter(c, d) \/ M!CopyCharacter(c, d)
                                \/ M!NewCharacter(c)
    BY <1>5 DEF M!OfCharacter
  <2>3. ASSUME NEW m \in Pointers, M!equip(c, m) PROVE ~misused' /\ Order'
    <3>1. misused' = misused
      BY <2>3 DEF M!equip
    <3> QED BY <2>1, <2>3, <3>1, EquipStep
  <2>4. ASSUME NEW idx \in 0 .. SLOTS, M!unequip(c, idx) PROVE ~misused' /\ Order'
    BY <2>1, <2>4, UnequipStep
  <2>5. ASSUME NEW idx \in 0 .. SLOTS, M!use(c, idx) PROVE ~misused' /\ Order'
    BY <2>1, <2>5, UseStep
  <2>6. ASSUME NEW d \in Characters, M!AssignCharacter(c, d) PROVE ~misused' /\ Order'
    BY <2>1, <2>6, AssignCharacterStep
  <2>7. ASSUME NEW d \in Characters, M!CopyCharacter(c, d) PROVE FALSE
    BY <2>7 DEF M!CopyCharacter
  <2>8. ASSUME M!NewCharacter(c) PROVE ~misused' /\ Order'
    <3>1. misused' = misused
      BY <2>8 DEF M!NewCharacter
    <3> QED BY <2>1, <2>8, <3>1, NewCharacterStep
  <2> QED BY <2>2, <2>3, <2>4, <2>5, <2>6, <2>7, <2>8
<1> QED BY <1>1, <1>2, <1>3, <1>4, <1>5 DEF M!Next, M!End

LEMMA OneEachAtFirst ==
  ASSUME M!ConstantsAssumption, M!Init
  PROVE  OneEach
<1>1. PICK room \in Rooms : source = [s \in Sources |-> [live |-> s = FIRST, materias |-> M!Empty(SLOTS), inventory |-> M!Empty(room)]]
  BY DEF M!Init
<1>2. PICK src, chr, hnd, h : src = source /\ chr = character /\ hnd = hand /\ h = heap
  OBVIOUS
<1>3. M!Empty(SLOTS) \in [Index -> Things] /\ M!Held(M!Empty(SLOTS)) = {} /\ \A k \in Index : M!Empty(SLOTS)[k] = NULL
  BY EmptyHas DEF Index
<1>4. M!Empty(room) \in UNION {[1 .. n -> Things] : n \in Rooms} /\ M!Held(M!Empty(room)) = {} /\ \A k \in 1 .. room : M!Empty(room)[k] = NULL
  BY EmptyHas
<1>5. \A s \in Sources : src[s] \in SourceObjects /\ src[s].materias = M!Empty(SLOTS) /\ src[s].inventory = M!Empty(room)
  BY <1>1, <1>2, <1>3, <1>4 DEF SourceObjects
<1>6. \A c \in Characters : chr[c] \in CharacterObjects /\ chr[c].slots = M!Empty(SLOTS)
  BY <1>2, <1>3 DEF CharacterObjects, M!Init
<1>7. Typed(src, chr, hnd) /\ hnd = {}
  <2>1. hnd = {} /\ src = [s \in Sources |-> src[s]] /\ chr = [c \in Characters |-> chr[c]]
    BY <1>1, <1>2 DEF M!Init
  <2> QED BY <1>5, <1>6, <2>1 DEF Typed
<1>8. PICK f : f = MapOf(src, chr, hnd)
  OBVIOUS
<1>9. f \in [M!Places -> Things]
  BY <1>7, <1>8, MapType
<1>10. ASSUME NEW x \in M!Places PROVE f[x] = NULL
  <2>1. ASSUME NEW p \in Pointers, x = InHand(p) PROVE f[x] = NULL
    BY <1>7, <1>8, <2>1, MapAt
  <2>2. ASSUME NEW s \in Sources, NEW k \in Index, x = Pattern(s, k) PROVE f[x] = NULL
    BY <1>3, <1>5, <1>8, <2>2, MapAt
  <2>3. ASSUME NEW s \in Sources, NEW k \in Shelf, x = Inventory(s, k) PROVE f[x] = NULL
    <3>1. f[x] = IF k \in DOMAIN src[s].inventory THEN src[s].inventory[k] ELSE NULL
      BY <1>8, <2>3, MapAt
    <3> QED BY <1>4, <1>5, <3>1 DEF M!Empty
  <2>4. ASSUME NEW c \in Characters, NEW k \in Index, x = Slot(c, k) PROVE f[x] = NULL
    BY <1>3, <1>6, <1>8, <2>4, MapAt
  <2> QED BY <2>1, <2>2, <2>3, <2>4, PlacesAre
<1>11. h \in [Pointers -> Types \cup {"free"}] /\ \A p \in Pointers : h[p] = "free"
  BY <1>2 DEF M!Init
<1>12. Owned(M!Places, f, h)
  BY <1>9, <1>10, <1>11 DEF Owned, Things
<1>13. Sound(src, chr, hnd, h)
  BY <1>3, <1>4, <1>5, <1>7, <1>8, <1>12 DEF Sound
<1>14. ~misused
  BY DEF M!Init
<1> QED BY <1>2, <1>13, <1>14 DEF OneEach, Order

\* Who owns a materia is what the places say.
LEMMA OneEachIsOwned ==
  ASSUME M!ConstantsAssumption, OneEach
  PROVE  M!MateriasAreOwned
<1> SUFFICES ASSUME ~rough, NEW p \in Pointers
             PROVE  IF heap[p] = "free" THEN M!Owners(p) = {} ELSE \E x \in M!Owners(p) : M!Owners(p) = {x}
  BY DEF OneEach, M!MateriasAreOwned
<1>1. PICK f : f = MapOf(source, character, hand)
  OBVIOUS
<1>2. Owned(M!Places, f, heap)
  BY <1>1 DEF OneEach, Order, Sound
<1>3. ASSUME NEW x \in M!Places PROVE M!At(x) = f[x]
  <2>1. f[x] = Content(source, character, hand, x)
    BY <1>1 DEF MapOf
  <2>2. M!At(x) = Content(source, character, hand, x)
    BY Zenon DEF M!At, Content
  <2> QED BY <2>1, <2>2
<1>4. M!Owners(p) = {x \in M!Places : f[x] = p}
  BY <1>3 DEF M!Owners
<1>5. p # NULL
  BY DEF M!ConstantsAssumption
<1>6. CASE heap[p] = "free"
  <2>1. \A x \in M!Places : f[x] # p
    BY <1>2, <1>5, <1>6 DEF Owned
  <2> QED BY <1>4, <1>6, <2>1
<1>7. CASE heap[p] # "free"
  <2>1. PICK x \in M!Places : f[x] = p
    BY <1>2, <1>7 DEF Owned
  <2>2. \A y \in M!Places : f[y] = p => y = x
    BY <1>2, <1>5, <2>1 DEF Owned
  <2>3. M!Owners(p) = {x}
    BY <1>4, <2>1, <2>2
  <2> QED BY <1>7, <2>3
<1> QED BY <1>6, <1>7

\* Every materia there is has one owner and one that is gone has none, whatever the numbers of objects,
\* places and materias, for every caller that is not rough (MateriaSource, Character).
THEOREM OneOwnerEach == ASSUME M!ConstantsAssumption PROVE M!Spec => []M!MateriasAreOwned
<1>1. M!Init => OneEach
  BY OneEachAtFirst
<1>2. OneEach /\ [M!Next]_M!vars => OneEach'
  <2>1. ASSUME OneEach, UNCHANGED M!vars PROVE OneEach'
    BY <2>1 DEF OneEach, Order, M!vars
  <2> QED BY <2>1, OneEachStep
<1>3. OneEach => M!MateriasAreOwned
  BY OneEachIsOwned
<1> QED BY <1>1, <1>2, <1>3, PTL DEF M!Spec

-----------------------------------------------------------------------------
(* The game of so_long: the map and what can be reached on it.                  *)

CONSTANT Maps
VARIABLES map, phase, collectible, player, exit, calls, filled, end

G == INSTANCE SoLong

Five       == {"0", "1", "C", "E", "P"}
Grid(w, h) == (0 .. w - 1) \X (0 .. h - 1)
TileOf(m, p) == m[p[2] + 1][p[1] + 1]

Squares(m, w, h, t) == {p \in Grid(w, h) : TileOf(m, p) = t}
Ground(m, w, h) == {p \in Grid(w, h) : TileOf(m, p) # "1"}

\* A map that was let in: a rectangle, with nothing but walls around.
Rectangle(m, w, h) == w \in Nat /\ h \in Nat /\ h > 2 /\ m \in [1 .. h -> [1 .. w -> Five]]
Board(m, w, h)     == Rectangle(m, w, h) /\ \A p \in Ground(m, w, h) : G!Near(p) \subseteq Grid(w, h)

\* The player cannot walk out of S.
ClosedIn(m, w, h, S) == S \subseteq Grid(w, h) /\ \A q \in S : \A p \in G!Near(q) : p \in Ground(m, w, h) => p \in S

\* Whoever walks from a place gets to the targets: they are in each set that he cannot walk out of.
Reaches(m, w, h, from, targets) == \A S \in SUBSET Grid(w, h) : ClosedIn(m, w, h, S) /\ from \in S => targets \subseteq S

Pieces(m, w, h, count, at, door) ==
  /\ at \in Grid(w, h) /\ door \in Grid(w, h) /\ count = Cardinality(Squares(m, w, h, "C"))
  /\ Squares(m, w, h, "P") = {at} /\ Squares(m, w, h, "E") = {door} \ {at}

LEMMA OnGrid ==
  ASSUME NEW w, NEW h, Rectangle(map, w, h)
  PROVE  /\ G!Places = Grid(w, h) /\ (\A p \in Int \X Int : G!Inside(p) <=> p \in Grid(w, h))
         /\ (\A p : G!Tile(p) = TileOf(map, p)) /\ \A t : G!Having(t) = Squares(map, w, h, t)
<1>1. w \in Nat /\ h \in Nat /\ map \in [1 .. h -> [1 .. w -> Five]]
  BY DEF Rectangle
<1>2. Len(map) = h /\ DOMAIN map = 1 .. h /\ \A y \in 1 .. h : Len(map[y]) = w
  <2>1. Len(map) = h /\ DOMAIN map = 1 .. h
    BY <1>1
  <2>2. ASSUME NEW y \in 1 .. h PROVE Len(map[y]) = w
    <3>1. map[y] \in [1 .. w -> Five]
      BY <1>1
    <3> QED BY <1>1, <3>1
  <2> QED BY <2>1, <2>2
<1>3. G!Places = Grid(w, h)
  <2>1. G!Places = UNION {(0 .. w - 1) \X {y - 1} : y \in 1 .. h}
    BY <1>2 DEF G!Places
  <2>2. ASSUME NEW x \in 0 .. w - 1, NEW y \in 0 .. h - 1 PROVE <<x, y>> \in UNION {(0 .. w - 1) \X {z - 1} : z \in 1 .. h}
    <3>1. y + 1 \in 1 .. h /\ (y + 1) - 1 = y
      BY <1>1
    <3>2. <<x, y>> \in (0 .. w - 1) \X {(y + 1) - 1}
      BY <3>1
    <3> QED BY <3>1, <3>2
  <2>3. ASSUME NEW z \in 1 .. h PROVE (0 .. w - 1) \X {z - 1} \subseteq Grid(w, h)
    BY <1>1 DEF Grid
  <2> QED BY <2>1, <2>2, <2>3 DEF Grid
<1>4. ASSUME NEW p \in Int \X Int PROVE G!Inside(p) <=> p \in Grid(w, h)
  <2>1. PICK x \in Int, y \in Int : p = <<x, y>>
    OBVIOUS
  <2>2. G!Inside(p) <=> y \in 0 .. h - 1 /\ x \in 0 .. Len(map[y + 1]) - 1
    BY <1>2, <2>1 DEF G!Inside
  <2>3. y \in 0 .. h - 1 => Len(map[y + 1]) = w
    BY <1>1, <1>2
  <2> QED BY <2>1, <2>2, <2>3 DEF Grid
<1>5. \A p : G!Tile(p) = TileOf(map, p)
  BY DEF G!Tile, TileOf
<1>6. \A t : G!Having(t) = Squares(map, w, h, t)
  BY <1>3, <1>5 DEF G!Having, Squares
<1> QED BY <1>3, <1>4, <1>5, <1>6

LEMMA PutIs ==
  ASSUME NEW m, NEW w, NEW h, Rectangle(m, w, h), NEW p \in Grid(w, h), NEW t \in Five
  PROVE  /\ Rectangle(G!Put(m, p, t), w, h) /\ TileOf(G!Put(m, p, t), p) = t
         /\ \A q \in Grid(w, h) : q # p => TileOf(G!Put(m, p, t), q) = TileOf(m, q)
<1>1. w \in Nat /\ h \in Nat /\ m \in [1 .. h -> [1 .. w -> Five]]
  BY DEF Rectangle
<1>2. PICK x \in 0 .. w - 1, y \in 0 .. h - 1 : p = <<x, y>>
  BY DEF Grid
<1>3. x + 1 \in 1 .. w /\ y + 1 \in 1 .. h
  BY <1>1
<1>4. PICK new : new = G!Put(m, p, t)
  OBVIOUS
<1>5. new = [m EXCEPT ![y + 1] = [m[y + 1] EXCEPT ![x + 1] = t]]
  BY <1>2, <1>4 DEF G!Put
<1>6. new \in [1 .. h -> [1 .. w -> Five]] /\ new[y + 1][x + 1] = t
  BY <1>1, <1>3, <1>5
<1>7. ASSUME NEW q \in Grid(w, h), q # p PROVE TileOf(new, q) = TileOf(m, q)
  <2>1. PICK a \in 0 .. w - 1, b \in 0 .. h - 1 : q = <<a, b>>
    BY DEF Grid
  <2>2. a + 1 \in 1 .. w /\ b + 1 \in 1 .. h /\ (a + 1 # x + 1 \/ b + 1 # y + 1)
    BY <1>1, <1>2, <1>7, <2>1
  <2>3. new[b + 1][a + 1] = m[b + 1][a + 1]
    BY <1>1, <1>3, <1>5, <2>2
  <2> QED BY <2>1, <2>3 DEF TileOf
<1>8. TileOf(new, p) = t
  BY <1>2, <1>6 DEF TileOf
<1> QED BY <1>4, <1>6, <1>7, <1>8 DEF Rectangle

\* A place and those beside it.
LEMMA NearIs ==
  ASSUME NEW p \in Int \X Int, NEW q \in G!Near(p)
  PROVE  q \in Int \X Int /\ q # p /\ p \in G!Near(q)
<1>1. PICK x \in Int, y \in Int : p = <<x, y>>
  OBVIOUS
<1>2. q \in {<<x + 1, y>>, <<x - 1, y>>, <<x, y + 1>>, <<x, y - 1>>}
  BY <1>1 DEF G!Near, G!Right, G!Left, G!Down, G!Up
<1>3. PICK a \in Int, b \in Int : q = <<a, b>> /\ ((a = x /\ (b = y + 1 \/ b = y - 1)) \/ (b = y /\ (a = x + 1 \/ a = x - 1)))
  BY <1>2
<1>4. p \in {<<a + 1, b>>, <<a - 1, b>>, <<a, b + 1>>, <<a, b - 1>>}
  BY <1>1, <1>3
<1>5. p \in G!Near(q)
  BY <1>3, <1>4 DEF G!Near, G!Right, G!Left, G!Down, G!Up
<1> QED BY <1>1, <1>3, <1>5

LEMMA GridIsFinite ==
  ASSUME NEW w \in Nat, NEW h \in Nat
  PROVE  IsFiniteSet(Grid(w, h)) /\ \A S \in SUBSET Grid(w, h) : IsFiniteSet(S)
<1>1. IsFiniteSet(0 .. w - 1) /\ IsFiniteSet(0 .. h - 1)
  BY FS_Interval
<1>2. IsFiniteSet(Grid(w, h))
  BY <1>1, FS_Product DEF Grid
<1> QED BY <1>2, FS_Subset

LEMMA SameCount ==
  ASSUME NEW S
  PROVE  G!Cardinality(S) = Cardinality(S)
BY DEF G!Cardinality, Cardinality, G!IsFiniteSet, IsFiniteSet

\* What is to be done after the first call: the calls it makes, then the others.
CallsOf(X, a, c, new) ==
  /\ new \in Seq(X) /\ Head(c) \in X /\ Head(c) = c[1] /\ 1 \in DOMAIN c
  /\ \A i \in DOMAIN c : c[i] = Head(c) \/ \E j \in DOMAIN new : new[j] = c[i]
  /\ \A i \in DOMAIN a : \E j \in DOMAIN new : new[j] = a[i]
  /\ \A j \in DOMAIN new : (\E i \in DOMAIN a : a[i] = new[j]) \/ (\E i \in DOMAIN c : c[i] = new[j])

LEMMA CallsAre ==
  ASSUME NEW X, NEW a \in Seq(X), NEW c \in Seq(X), c # <<>>
  PROVE  CallsOf(X, a, c, a \o Tail(c))
<1>1. PICK b, new : b = Tail(c) /\ new = a \o b
  OBVIOUS
<1>2. b \in Seq(X) /\ Len(c) \in Nat /\ Len(c) > 0 /\ Len(b) = Len(c) - 1 /\ \A j \in 1 .. Len(b) : b[j] = c[j + 1]
  BY <1>1
<1>3. new \in Seq(X) /\ Len(a) \in Nat /\ Len(new) = Len(a) + Len(b) /\ (\A j \in 1 .. Len(a) : new[j] = a[j]) /\ \A j \in 1 .. Len(b) : new[Len(a) + j] = b[j]
  BY <1>1, <1>2
<1>4. DOMAIN a = 1 .. Len(a) /\ DOMAIN c = 1 .. Len(c) /\ DOMAIN new = 1 .. Len(new) /\ Head(c) = c[1] /\ c[1] \in X
  BY <1>2, <1>3
<1>5. ASSUME NEW i \in 1 .. Len(c), i # 1 PROVE \E j \in 1 .. Len(new) : new[j] = c[i]
  <2>1. i - 1 \in 1 .. Len(b) /\ (i - 1) + 1 = i
    BY <1>2, <1>5
  <2>2. PICK k : k = i - 1
    OBVIOUS
  <2>3. k \in 1 .. Len(b) /\ b[k] = c[i]
    BY <1>2, <2>1, <2>2
  <2>4. new[Len(a) + k] = c[i]
    BY <1>3, <2>3
  <2>5. Len(a) + k \in 1 .. Len(new)
    BY <1>2, <1>3, <2>3
  <2> QED BY <2>4, <2>5
<1>6. ASSUME NEW i \in 1 .. Len(a) PROVE \E j \in 1 .. Len(new) : new[j] = a[i]
  <2>1. i \in 1 .. Len(new) /\ new[i] = a[i]
    BY <1>2, <1>3
  <2> QED BY <2>1
<1>7. ASSUME NEW j \in 1 .. Len(new) PROVE (\E i \in 1 .. Len(a) : a[i] = new[j]) \/ (\E i \in 1 .. Len(c) : c[i] = new[j])
  <2>1. CASE j =< Len(a)
    <3>1. j \in 1 .. Len(a) /\ a[j] = new[j]
      BY <1>2, <1>3, <2>1
    <3> QED BY <3>1
  <2>2. CASE j > Len(a)
    <3>1. PICK k : k = j - Len(a)
      OBVIOUS
    <3>2. k \in 1 .. Len(b) /\ j = Len(a) + k /\ k + 1 \in 1 .. Len(c)
      BY <1>2, <1>3, <2>2, <3>1
    <3>3. c[k + 1] = new[j]
      BY <1>2, <1>3, <3>2
    <3> QED BY <3>2, <3>3
  <2> QED BY <1>2, <1>3, <2>1, <2>2
<1>8. \A i \in 1 .. Len(c) : c[i] = Head(c) \/ \E j \in 1 .. Len(new) : new[j] = c[i]
  BY <1>4, <1>5
<1>9. 1 \in 1 .. Len(c)
  BY <1>2
<1>10. CallsOf(X, a, c, new)
  BY <1>3, <1>4, <1>6, <1>7, <1>8, <1>9 DEF CallsOf
<1> QED BY <1>1, <1>10

\* Of the fill: what is to be done, and what is done.
Waits(todo, p) == \E i \in DOMAIN todo : todo[i] = p

Filling(m, w, h, at, todo, done) ==
  /\ todo \in Seq(Grid(w, h)) /\ done \subseteq Ground(m, w, h)
  /\ \A q \in done : \A p \in G!Near(q) : p \in Ground(m, w, h) => p \in done \/ Waits(todo, p)
  /\ at \in done \/ Waits(todo, at)
  /\ \A S \in SUBSET Grid(w, h) : ClosedIn(m, w, h, S) /\ at \in S => done \subseteq S /\ \A p \in Ground(m, w, h) : Waits(todo, p) => p \in S

\* A call at a place that is marked or a wall.
LEMMA CallReturns ==
  ASSUME NEW m, NEW w, NEW h, NEW at \in Ground(m, w, h), NEW todo, NEW done, Filling(m, w, h, at, todo, done), todo # <<>>,
         Head(todo) \in done \/ Head(todo) \notin Ground(m, w, h), NEW new, new = <<>> \o Tail(todo)
  PROVE  Filling(m, w, h, at, new, done)
<1>1. todo \in Seq(Grid(w, h)) /\ <<>> \in Seq(Grid(w, h))
  BY DEF Filling
<1>2. PICK c : c = new
  OBVIOUS
<1>3. c \in Seq(Grid(w, h)) /\ (\A i \in DOMAIN todo : todo[i] = Head(todo) \/ \E j \in DOMAIN c : c[j] = todo[i])
      /\ \A j \in DOMAIN c : (\E i \in DOMAIN <<>> : <<>>[i] = c[j]) \/ (\E i \in DOMAIN todo : todo[i] = c[j])
  <2>1. PICK a : a = <<>>
    OBVIOUS
  <2>2. a \in Seq(Grid(w, h)) /\ c = a \o Tail(todo)
    BY <1>1, <1>2, <2>1
  <2>3. PICK X : X = Grid(w, h)
    OBVIOUS
  <2>4. CallsOf(X, a, todo, c)
    BY <1>1, <2>2, <2>3, CallsAre
  <2> QED BY <2>1, <2>3, <2>4 DEF CallsOf
<1>4. \A p : Waits(todo, p) => p = Head(todo) \/ Waits(c, p)
  BY <1>3 DEF Waits
<1>5. \A p : Waits(c, p) => Waits(todo, p)
  BY <1>3 DEF Waits
<1>6. \A p \in Ground(m, w, h) : Waits(todo, p) => p \in done \/ Waits(c, p)
  BY <1>4
<1>7. \A q \in done : \A p \in G!Near(q) : p \in Ground(m, w, h) => p \in done \/ Waits(c, p)
  BY <1>6 DEF Filling
<1>8. at \in done \/ Waits(c, at)
  BY <1>6 DEF Filling
<1>9. \A S \in SUBSET Grid(w, h) : ClosedIn(m, w, h, S) /\ at \in S => done \subseteq S /\ \A p \in Ground(m, w, h) : Waits(c, p) => p \in S
  BY <1>5 DEF Filling
<1>10. Filling(m, w, h, at, c, done)
  BY <1>3, <1>7, <1>8, <1>9 DEF Filling
<1> QED BY <1>2, <1>10

\* A call at a place that is marked now.
LEMMA CallMarks ==
  ASSUME NEW m, NEW w, NEW h, Board(m, w, h), NEW at \in Ground(m, w, h), NEW todo, NEW done, Filling(m, w, h, at, todo, done), todo # <<>>,
         NEW p, p = Head(todo), p \in Ground(m, w, h), NEW new, new = <<G!Right(p), G!Left(p), G!Down(p), G!Up(p)>> \o Tail(todo)
  PROVE  Filling(m, w, h, at, new, done \cup {p})
<1>1. todo \in Seq(Grid(w, h)) /\ G!Near(p) \subseteq Grid(w, h)
  BY DEF Filling, Board
<1>2. PICK c, a, o : c = new /\ a = <<G!Right(p), G!Left(p), G!Down(p), G!Up(p)>> /\ o = Head(todo)
  OBVIOUS
<1>3. a \in Seq(Grid(w, h)) /\ (\A i \in DOMAIN a : a[i] \in G!Near(p)) /\ \A q \in G!Near(p) : \E i \in DOMAIN a : a[i] = q
  <2>1. PICK r, l, d, u : r = G!Right(p) /\ l = G!Left(p) /\ d = G!Down(p) /\ u = G!Up(p)
    OBVIOUS
  <2>2. G!Near(p) = {r, l, d, u} /\ a = <<r, l, d, u>>
    BY <1>2, <2>1 DEF G!Near
  <2>3. r \in Grid(w, h) /\ l \in Grid(w, h) /\ d \in Grid(w, h) /\ u \in Grid(w, h)
    BY <1>1, <2>2
  <2>4. a \in Seq(Grid(w, h)) /\ DOMAIN a = 1 .. 4 /\ a[1] = r /\ a[2] = l /\ a[3] = d /\ a[4] = u
    BY <2>2, <2>3
  <2> QED BY <2>2, <2>4
<1>4. c = a \o Tail(todo)
  BY <1>2
<1>5. /\ c \in Seq(Grid(w, h)) /\ o = todo[1] /\ 1 \in DOMAIN todo
      /\ (\A i \in DOMAIN todo : todo[i] = o \/ \E j \in DOMAIN c : c[j] = todo[i])
      /\ (\A i \in DOMAIN a : \E j \in DOMAIN c : c[j] = a[i])
      /\ (\A j \in DOMAIN c : (\E i \in DOMAIN a : a[i] = c[j]) \/ (\E i \in DOMAIN todo : todo[i] = c[j]))
  <2>1. PICK X : X = Grid(w, h)
    OBVIOUS
  <2>2. CallsOf(X, a, todo, c)
    BY <1>1, <1>3, <1>4, <2>1, CallsAre
  <2> QED BY <1>2, <2>1, <2>2 DEF CallsOf
<1>6. o = p
  BY <1>2
<1>7. (\A q : Waits(todo, q) => q = p \/ Waits(c, q)) /\ Waits(todo, p)
  BY <1>5, <1>6 DEF Waits
<1>8. \A q \in G!Near(p) : Waits(c, q)
  BY <1>3, <1>5 DEF Waits
<1>9. \A q : Waits(c, q) => q \in G!Near(p) \/ Waits(todo, q)
  BY <1>3, <1>5 DEF Waits
<1>10. PICK more : more = done \cup {p}
  OBVIOUS
<1>11. more \subseteq Ground(m, w, h) /\ (at \in more \/ Waits(c, at))
  BY <1>7, <1>10 DEF Filling
<1>12. \A q \in more : \A r \in G!Near(q) : r \in Ground(m, w, h) => r \in more \/ Waits(c, r)
  BY <1>7, <1>8, <1>10 DEF Filling
<1>13. ASSUME NEW S \in SUBSET Grid(w, h), ClosedIn(m, w, h, S), at \in S
       PROVE  more \subseteq S /\ \A q \in Ground(m, w, h) : Waits(c, q) => q \in S
  <2>1. done \subseteq S /\ \A q \in Ground(m, w, h) : Waits(todo, q) => q \in S
    BY <1>13 DEF Filling
  <2>2. p \in S
    BY <1>7, <2>1
  <2>3. \A q \in G!Near(p) : q \in Ground(m, w, h) => q \in S
    BY <1>13, <2>2 DEF ClosedIn
  <2> QED BY <1>9, <1>10, <2>1, <2>2, <2>3
<1>14. Filling(m, w, h, at, c, more)
  BY <1>5, <1>11, <1>12, <1>13 DEF Filling
<1> QED BY <1>2, <1>10, <1>14

Targets(m, w, h, door) == Squares(m, w, h, "C") \cup {door}

\* A game on a map of w columns and h rows.
Match(m, w, h, ph, count, at, door, todo, done, over) ==
  /\ Board(m, w, h) /\ Pieces(m, w, h, count, at, door)
  /\ ph = "fill" => over = FALSE /\ door # at /\ Filling(m, w, h, at, todo, done)
  /\ ph = "unsolvable" => ~Reaches(m, w, h, at, Targets(m, w, h, door))
  /\ ph = "play" => Reaches(m, w, h, at, Targets(m, w, h, door)) /\ over = (door = at /\ count = 0)

GameOK ==
  /\ phase \in {"check", "refused", "fill", "unsolvable", "play", "left"}
  /\ phase = "check" => map \in Maps /\ filled = {} /\ end = FALSE
  /\ phase \in {"fill", "unsolvable", "play"} => \E w, h : Match(map, w, h, phase, collectible, player, exit, calls, filled, end)

\* A map that is let in is a board.
LEMMA CheckedBoard ==
  ASSUME G!ConstantsAssumption, map \in Maps, Len(map) > 2, G!map_is_rectangular, G!map_is_valid
  PROVE  \E w, h : Board(map, w, h)
<1>1. map \in Seq(Seq(G!Tiles))
  BY DEF G!ConstantsAssumption
<1>2. PICK w, h : w = Len(map[1]) /\ h = Len(map)
  OBVIOUS
<1>3. h \in Nat /\ h > 2 /\ DOMAIN map = 1 .. h /\ 1 \in 1 .. h /\ \A y \in 1 .. h : map[y] \in Seq(G!Tiles)
  BY <1>1, <1>2
<1>4. w \in Nat /\ \A y \in 1 .. h : Len(map[y]) = w /\ DOMAIN map[y] = 1 .. w
  BY <1>2, <1>3 DEF G!map_is_rectangular
<1>5. ASSUME NEW y \in 1 .. h, NEW x \in 1 .. w PROVE map[y][x] \in Five
  <2>1. <<x - 1, y - 1>> \in (0 .. Len(map[y]) - 1) \X {y - 1}
    BY <1>3, <1>4
  <2>2. <<x - 1, y - 1>> \in G!Places
    BY <1>3, <2>1 DEF G!Places
  <2>3. G!Tile(<<x - 1, y - 1>>) \in Five
    BY <2>2 DEF G!map_is_valid, Five
  <2>4. (x - 1) + 1 = x /\ (y - 1) + 1 = y
    BY <1>3, <1>4
  <2> QED BY <2>3, <2>4 DEF G!Tile
<1>6. map \in [1 .. h -> [1 .. w -> Five]]
  <2>1. ASSUME NEW y \in 1 .. h PROVE map[y] \in [1 .. w -> Five]
    <3>1. PICK T : T = G!Tiles
      OBVIOUS
    <3>2. PICK r : r = map[y]
      OBVIOUS
    <3>3. r \in [1 .. w -> T]
      <4>1. r \in Seq(T) /\ Len(r) = w
        BY <1>3, <1>4, <3>1, <3>2
      <4> QED BY <4>1
    <3>4. \A x \in 1 .. w : r[x] \in Five
      BY <1>5, <3>2
    <3>5. r \in [1 .. w -> Five]
      BY <3>3, <3>4
    <3> QED BY <3>2, <3>5
  <2>2. map = [y \in 1 .. h |-> map[y]]
    BY <1>1, <1>3
  <2> QED BY <2>1, <2>2
<1>7. Rectangle(map, w, h)
  BY <1>3, <1>4, <1>6 DEF Rectangle
<1>8. /\ \A y \in 1 .. h : w > 0 /\ map[y][1] = "1" /\ map[y][w] = "1"
      /\ \A x \in 1 .. w : map[1][x] = "1" /\ map[h][x] = "1"
  <2>1. \A y \in 1 .. h : map[y] # <<>> /\ map[y][1] = "1" /\ map[y][w] = "1"
    BY <1>3, <1>4 DEF G!map_is_valid, G!map_is_closed
  <2>2. \A y \in 1 .. h : w > 0
    BY <1>3, <1>4, <2>1
  <2>3. \A x \in 1 .. w : map[1][x] = "1" /\ map[h][x] = "1"
    BY <1>2, <1>3, <1>4 DEF G!map_is_valid, G!map_is_closed
  <2> QED BY <2>1, <2>2, <2>3
<1>9. ASSUME NEW p \in Ground(map, w, h) PROVE G!Near(p) \subseteq Grid(w, h)
  <2>1. PICK x \in 0 .. w - 1, y \in 0 .. h - 1 : p = <<x, y>> /\ map[y + 1][x + 1] # "1"
    BY DEF Ground, Grid, TileOf
  <2>2. x + 1 \in 1 .. w /\ y + 1 \in 1 .. h
    BY <1>3, <1>4
  <2>3. x + 1 # 1 /\ x + 1 # w /\ y + 1 # 1 /\ y + 1 # h
    BY <1>8, <2>1, <2>2
  <2>4. x - 1 \in 0 .. w - 1 /\ x + 1 \in 0 .. w - 1 /\ y - 1 \in 0 .. h - 1 /\ y + 1 \in 0 .. h - 1
    BY <1>3, <1>4, <2>2, <2>3
  <2>5. G!Near(p) = {<<x + 1, y>>, <<x - 1, y>>, <<x, y + 1>>, <<x, y - 1>>}
    BY <2>1 DEF G!Near, G!Right, G!Left, G!Down, G!Up
  <2> QED BY <2>4, <2>5 DEF Grid
<1>10. Board(map, w, h)
  BY <1>7, <1>9 DEF Board
<1> QED BY <1>10

LEMMA CheckStep ==
  ASSUME G!ConstantsAssumption, GameOK, G!Check
  PROVE  GameOK'
<1>1. map \in Maps /\ filled = {} /\ end = FALSE
  BY DEF GameOK, G!Check
<1>2. PICK w, h : Board(map, w, h)
  BY <1>1, CheckedBoard DEF G!Check
<1>3. PICK m : m = map
  OBVIOUS
<1>4. PICK at, door, count, todo : at = player' /\ door = exit' /\ count = collectible' /\ todo = calls'
  OBVIOUS
<1>5. w \in Nat /\ h \in Nat /\ Rectangle(map, w, h) /\ Board(m, w, h)
  BY <1>2, <1>3 DEF Board, Rectangle
<1>6. \A t : G!Having(t) = Squares(m, w, h, t)
  BY <1>3, <1>5, OnGrid
<1>7. /\ at \in Squares(m, w, h, "P") /\ door \in Squares(m, w, h, "E") /\ count = Cardinality(Squares(m, w, h, "C"))
      /\ Cardinality(Squares(m, w, h, "E")) = 1 /\ Cardinality(Squares(m, w, h, "P")) = 1
      /\ map' = m /\ filled' = {} /\ end' = FALSE /\ todo = <<at>> /\ phase' = "fill"
  <2>1. \A t : G!Cardinality(G!Having(t)) = Cardinality(Squares(m, w, h, t))
    BY <1>6, SameCount
  <2> QED BY <1>1, <1>3, <1>4, <1>6, <2>1 DEF G!Check, G!map_is_valid
<1>8. \A t : Squares(m, w, h, t) \subseteq Grid(w, h) /\ IsFiniteSet(Squares(m, w, h, t))
  <2>1. \A t : Squares(m, w, h, t) \in SUBSET Grid(w, h)
    BY DEF Squares
  <2> QED BY <1>5, <2>1, GridIsFinite
<1>9. Squares(m, w, h, "P") = {at} /\ Squares(m, w, h, "E") = {door}
  <2>1. PICK P, E : P = Squares(m, w, h, "P") /\ E = Squares(m, w, h, "E")
    OBVIOUS
  <2>2. IsFiniteSet(P) /\ IsFiniteSet(E) /\ Cardinality(P) = 1 /\ Cardinality(E) = 1 /\ at \in P /\ door \in E
    BY <1>7, <1>8, <2>1
  <2>3. (\E x : P = {x}) /\ (\E x : E = {x})
    BY <2>2, FS_Singleton
  <2>4. P = {at} /\ E = {door}
    BY <2>2, <2>3
  <2> QED BY <2>1, <2>4
<1>10. door # at
  <2>1. TileOf(m, at) = "P" /\ TileOf(m, door) = "E"
    BY <1>7 DEF Squares
  <2> QED BY <2>1
<1>11. at \in Grid(w, h) /\ door \in Grid(w, h)
  BY <1>7, <1>8
<1>12. Pieces(m, w, h, count, at, door)
  BY <1>7, <1>9, <1>10, <1>11 DEF Pieces
<1>13. Filling(m, w, h, at, todo, {})
  <2>1. todo \in Seq(Grid(w, h)) /\ DOMAIN todo = {1} /\ todo[1] = at
    BY <1>7, <1>11
  <2>2. \A p : Waits(todo, p) <=> p = at
    BY <2>1 DEF Waits
  <2> QED BY <2>1, <2>2 DEF Filling
<1>14. Match(m, w, h, "fill", count, at, door, todo, {}, FALSE)
  BY <1>5, <1>10, <1>12, <1>13 DEF Match
<1> QED BY <1>4, <1>7, <1>14 DEF GameOK

LEMMA FillStep ==
  ASSUME GameOK, G!Fill
  PROVE  GameOK'
<1>1. PICK w, h : Match(map, w, h, phase, collectible, player, exit, calls, filled, end)
  BY DEF GameOK, G!Fill
<1>2. PICK m, count, at, door, todo, done : m = map /\ count = collectible /\ at = player /\ door = exit /\ todo = calls /\ done = filled
  OBVIOUS
<1>3. PICK p : p = Head(todo)
  OBVIOUS
<1>4. phase = "fill" /\ todo # <<>> /\ Match(m, w, h, "fill", count, at, door, todo, done, FALSE) /\ end = FALSE
  BY <1>1, <1>2 DEF Match, G!Fill
<1>5. /\ Board(m, w, h) /\ Rectangle(map, w, h) /\ Filling(m, w, h, at, todo, done) /\ at \in Ground(m, w, h)
      /\ Pieces(m, w, h, count, at, door) /\ door # at
  <2>1. Pieces(m, w, h, count, at, door) /\ at \in Squares(m, w, h, "P")
    BY <1>4 DEF Match, Pieces
  <2> QED BY <1>2, <1>4, <2>1 DEF Match, Board, Squares, Ground
<1>6. p \in Grid(w, h) /\ Grid(w, h) \subseteq Int \X Int
  <2>1. todo \in Seq(Grid(w, h))
    BY <1>5 DEF Filling
  <2>2. Head(todo) \in Grid(w, h)
    BY <1>4, <2>1
  <2> QED BY <1>3, <2>2 DEF Grid
<1>7. G!Inside(p) /\ (G!Blocked(p) <=> p \in done \/ p \notin Ground(m, w, h))
  <2>1. G!Inside(p) /\ G!Tile(p) = TileOf(m, p)
    BY <1>2, <1>5, <1>6, OnGrid
  <2> QED BY <1>2, <1>6, <2>1 DEF G!Blocked, Ground
<1>8. map' = m /\ collectible' = count /\ player' = at /\ exit' = door /\ end' = FALSE /\ phase' = "fill"
  BY <1>2, <1>3, <1>4, <1>7 DEF G!Fill
<1>9. CASE G!Blocked(p)
  <2>1. PICK new : new = <<>> \o Tail(todo)
    OBVIOUS
  <2>2. calls' = new /\ filled' = done
    BY <1>2, <1>3, <1>7, <1>9, <2>1 DEF G!Fill
  <2>3. Filling(m, w, h, at, new, done)
    BY <1>3, <1>4, <1>5, <1>7, <1>9, <2>1, CallReturns
  <2>4. Match(m, w, h, "fill", count, at, door, new, done, FALSE)
    BY <1>5, <2>3 DEF Match
  <2> QED BY <1>8, <2>2, <2>4 DEF GameOK
<1>10. CASE ~G!Blocked(p)
  <2>1. PICK new : new = <<G!Right(p), G!Left(p), G!Down(p), G!Up(p)>> \o Tail(todo)
    OBVIOUS
  <2>2. calls' = new /\ filled' = done \cup {p}
    BY <1>2, <1>3, <1>7, <1>10, <2>1 DEF G!Fill
  <2>3. Filling(m, w, h, at, new, done \cup {p})
    BY <1>3, <1>4, <1>5, <1>7, <1>10, <2>1, CallMarks
  <2>4. PICK more : more = done \cup {p}
    OBVIOUS
  <2>5. Match(m, w, h, "fill", count, at, door, new, more, FALSE)
    BY <1>5, <2>3, <2>4 DEF Match
  <2> QED BY <1>8, <2>2, <2>4, <2>5 DEF GameOK
<1> QED BY <1>9, <1>10

LEMMA FillEndStep ==
  ASSUME GameOK, G!FillEnd
  PROVE  GameOK'
<1>1. PICK w, h : Match(map, w, h, phase, collectible, player, exit, calls, filled, end)
  BY DEF GameOK, G!FillEnd
<1>2. PICK m, count, at, door, todo, done : m = map /\ count = collectible /\ at = player /\ door = exit /\ todo = calls /\ done = filled
  OBVIOUS
<1>3. phase = "fill" /\ todo = <<>> /\ Match(m, w, h, "fill", count, at, door, todo, done, FALSE) /\ end = FALSE
  BY <1>1, <1>2 DEF Match, G!FillEnd
<1>4. /\ Board(m, w, h) /\ Rectangle(map, w, h) /\ Filling(m, w, h, at, todo, done)
      /\ Pieces(m, w, h, count, at, door) /\ door # at
  BY <1>2, <1>3 DEF Match, Board
<1>5. \A p : ~Waits(todo, p)
  BY <1>3 DEF Waits
<1>6. ClosedIn(m, w, h, done) /\ at \in done
  BY <1>4, <1>5 DEF Filling, ClosedIn, Ground
<1>7. \A S \in SUBSET Grid(w, h) : ClosedIn(m, w, h, S) /\ at \in S => done \subseteq S
  BY <1>4 DEF Filling
<1>8. done \in SUBSET Grid(w, h)
  BY <1>6 DEF ClosedIn
<1>9. PICK targets : targets = Targets(m, w, h, door)
  OBVIOUS
<1>10. Reaches(m, w, h, at, targets) <=> targets \subseteq done
  BY <1>6, <1>7, <1>8 DEF Reaches
<1>11. G!Having("E") \cup G!Having("C") = targets
  <2>1. G!Having("E") = {door} \ {at} /\ G!Having("C") = Squares(m, w, h, "C")
    BY <1>2, <1>4, OnGrid DEF Pieces
  <2> QED BY <1>4, <1>9, <2>1 DEF Targets
<1>12. /\ phase' = IF targets \subseteq done THEN "play" ELSE "unsolvable"
       /\ map' = m /\ collectible' = count /\ player' = at /\ exit' = door /\ end' = FALSE /\ calls' = todo /\ filled' = {}
  BY <1>2, <1>3, <1>11 DEF G!FillEnd
<1>13. PICK ph : ph = phase'
  OBVIOUS
<1>14. FALSE = (door = at /\ count = 0)
  BY <1>4
<1>15. Match(m, w, h, ph, count, at, door, todo, {}, FALSE)
  BY <1>4, <1>9, <1>10, <1>12, <1>13, <1>14 DEF Match
<1>16. ph \in {"play", "unsolvable"}
  BY <1>12, <1>13
<1> QED BY <1>12, <1>13, <1>15, <1>16 DEF GameOK

\* What a move leaves on the places.
TilesMoved(m, w, h, to, at, door, new) ==
  /\ Rectangle(new, w, h)
  /\ \A q \in Grid(w, h) :
       TileOf(new, q) = IF q = to THEN "P" ELSE IF q = door THEN "E" ELSE IF q = at THEN "0" ELSE TileOf(m, q)

LEMMA MoveDraws ==
  ASSUME NEW m, NEW w, NEW h, Rectangle(m, w, h), NEW to \in Grid(w, h), NEW at \in Grid(w, h), NEW door \in Grid(w, h), to # at,
         NEW new, new = G!Put(G!Put(m, to, "P"), at, "0"), NEW last, last = IF to # door THEN G!Put(new, door, "E") ELSE new
  PROVE  TilesMoved(m, w, h, to, at, door, last)
<1>1. PICK one : one = G!Put(m, to, "P")
  OBVIOUS
<1>2. "P" \in Five /\ "0" \in Five /\ "E" \in Five
  BY DEF Five
<1>3. Rectangle(one, w, h) /\ TileOf(one, to) = "P" /\ \A q \in Grid(w, h) : q # to => TileOf(one, q) = TileOf(m, q)
  BY <1>1, <1>2, PutIs
<1>4. PICK two : two = new
  OBVIOUS
<1>5. two = G!Put(one, at, "0")
  BY <1>1, <1>4
<1>6. Rectangle(two, w, h) /\ TileOf(two, at) = "0" /\ \A q \in Grid(w, h) : q # at => TileOf(two, q) = TileOf(one, q)
  BY <1>2, <1>3, <1>5, PutIs
<1>7. CASE to # door
  <2>1. PICK three : three = last
    OBVIOUS
  <2>2. three = G!Put(two, door, "E")
    BY <1>4, <1>7, <2>1
  <2>3. Rectangle(three, w, h) /\ TileOf(three, door) = "E" /\ \A q \in Grid(w, h) : q # door => TileOf(three, q) = TileOf(two, q)
    BY <1>2, <1>6, <2>2, PutIs
  <2>4. TilesMoved(m, w, h, to, at, door, three)
    BY <1>3, <1>6, <1>7, <2>3 DEF TilesMoved
  <2> QED BY <2>1, <2>4
<1>8. CASE to = door
  <2>1. TilesMoved(m, w, h, to, at, door, two)
    BY <1>3, <1>6, <1>8 DEF TilesMoved
  <2> QED BY <1>4, <1>8, <2>1
<1> QED BY <1>7, <1>8

\* Where the player can walk stays the same.
LEMMA MoveKeepsGround ==
  ASSUME NEW m, NEW w, NEW h, Board(m, w, h), NEW count, NEW at, NEW door, Pieces(m, w, h, count, at, door),
         NEW to \in Grid(w, h), TileOf(m, to) \in {"C", "E", "0"}, NEW new, TilesMoved(m, w, h, to, at, door, new)
  PROVE  Board(new, w, h) /\ Ground(new, w, h) = Ground(m, w, h)
<1>1. at \in Grid(w, h) /\ TileOf(m, at) = "P" /\ door \in Grid(w, h) /\ (door = at \/ TileOf(m, door) = "E")
  <2>1. at \in Squares(m, w, h, "P") /\ (door = at \/ door \in Squares(m, w, h, "E")) /\ at \in Grid(w, h) /\ door \in Grid(w, h)
    BY DEF Pieces
  <2> QED BY <2>1 DEF Squares
<1>2. \A q \in Grid(w, h) : TileOf(new, q) # "1" <=> TileOf(m, q) # "1"
  BY <1>1 DEF TilesMoved
<1>3. Ground(new, w, h) = Ground(m, w, h)
  BY <1>2 DEF Ground
<1> QED BY <1>3 DEF Board, TilesMoved

LEMMA MoveKeepsPieces ==
  ASSUME NEW m, NEW w, NEW h, Board(m, w, h), NEW count, NEW at, NEW door, Pieces(m, w, h, count, at, door),
         NEW to \in Grid(w, h), to # at, TileOf(m, to) \in {"C", "E", "0"}, NEW new, TilesMoved(m, w, h, to, at, door, new),
         NEW left, left = IF TileOf(m, to) = "C" THEN count - 1 ELSE count
  PROVE  /\ Pieces(new, w, h, left, to, door) /\ Squares(new, w, h, "C") \subseteq Squares(m, w, h, "C")
         /\ (TileOf(m, to) = "E" <=> to = door)
<1>1. /\ at \in Grid(w, h) /\ door \in Grid(w, h) /\ count = Cardinality(Squares(m, w, h, "C"))
      /\ Squares(m, w, h, "P") = {at} /\ Squares(m, w, h, "E") = {door} \ {at}
  BY DEF Pieces
<1>2. /\ \A q \in Grid(w, h) : TileOf(m, q) = "P" <=> q = at
      /\ \A q \in Grid(w, h) : TileOf(m, q) = "E" <=> q = door /\ q # at
  BY <1>1 DEF Squares
<1>3. \A q \in Grid(w, h) : TileOf(new, q) = IF q = to THEN "P" ELSE IF q = door THEN "E" ELSE IF q = at THEN "0" ELSE TileOf(m, q)
  BY DEF TilesMoved
<1>4. \A q \in Grid(w, h) : TileOf(new, q) = "P" <=> q = to
  BY <1>2, <1>3
<1>5. \A q \in Grid(w, h) : TileOf(new, q) = "E" <=> q = door /\ q # to
  BY <1>1, <1>2, <1>3
<1>6. \A q \in Grid(w, h) : TileOf(new, q) = "C" <=> TileOf(m, q) = "C" /\ q # to
  BY <1>1, <1>2, <1>3
<1>7. Squares(new, w, h, "P") = {to} /\ Squares(new, w, h, "E") = {door} \ {to}
  BY <1>1, <1>4, <1>5 DEF Squares
<1>8. PICK C, D : C = Squares(m, w, h, "C") /\ D = Squares(new, w, h, "C")
  OBVIOUS
<1>9. D = C \ {to} /\ (to \in C <=> TileOf(m, to) = "C")
  BY <1>6, <1>8 DEF Squares
<1>10. IsFiniteSet(C)
  <2>1. w \in Nat /\ h \in Nat /\ C \in SUBSET Grid(w, h)
    BY <1>8 DEF Board, Rectangle, Squares
  <2> QED BY <2>1, GridIsFinite
<1>11. left = Cardinality(D)
  <2>1. CASE to \in C
    <3>1. Cardinality(C \ {to}) = Cardinality(C) - 1
      BY <1>10, <2>1, FS_RemoveElement
    <3> QED BY <1>1, <1>8, <1>9, <2>1, <3>1
  <2>2. CASE to \notin C
    <3>1. D = C
      BY <1>9, <2>2
    <3> QED BY <1>1, <1>8, <1>9, <2>2, <3>1
  <2> QED BY <2>1, <2>2
<1>12. Pieces(new, w, h, left, to, door)
  BY <1>1, <1>7, <1>8, <1>11 DEF Pieces
<1>13. D \subseteq C
  BY <1>9
<1> QED BY <1>2, <1>8, <1>12, <1>13

LEMMA MoveReaches ==
  ASSUME NEW m, NEW w, NEW h, NEW at \in Ground(m, w, h), NEW targets, Reaches(m, w, h, at, targets), NEW to \in G!Near(at),
         NEW new, Ground(new, w, h) = Ground(m, w, h), NEW few, few \subseteq targets, w \in Nat, h \in Nat
  PROVE  Reaches(new, w, h, to, few)
<1>1. at \in G!Near(to)
  <2>1. at \in Int \X Int
    BY DEF Ground, Grid
  <2> QED BY <2>1, NearIs
<1>2. ASSUME NEW S \in SUBSET Grid(w, h), ClosedIn(new, w, h, S), to \in S PROVE few \subseteq S
  <2>1. ClosedIn(m, w, h, S)
    BY <1>2 DEF ClosedIn
  <2>2. at \in S
    BY <1>1, <1>2 DEF ClosedIn
  <2>3. targets \subseteq S
    BY <2>1, <2>2 DEF Reaches
  <2> QED BY <2>3
<1> QED BY <1>2 DEF Reaches

LEMMA MoveStep ==
  ASSUME GameOK, NEW to \in G!Near(player), G!Move(to)
  PROVE  GameOK'
<1>1. PICK w, h : Match(map, w, h, phase, collectible, player, exit, calls, filled, end)
  BY DEF GameOK, G!Move
<1>2. PICK m, count, at, door, todo, done : m = map /\ count = collectible /\ at = player /\ door = exit /\ todo = calls /\ done = filled
  OBVIOUS
<1>3. /\ phase = "play" /\ Board(m, w, h) /\ Pieces(m, w, h, count, at, door) /\ Reaches(m, w, h, at, Targets(m, w, h, door))
      /\ Rectangle(map, w, h) /\ Rectangle(m, w, h) /\ w \in Nat /\ h \in Nat /\ to \in G!Near(at)
  BY <1>1, <1>2 DEF Match, Board, Rectangle, G!Move
<1>4. at \in Grid(w, h) /\ door \in Grid(w, h) /\ at \in Ground(m, w, h)
  <2>1. at \in Squares(m, w, h, "P") /\ at \in Grid(w, h) /\ door \in Grid(w, h)
    BY <1>3 DEF Pieces
  <2> QED BY <2>1 DEF Squares, Ground
<1>5. to \in Grid(w, h) /\ to # at
  <2>1. at \in Int \X Int
    BY <1>4 DEF Grid
  <2>2. to \in Grid(w, h)
    BY <1>3, <1>4 DEF Board
  <2> QED BY <1>3, <2>1, <2>2, NearIs
<1>6. G!Tile(to) = TileOf(m, to)
  BY <1>2, <1>3, OnGrid
<1>7. PICK two, new, left, over : two = G!Put(G!Put(m, to, "P"), at, "0") /\ new = map' /\ left = collectible' /\ over = end'
  OBVIOUS
<1>8. /\ TileOf(m, to) \in {"C", "E", "0"} /\ left = (IF TileOf(m, to) = "C" THEN count - 1 ELSE count)
      /\ over = (TileOf(m, to) = "E" /\ count = 0) /\ new = (IF to # door THEN G!Put(two, door, "E") ELSE two)
      /\ player' = to /\ phase' = "play" /\ exit' = door /\ calls' = todo /\ filled' = done
  BY <1>2, <1>3, <1>6, <1>7 DEF G!Move, G!can_move, G!render_exit
<1>9. TilesMoved(m, w, h, to, at, door, new)
  BY <1>3, <1>4, <1>5, <1>7, <1>8, MoveDraws
<1>10. Board(new, w, h) /\ Ground(new, w, h) = Ground(m, w, h)
  BY <1>3, <1>5, <1>8, <1>9, MoveKeepsGround
<1>11. Pieces(new, w, h, left, to, door) /\ Squares(new, w, h, "C") \subseteq Squares(m, w, h, "C") /\ (TileOf(m, to) = "E" <=> to = door)
  BY <1>3, <1>5, <1>8, <1>9, MoveKeepsPieces
<1>12. Reaches(new, w, h, to, Targets(new, w, h, door))
  <2>1. PICK targets, few : targets = Targets(m, w, h, door) /\ few = Targets(new, w, h, door)
    OBVIOUS
  <2>2. few \subseteq targets
    BY <1>11, <2>1 DEF Targets
  <2> QED BY <1>3, <1>4, <1>10, <2>1, <2>2, MoveReaches
<1>13. over = (door = to /\ left = 0)
  BY <1>8, <1>11
<1>14. Match(new, w, h, "play", left, to, door, todo, done, over)
  BY <1>10, <1>11, <1>12, <1>13 DEF Match
<1> QED BY <1>7, <1>8, <1>14 DEF GameOK

LEMMA StayStep ==
  ASSUME GameOK, NEW to \in G!Near(player), G!Stay(to)
  PROVE  GameOK'
<1>1. PICK w, h : Match(map, w, h, phase, collectible, player, exit, calls, filled, end)
  BY DEF GameOK, G!Stay
<1>2. PICK m, count, at, door, todo, done, over : m = map /\ count = collectible /\ at = player /\ door = exit /\ todo = calls /\ done = filled /\ over = end
  OBVIOUS
<1>3. phase = "play" /\ Match(m, w, h, "play", count, at, door, todo, done, over) /\ Rectangle(m, w, h) /\ Pieces(m, w, h, count, at, door)
  BY <1>1, <1>2 DEF Match, Board, G!Stay
<1>4. map' = m
  <2>1. PICK new : new = map'
    OBVIOUS
  <2>2. new = IF at # door THEN G!Put(m, door, "E") ELSE m
    BY <1>2, <2>1 DEF G!Stay, G!render_exit
  <2>3. CASE at # door
    <3>1. door \in Grid(w, h) /\ TileOf(m, door) = "E"
      <4>1. door \in Squares(m, w, h, "E")
        BY <1>3, <2>3 DEF Pieces
      <4> QED BY <4>1 DEF Squares
    <3>2. PICK x \in 0 .. w - 1, y \in 0 .. h - 1 : door = <<x, y>>
      BY <3>1 DEF Grid
    <3>3. m[y + 1][x + 1] = "E"
      BY <3>1, <3>2 DEF TileOf
    <3>4. new = [m EXCEPT ![y + 1] = [m[y + 1] EXCEPT ![x + 1] = "E"]]
      BY <2>2, <2>3, <3>2 DEF G!Put
    <3>5. w \in Nat /\ h \in Nat /\ m \in [1 .. h -> [1 .. w -> Five]] /\ y + 1 \in 1 .. h /\ x + 1 \in 1 .. w
      BY <1>3 DEF Rectangle
    <3>6. PICK r : r = m[y + 1]
      OBVIOUS
    <3>7. r \in [1 .. w -> Five] /\ [r EXCEPT ![x + 1] = "E"] = r
      BY <3>3, <3>5, <3>6
    <3>8. new = [m EXCEPT ![y + 1] = r]
      BY <3>4, <3>6, <3>7
    <3>9. [m EXCEPT ![y + 1] = r] = m
      BY <3>5, <3>6
    <3> QED BY <2>1, <3>8, <3>9
  <2> QED BY <2>1, <2>2, <2>3
<1>5. collectible' = count /\ player' = at /\ exit' = door /\ calls' = todo /\ filled' = done /\ end' = over /\ phase' = "play"
  BY <1>2, <1>3 DEF G!Stay
<1> QED BY <1>3, <1>4, <1>5 DEF GameOK

LEMMA GameStep ==
  ASSUME G!ConstantsAssumption, GameOK, [G!Next]_(G!vars)
  PROVE  GameOK'
<1>1. CASE G!Check
  BY <1>1, CheckStep
<1>2. CASE G!Refuse
  BY <1>2 DEF GameOK, G!Refuse
<1>3. CASE G!Fill
  BY <1>3, FillStep
<1>4. CASE G!FillEnd
  BY <1>4, FillEndStep
<1>5. CASE G!Key
  BY <1>5, MoveStep, StayStep DEF G!Key
<1>6. CASE G!Escape
  BY <1>6 DEF GameOK, G!Escape
<1>7. CASE UNCHANGED G!vars
  <2>1. /\ map' = map /\ phase' = phase /\ collectible' = collectible /\ player' = player
        /\ exit' = exit /\ calls' = calls /\ filled' = filled /\ end' = end
    BY <1>7 DEF G!vars
  <2>2. CASE phase \in {"fill", "unsolvable", "play"}
    <3>1. PICK w, h : Match(map, w, h, phase, collectible, player, exit, calls, filled, end)
      BY <2>2 DEF GameOK
    <3>2. Match(map', w, h, phase', collectible', player', exit', calls', filled', end')
      BY <2>1, <3>1
    <3> QED BY <2>1, <2>2, <3>2 DEF GameOK
  <2>3. CASE phase \notin {"fill", "unsolvable", "play"}
    BY <2>1, <2>3 DEF GameOK
  <2> QED BY <2>2, <2>3
<1> QED BY <1>1, <1>2, <1>3, <1>4, <1>5, <1>6, <1>7 DEF G!Next

-----------------------------------------------------------------------------
(* The game of so_long: what is proved about it.                                *)

\* A place that the player gets to by walking is in every set of places with
\* the player in it that holds all places beside its own that are no wall.
CanWin ==
  \A S \in SUBSET G!Places : player \in S /\ G!Beside(S) \subseteq S => G!Having("C") \cup {exit} \subseteq S

LEMMA CanWinIs ==
  ASSUME NEW w, NEW h, Rectangle(map, w, h), NEW count, Pieces(map, w, h, count, player, exit)
  PROVE  CanWin <=> Reaches(map, w, h, player, Targets(map, w, h, exit))
<1>1. G!Places = Grid(w, h) /\ (\A p \in Int \X Int : G!Inside(p) <=> p \in Grid(w, h)) /\ (\A p : G!Tile(p) = TileOf(map, p))
      /\ G!Having("C") = Squares(map, w, h, "C")
  BY OnGrid
<1>2. ASSUME NEW S \in SUBSET Grid(w, h) PROVE G!Beside(S) \subseteq S <=> ClosedIn(map, w, h, S)
  <2>1. \A q \in S : \A p \in G!Near(q) : p \in Int \X Int
    <3>1. \A q \in S : q \in Int \X Int
      BY DEF Grid
    <3> QED BY <3>1, NearIs
  <2>2. \A p : p \in G!Beside(S) <=> \E q \in S : p \in G!Near(q) /\ p \in Ground(map, w, h)
    BY <1>1, <2>1 DEF G!Beside, Ground
  <2> QED BY <2>2 DEF ClosedIn
<1> QED BY <1>1, <1>2 DEF CanWin, Reaches, Targets

LEMMA ViewIs ==
  ASSUME NEW at \in Nat, NEW len \in Nat, at < len
  PROVE  /\ G!ViewX(at, len) \in at - 29 .. at /\ G!ViewX(at, len) >= 0
         /\ G!ViewY(at, len) \in at - 16 .. at /\ G!ViewY(at, len) >= 0
<1>1. G!ViewEnd(at, len, 29) \in at .. at + 29 /\ G!ViewEnd(at, len, 16) \in at .. at + 16
  BY DEF G!ViewEnd, G!Min2
<1>2. G!Max2(at - 7, 0) \in at - 7 .. at /\ G!Max2(at - 7, 0) >= 0 /\ G!Max2(at - 14, 0) \in at - 14 .. at /\ G!Max2(at - 14, 0) >= 0
  BY DEF G!Max2
<1>3. PICK a, b, c, d : a = G!ViewEnd(at, len, 29) /\ b = G!ViewEnd(at, len, 16) /\ c = G!Max2(at - 7, 0) /\ d = G!Max2(at - 14, 0)
  OBVIOUS
<1>4. G!ViewX(at, len) \in {c} \cup (IF a - 29 > -1 THEN {a - 29} ELSE {})
  BY <1>3 DEF G!ViewX
<1>5. G!ViewY(at, len) \in {d} \cup (IF b - 16 > -1 THEN {b - 16} ELSE {})
  BY <1>3 DEF G!ViewY
<1>6. G!ViewX(at, len) \in at - 29 .. at /\ G!ViewX(at, len) >= 0
  BY <1>1, <1>2, <1>3, <1>4
<1>7. G!ViewY(at, len) \in at - 16 .. at /\ G!ViewY(at, len) >= 0
  BY <1>1, <1>2, <1>3, <1>5
<1> QED BY <1>6, <1>7

\* What the invariant says of the game.
LEMMA GameIs ==
  ASSUME GameOK
  PROVE  /\ phase # "crash" /\ (phase = "unsolvable" => ~CanWin) /\ (phase = "play" => CanWin)
         /\ G!Counted /\ G!Shown
<1>1. CASE phase \notin {"fill", "unsolvable", "play"}
  BY <1>1 DEF GameOK, G!Counted, G!Shown
<1>2. CASE phase \in {"fill", "unsolvable", "play"}
  <2>1. PICK w, h : Match(map, w, h, phase, collectible, player, exit, calls, filled, end)
    BY <1>2 DEF GameOK
  <2>2. Rectangle(map, w, h) /\ Pieces(map, w, h, collectible, player, exit)
    BY <2>1 DEF Match, Board
  <2>3. (phase = "unsolvable" => ~CanWin) /\ (phase = "play" => CanWin)
    BY <2>1, <2>2, CanWinIs DEF Match
  <2>4. G!Counted
    <3>1. \A t : G!Having(t) = Squares(map, w, h, t)
      BY <2>2, OnGrid
    <3>2. G!Cardinality(G!Having("C")) = Cardinality(Squares(map, w, h, "C"))
      BY <3>1, SameCount
    <3> QED BY <2>2, <3>1, <3>2 DEF G!Counted, Pieces
  <2>5. G!Shown
    <3>1. PICK x \in 0 .. w - 1, y \in 0 .. h - 1 : player = <<x, y>>
      BY <2>2 DEF Pieces, Grid
    <3>2. w \in Nat /\ h \in Nat /\ h > 2 /\ map \in [1 .. h -> [1 .. w -> Five]]
      BY <2>2 DEF Rectangle
    <3>3. Len(map) = h /\ map[1] \in [1 .. w -> Five]
      BY <3>2
    <3>4. Len(map[1]) = w
      BY <3>2, <3>3
    <3>5. x \in Nat /\ y \in Nat /\ x < w /\ y < h
      BY <3>1, <3>2
    <3>6. /\ G!ViewX(x, w) \in x - 29 .. x /\ G!ViewX(x, w) >= 0
          /\ G!ViewY(y, h) \in y - 16 .. y /\ G!ViewY(y, h) >= 0
      BY <3>2, <3>5, ViewIs
    <3>7. player[1] = x /\ player[2] = y
      BY <3>1
    <3>8. phase = "play" => end = G!ShowsWin
      BY <2>1 DEF Match, G!ShowsWin
    <3> QED BY <3>3, <3>4, <3>6, <3>7, <3>8 DEF G!Shown
  <2>6. phase # "crash"
    BY <1>2
  <2> QED BY <2>3, <2>4, <2>5, <2>6
<1> QED BY <1>1, <1>2

\* Whatever map is read: flood_fill() looks at places of the map only, and lets a map be
\* played exactly when the player can walk to the exit and to all there is to collect;
\* so he can from wherever he goes, what is left is counted right, the exit is there
\* when he is not on it, the picture says that the game is won when the keys no longer
\* move him, and he is among the tiles drawn.
THEOREM StaysWinnable ==
  ASSUME G!ConstantsAssumption
  PROVE  G!Spec => [](/\ phase # "crash" /\ (phase = "unsolvable" => ~CanWin) /\ (phase = "play" => CanWin)
                      /\ G!Counted /\ G!Shown)
<1>1. G!Init => GameOK
  BY DEF G!Init, GameOK
<1>2. GameOK /\ [G!Next]_(G!vars) => GameOK'
  BY GameStep
<1>3. GameOK => /\ phase # "crash" /\ (phase = "unsolvable" => ~CanWin) /\ (phase = "play" => CanWin)
                /\ G!Counted /\ G!Shown
  BY GameIs
<1> QED BY <1>1, <1>2, <1>3, PTL DEF G!Spec

-----------------------------------------------------------------------------
(* The phone book: what was entered whole, and how many of it are not behind a  *)
(* place.                                                                       *)

CONSTANTS ROOM, Entered, Numbers, Empty, Asked, MaxCommands
VARIABLES contacts, size, shown, entered              \* running is that of Environment

B == INSTANCE PhoneBook

Whole(text) == text[4] \in Numbers /\ \A k \in 1 .. 5 : text[k] # Empty

\* The whole texts among those of a list, and how many of them are not behind a place.
WholeOf(list)   == {i \in DOMAIN list : Whole(list[i])}
UpTo(list, i)   == {j \in WholeOf(list) : j =< i}
Kth(list, k, text) == \E i \in WholeOf(list) : text = list[i] /\ k = Cardinality(UpTo(list, i))

\* The property counts with the operator of the module that PhoneBook takes it from.
LEMMA CountsAs ==
  B!Good = WholeOf(entered) /\ (\A S : B!Cardinality(S) = Cardinality(S)) /\ \A k, text : B!IsLatest(k, text) <=> Kth(entered, k, text)
<1>1. B!Good = WholeOf(entered)
  BY DEF B!Good, WholeOf, Whole
<1>2. \A S : B!Cardinality(S) = Cardinality(S)
  BY DEF B!Cardinality, B!IsFiniteSet, Cardinality, IsFiniteSet
<1> QED BY <1>1, <1>2 DEF B!IsLatest, Kth, UpTo

\* What was there is one place further behind when something is put in front.
LEMMA InFront ==
  ASSUME NEW list \in Seq(Entered), NEW text \in Entered
  PROVE  LET new == <<text>> \o list
         IN  /\ new \in Seq(Entered) /\ Len(new) = Len(list) + 1 /\ new[1] = text
             /\ \A i \in 1 .. Len(list) : new[i + 1] = list[i]
OBVIOUS

LEMMA WholeIs ==
  ASSUME NEW list \in Seq(Entered)
  PROVE  /\ IsFiniteSet(WholeOf(list)) /\ WholeOf(list) \in SUBSET (1 .. Len(list))
         /\ \A i : IsFiniteSet(UpTo(list, i)) /\ Cardinality(UpTo(list, i)) \in Nat
         /\ Cardinality(WholeOf(list)) \in Nat
<1>1. WholeOf(list) \in SUBSET (1 .. Len(list)) /\ Len(list) \in Nat
  BY DEF WholeOf
<1>2. IsFiniteSet(WholeOf(list))
  <2>1. IsFiniteSet(1 .. Len(list))
    BY <1>1, FS_Interval
  <2> QED BY <1>1, <2>1, FS_Subset
<1>3. \A i : UpTo(list, i) \in SUBSET WholeOf(list)
  BY DEF UpTo
<1>4. \A i : IsFiniteSet(UpTo(list, i))
  BY <1>2, <1>3, FS_Subset
<1> QED BY <1>1, <1>2, <1>4, FS_CardinalityType

\* As many are whole behind the place in front.
LEMMA Shifted ==
  ASSUME NEW T \in SUBSET Nat, IsFiniteSet(T)
  PROVE  LET U == {j + 1 : j \in T} IN IsFiniteSet(U) /\ Cardinality(U) = Cardinality(T)
<1> DEFINE U == {j + 1 : j \in T}
           f == [j \in T |-> j + 1]
<1>1. f \in [T -> U]
  OBVIOUS
<1>2. \A x, y \in T : f[x] = f[y] => x = y
  OBVIOUS
<1>3. \A u \in U : \E x \in T : f[x] = u
  OBVIOUS
<1>4. f \in Bijection(T, U)
  BY <1>1, <1>2, <1>3 DEF Bijection, Injection, Surjection, IsInjective
<1>5. ExistsBijection(T, U)
  BY <1>4 DEF ExistsBijection
<1> QED BY <1>5, FS_Bijection

\* Counting when something is put in front.
LEMMA CountInFront ==
  ASSUME NEW list \in Seq(Entered), NEW text \in Entered, NEW new, new = <<text>> \o list
  PROVE  /\ Cardinality(WholeOf(new)) = Cardinality(WholeOf(list)) + (IF Whole(text) THEN 1 ELSE 0)
         /\ \A i \in WholeOf(list) :
              /\ i + 1 \in WholeOf(new) /\ new[i + 1] = list[i]
              /\ Cardinality(UpTo(new, i + 1)) = Cardinality(UpTo(list, i)) + (IF Whole(text) THEN 1 ELSE 0)
         /\ Whole(text) => Kth(new, 1, text)
<1>1. /\ new \in Seq(Entered) /\ Len(new) = Len(list) + 1 /\ new[1] = text /\ Len(list) \in Nat
      /\ \A i \in 1 .. Len(list) : new[i + 1] = list[i]
  BY InFront
<1>2. DOMAIN new = 1 .. Len(list) + 1 /\ DOMAIN list = 1 .. Len(list)
  BY <1>1
<1> DEFINE Ahead == IF Whole(text) THEN {1} ELSE {}
<1>3. WholeOf(new) = {j + 1 : j \in WholeOf(list)} \cup Ahead
  <2>1. ASSUME NEW i \in DOMAIN new PROVE i \in WholeOf(new) <=> i \in {j + 1 : j \in WholeOf(list)} \cup Ahead
    <3>1. CASE i = 1
      BY <1>1, <1>2, <3>1 DEF WholeOf
    <3>2. CASE i # 1
      <4>1. i - 1 \in DOMAIN list /\ new[i] = list[i - 1]
        <5>1. i - 1 \in 1 .. Len(list) /\ (i - 1) + 1 = i
          BY <1>1, <1>2, <3>2
        <5> QED BY <1>1, <1>2, <5>1
      <4>2. i \in WholeOf(new) <=> i - 1 \in WholeOf(list)
        BY <4>1 DEF WholeOf
      <4>3. i - 1 \in WholeOf(list) <=> i \in {j + 1 : j \in WholeOf(list)}
        <5>1. \A j \in WholeOf(list) : j \in Int
          BY <1>2 DEF WholeOf
        <5>2. i \in Int
          BY <1>2
        <5> QED BY <5>1, <5>2
      <4> QED BY <3>2, <4>2, <4>3
    <3> QED BY <3>1, <3>2
  <2>2. {j + 1 : j \in WholeOf(list)} \cup Ahead \subseteq DOMAIN new
    BY <1>1, <1>2 DEF WholeOf
  <2> QED BY <2>1, <2>2 DEF WholeOf
<1>4. IsFiniteSet(WholeOf(list)) /\ WholeOf(list) \in SUBSET (1 .. Len(list))
  BY WholeIs
<1>5. ASSUME NEW T \in SUBSET (1 .. Len(list)), IsFiniteSet(T)
      PROVE  Cardinality({j + 1 : j \in T} \cup Ahead) = Cardinality(T) + (IF Whole(text) THEN 1 ELSE 0)
  <2>1. PICK U : U = {j + 1 : j \in T}
    OBVIOUS
  <2>2. IsFiniteSet(U) /\ Cardinality(U) = Cardinality(T) /\ 1 \notin U /\ Cardinality(T) \in Nat
    <3>1. T \in SUBSET Nat
      OBVIOUS
    <3>2. 1 \notin U
      BY <2>1
    <3> QED BY <1>5, <2>1, <3>1, <3>2, Shifted, FS_CardinalityType
  <2>3. CASE Whole(text)
    BY <2>1, <2>2, <2>3, FS_AddElement
  <2>4. CASE ~Whole(text)
    <3>1. U \cup Ahead = U
      BY <2>4
    <3> QED BY <2>1, <2>2, <2>4, <3>1
  <2> QED BY <2>3, <2>4
<1>6. Cardinality(WholeOf(new)) = Cardinality(WholeOf(list)) + (IF Whole(text) THEN 1 ELSE 0)
  BY <1>3, <1>4, <1>5
<1>7. ASSUME NEW i \in WholeOf(list)
      PROVE  /\ i + 1 \in WholeOf(new) /\ new[i + 1] = list[i]
             /\ Cardinality(UpTo(new, i + 1)) = Cardinality(UpTo(list, i)) + (IF Whole(text) THEN 1 ELSE 0)
  <2>1. i + 1 \in WholeOf(new) /\ new[i + 1] = list[i] /\ i \in 1 .. Len(list)
    BY <1>1, <1>3, <1>4
  <2>2. UpTo(new, i + 1) = {j + 1 : j \in UpTo(list, i)} \cup Ahead
    <3>1. \A j \in WholeOf(list) : j \in Nat /\ (j + 1 =< i + 1 <=> j =< i)
      BY <1>4, <2>1
    <3>2. 1 =< i + 1
      BY <2>1
    <3> QED BY <1>3, <3>1, <3>2 DEF UpTo
  <2>3. UpTo(list, i) \in SUBSET (1 .. Len(list)) /\ IsFiniteSet(UpTo(list, i))
    BY <1>4, WholeIs DEF UpTo
  <2> QED BY <1>5, <2>1, <2>2, <2>3
<1>8. ASSUME Whole(text) PROVE Kth(new, 1, text)
  <2>1. 1 \in WholeOf(new) /\ new[1] = text
    BY <1>1, <1>2, <1>8 DEF WholeOf
  <2>2. UpTo(new, 1) = {1}
    <3>1. WholeOf(new) \subseteq 1 .. Len(list) + 1
      BY <1>2 DEF WholeOf
    <3>2. \A j \in 1 .. Len(list) + 1 : j =< 1 => j = 1
      BY <1>1
    <3> QED BY <2>1, <3>1, <3>2 DEF UpTo
  <2>3. Cardinality(UpTo(new, 1)) = 1
    BY <2>2, FS_Singleton
  <2> QED BY <2>1, <2>3 DEF Kth
<1> QED BY <1>6, <1>7, <1>8

\* The same for the list of what was entered.
LEMMA Counted ==
  ASSUME entered \in Seq(Entered), NEW text \in Entered, entered' = <<text>> \o entered
  PROVE  /\ Cardinality(WholeOf(entered')) = Cardinality(WholeOf(entered)) + (IF Whole(text) THEN 1 ELSE 0)
         /\ \A i \in WholeOf(entered) :
              /\ i + 1 \in WholeOf(entered') /\ entered'[i + 1] = entered[i]
              /\ Cardinality(UpTo(entered', i + 1)) = Cardinality(UpTo(entered, i)) + (IF Whole(text) THEN 1 ELSE 0)
         /\ Whole(text) => Kth(entered', 1, text)
<1>1. PICK list, new : list = entered /\ new = entered'
  OBVIOUS
<1>2. list \in Seq(Entered) /\ text \in Entered /\ new = <<text>> \o list
  BY <1>1
<1>3. /\ Cardinality(WholeOf(new)) = Cardinality(WholeOf(list)) + (IF Whole(text) THEN 1 ELSE 0)
      /\ \A i \in WholeOf(list) :
           /\ i + 1 \in WholeOf(new) /\ new[i + 1] = list[i]
           /\ Cardinality(UpTo(new, i + 1)) = Cardinality(UpTo(list, i)) + (IF Whole(text) THEN 1 ELSE 0)
      /\ Whole(text) => Kth(new, 1, text)
  BY <1>2, CountInFront, Zenon
<1> QED BY <1>1, <1>3, Zenon

-----------------------------------------------------------------------------
Contact == [text : Entered \cup {<<>>}, index : Int]

\* The book: what is in it is the latest of what was entered whole.
BookOK ==
  /\ contacts \in [1 .. ROOM -> Contact] /\ entered \in Seq(Entered)
  /\ size = IF Cardinality(WholeOf(entered)) < ROOM THEN Cardinality(WholeOf(entered)) ELSE ROOM
  /\ \A k \in 1 .. size : contacts[k].index = k /\ Kth(entered, k, contacts[k].text)

ShownOK ==
  \/ shown = <<>>
  \/ /\ Len(shown) = 1 /\ DOMAIN shown = {1} /\ shown[1].asked \in Asked
     /\ shown[1].table = [k \in 1 .. size |-> contacts[k]]
     /\ shown[1].found = IF shown[1].asked \in 1 .. size THEN <<contacts[shown[1].asked].text>> ELSE <<>>

BookInv == BookOK /\ ShownOK

\* Something is added: the others move up, and the last goes if the book is full.
LEMMA AddStep ==
  ASSUME B!ConstantsAssumption, BookInv, NEW text \in Entered, B!Add(text)
  PROVE  BookInv'
<1>1. /\ contacts \in [1 .. ROOM -> Contact] /\ entered \in Seq(Entered) /\ ROOM \in Nat /\ ROOM > 0 /\ DOMAIN text = 1 .. 5
      /\ size = IF Cardinality(WholeOf(entered)) < ROOM THEN Cardinality(WholeOf(entered)) ELSE ROOM
      /\ \A k \in 1 .. size : contacts[k].index = k /\ Kth(entered, k, contacts[k].text)
  BY DEF BookInv, BookOK, B!ConstantsAssumption
<1>2. Whole(text)
  BY <1>1 DEF B!Add, B!Filled, Whole
<1>3. entered' = <<text>> \o entered /\ entered' \in Seq(Entered) /\ shown' = <<>>
  BY <1>1, InFront DEF B!Add
<1>14. /\ Cardinality(WholeOf(entered')) = Cardinality(WholeOf(entered)) + 1 /\ Kth(entered', 1, text)
       /\ \A i \in WholeOf(entered) :
            /\ i + 1 \in WholeOf(entered') /\ entered'[i + 1] = entered[i]
            /\ Cardinality(UpTo(entered', i + 1)) = Cardinality(UpTo(entered, i)) + 1
  BY <1>1, <1>2, <1>3, Counted
<1>4. PICK n : n = Cardinality(WholeOf(entered)) /\ n \in Nat /\ Cardinality(WholeOf(entered)') = n + 1
  <2>1. Cardinality(WholeOf(entered)) \in Nat
    BY <1>1, WholeIs
  <2>2. WholeOf(entered)' = WholeOf(entered')
    BY DEF WholeOf, Whole
  <2>3. Cardinality(WholeOf(entered')) = Cardinality(WholeOf(entered)) + 1
    BY <1>14
  <2> QED BY <2>1, <2>2, <2>3
<1>5. PICK last \in 0 .. ROOM - 1 : /\ last = (IF size < ROOM THEN size ELSE ROOM - 1) /\ size' = last + 1
                                    /\ contacts' = [B!shift(last) EXCEPT ![1] = [text |-> text, index |-> 1]]
  <2>1. size \in 0 .. ROOM
    BY <1>1, <1>4
  <2>2. PICK last : last = IF size < ROOM THEN size ELSE ROOM - 1
    OBVIOUS
  <2>3. last \in 0 .. ROOM - 1 /\ (IF size < ROOM THEN size + 1 ELSE size) = last + 1
    BY <1>1, <2>1, <2>2
  <2>4. contacts' = [B!shift(last) EXCEPT ![1] = [text |-> text, index |-> 1]] /\ size' = last + 1
    BY <2>2, <2>3, Zenon DEF B!Add
  <2> QED BY <2>2, <2>3, <2>4
<1>6. size' = IF n + 1 < ROOM THEN n + 1 ELSE ROOM
  BY <1>1, <1>4, <1>5
<1>7. ASSUME NEW k \in 1 .. ROOM
      PROVE  B!shift(last)[k] = (IF k \in 2 .. last + 1 THEN [contacts[k - 1] EXCEPT !.index = k] ELSE contacts[k])
  BY DEF B!shift
<1>8. DOMAIN B!shift(last) = 1 .. ROOM
  BY DEF B!shift
<1>9. /\ DOMAIN contacts' = 1 .. ROOM /\ contacts'[1] = [text |-> text, index |-> 1]
      /\ \A k \in 2 .. ROOM : contacts'[k] = B!shift(last)[k]
  <2>1. 1 \in 1 .. ROOM /\ \A k \in 2 .. ROOM : k \in 1 .. ROOM /\ k # 1
    BY <1>1
  <2>2. PICK f : f = B!shift(last)
    OBVIOUS
  <2>3. contacts' = [f EXCEPT ![1] = [text |-> text, index |-> 1]] /\ DOMAIN f = 1 .. ROOM
    BY <1>5, <1>8, <2>2
  <2>4. DOMAIN contacts' = 1 .. ROOM /\ contacts'[1] = [text |-> text, index |-> 1] /\ \A k \in 2 .. ROOM : contacts'[k] = f[k]
    BY <2>1, <2>3
  <2> QED BY <2>2, <2>4
<1>10. ASSUME NEW k \in 2 .. last + 1
       PROVE  /\ k \in 2 .. ROOM /\ k - 1 \in 1 .. size /\ k - 1 \in 1 .. ROOM
              /\ contacts'[k] = [text |-> contacts[k - 1].text, index |-> k]
  <2>1. k \in 2 .. ROOM /\ k \in 1 .. ROOM /\ k - 1 \in 1 .. size /\ k - 1 \in 1 .. ROOM
    BY <1>1, <1>5, <1>4
  <2>2. contacts'[k] = [contacts[k - 1] EXCEPT !.index = k]
    BY <1>7, <1>9, <2>1
  <2>3. contacts[k - 1] \in Contact
    BY <1>1, <2>1
  <2> QED BY <2>1, <2>2, <2>3 DEF Contact
<1>11. contacts' \in [1 .. ROOM -> Contact]
  <2>1. contacts' = [k \in 1 .. ROOM |-> contacts'[k]]
    BY <1>5, <1>9 DEF B!shift
  <2>2. ASSUME NEW k \in 1 .. ROOM PROVE contacts'[k] \in Contact
    <3>1. CASE k = 1
      BY <1>9, <3>1 DEF Contact
    <3>2. CASE k \in 2 .. last + 1
      <4>1. contacts[k - 1] \in Contact
        BY <1>1, <1>10, <3>2
      <4>2. contacts[k - 1].text \in Entered \cup {<<>>} /\ k \in Int
        BY <4>1 DEF Contact
      <4>3. contacts'[k] = [text |-> contacts[k - 1].text, index |-> k]
        BY <1>10, <3>2
      <4> QED BY <4>2, <4>3 DEF Contact
    <3>3. CASE k # 1 /\ k \notin 2 .. last + 1
      <4>1. contacts'[k] = contacts[k]
        <5>1. k \in 2 .. ROOM
          BY <3>3
        <5>2. contacts'[k] = B!shift(last)[k]
          BY <1>9, <5>1
        <5>3. B!shift(last)[k] = contacts[k]
          BY <1>7, <3>3
        <5> QED BY <5>2, <5>3
      <4> QED BY <1>1, <4>1
    <3> QED BY <3>1, <3>2, <3>3
  <2> QED BY <2>1, <2>2
<1>12. ASSUME NEW k \in 1 .. last + 1 PROVE contacts'[k].index = k /\ Kth(entered', k, contacts'[k].text)
  <2>1. CASE k = 1
    <3>1. Kth(entered', 1, text)
      BY <1>14
    <3> QED BY <1>9, <2>1, <3>1
  <2>2. CASE k # 1
    <3>1. k \in 2 .. last + 1
      BY <2>2
    <3>2. Kth(entered, k - 1, contacts[k - 1].text) /\ contacts'[k].text = contacts[k - 1].text /\ contacts'[k].index = k
      <4>1. PICK m : m = k - 1
        OBVIOUS
      <4>2. m \in 1 .. size /\ contacts'[k] = [text |-> contacts[m].text, index |-> k]
        BY <1>10, <3>1, <4>1
      <4>3. Kth(entered, m, contacts[m].text)
        BY <1>1, <4>2
      <4> QED BY <4>1, <4>2, <4>3
    <3>3. PICK i \in WholeOf(entered) : contacts[k - 1].text = entered[i] /\ k - 1 = Cardinality(UpTo(entered, i))
      BY <3>2 DEF Kth
    <3>4. /\ i + 1 \in WholeOf(entered') /\ entered'[i + 1] = entered[i]
          /\ Cardinality(UpTo(entered', i + 1)) = Cardinality(UpTo(entered, i)) + 1
      BY <1>14
    <3>5. Cardinality(UpTo(entered', i + 1)) = k
      BY <3>3, <3>4
    <3> QED BY <3>2, <3>3, <3>4, <3>5 DEF Kth
  <2> QED BY <2>1, <2>2
<1>13. BookOK'
  BY <1>3, <1>4, <1>5, <1>6, <1>11, <1>12 DEF BookOK, Kth, UpTo, WholeOf, Whole
<1> QED BY <1>3, <1>13 DEF BookInv, ShownOK

\* What was not entered whole is no contact.
LEMMA AddFailsStep ==
  ASSUME B!ConstantsAssumption, BookInv, NEW text \in Entered, B!AddFails(text)
  PROVE  BookInv'
<1>1. /\ contacts \in [1 .. ROOM -> Contact] /\ entered \in Seq(Entered) /\ DOMAIN text = 1 .. 5
      /\ size = IF Cardinality(WholeOf(entered)) < ROOM THEN Cardinality(WholeOf(entered)) ELSE ROOM
      /\ \A k \in 1 .. size : contacts[k].index = k /\ Kth(entered, k, contacts[k].text)
  BY DEF BookInv, BookOK, B!ConstantsAssumption
<1>2. ~Whole(text)
  BY <1>1 DEF B!AddFails, B!Filled, Whole
<1>3. entered' = <<text>> \o entered /\ entered' \in Seq(Entered) /\ shown' = <<>> /\ contacts' = contacts /\ size' = size
  BY <1>1, InFront DEF B!AddFails
<1>4. /\ Cardinality(WholeOf(entered')) = Cardinality(WholeOf(entered))
      /\ \A i \in WholeOf(entered) :
           /\ i + 1 \in WholeOf(entered') /\ entered'[i + 1] = entered[i]
           /\ Cardinality(UpTo(entered', i + 1)) = Cardinality(UpTo(entered, i))
  <2>1. Cardinality(WholeOf(entered)) \in Nat /\ \A i : Cardinality(UpTo(entered, i)) \in Nat
    BY <1>1, WholeIs
  <2>2. /\ Cardinality(WholeOf(entered')) = Cardinality(WholeOf(entered)) + 0
        /\ \A i \in WholeOf(entered) :
             /\ i + 1 \in WholeOf(entered') /\ entered'[i + 1] = entered[i]
             /\ Cardinality(UpTo(entered', i + 1)) = Cardinality(UpTo(entered, i)) + 0
    BY <1>1, <1>2, <1>3, Counted
  <2> QED BY <2>1, <2>2
<1>5. ASSUME NEW k \in 1 .. size PROVE Kth(entered', k, contacts[k].text)
  <2>1. PICK i \in WholeOf(entered) : contacts[k].text = entered[i] /\ k = Cardinality(UpTo(entered, i))
    BY <1>1 DEF Kth
  <2> QED BY <1>4, <2>1 DEF Kth
<1>6. BookOK'
  BY <1>1, <1>3, <1>4, <1>5 DEF BookOK, Kth, UpTo, WholeOf, Whole
<1> QED BY <1>3, <1>6 DEF BookInv, ShownOK

LEMMA SearchStep ==
  ASSUME B!ConstantsAssumption, BookInv, NEW n \in Asked, B!Search(n)
  PROVE  BookInv'
<1>1. UNCHANGED <<contacts, size, entered>>
  BY DEF B!Search
<1>2. BookOK'
  BY <1>1 DEF BookInv, BookOK, Kth, UpTo, WholeOf, Whole
<1>3. size \in 0 .. ROOM /\ n \in Int /\ ROOM \in Nat
  <2>1. Cardinality(WholeOf(entered)) \in Nat
    BY WholeIs DEF BookInv, BookOK
  <2> QED BY <2>1 DEF BookInv, BookOK, B!ConstantsAssumption
<1>4. n \in 1 .. size <=> n \in 1 .. ROOM /\ n =< size
  BY <1>3
<1>5. PICK s : /\ s = [table |-> [k \in 1 .. size |-> contacts[k]], asked |-> n, found |-> IF n \in 1 .. size THEN <<contacts[n].text>> ELSE <<>>]
                /\ shown' = <<s>>
  BY <1>4 DEF B!Search
<1>6. ShownOK'
  <2>1. /\ s.asked = n /\ s.table = [k \in 1 .. size |-> contacts[k]]
        /\ s.found = IF n \in 1 .. size THEN <<contacts[n].text>> ELSE <<>>
    BY <1>5
  <2>2. Len(shown') = 1 /\ DOMAIN shown' = {1} /\ shown'[1] = s
    BY <1>5
  <2> QED BY <1>1, <2>1, <2>2, Zenon DEF ShownOK
<1> QED BY <1>2, <1>6 DEF BookInv

LEMMA BookIsFound ==
  ASSUME B!ConstantsAssumption, BookInv
  PROVE  B!LatestAreFound
<1>1. size = IF B!Cardinality(B!Good) < ROOM THEN B!Cardinality(B!Good) ELSE ROOM
  BY CountsAs DEF BookInv, BookOK
<1>2. \A k \in 1 .. size : B!Holds(k, contacts[k])
  BY CountsAs DEF BookInv, BookOK, B!Holds
<1>3. ASSUME NEW s \in {shown[k] : k \in DOMAIN shown}
      PROVE  /\ DOMAIN s.table = 1 .. size /\ \A k \in 1 .. size : B!Holds(k, s.table[k])
             /\ IF s.asked \in 1 .. size THEN Len(s.found) = 1 /\ B!IsLatest(s.asked, s.found[1]) ELSE s.found = <<>>
  <2>1. shown # <<>>
    BY <1>3
  <2>2. /\ s.table = [k \in 1 .. size |-> contacts[k]]
        /\ s.found = IF s.asked \in 1 .. size THEN <<contacts[s.asked].text>> ELSE <<>>
    BY <1>3, <2>1 DEF BookInv, ShownOK
  <2> QED BY <1>2, <2>2 DEF B!Holds
<1> QED BY <1>1, <1>2, <1>3, Zenon DEF B!LatestAreFound

\* A phone book of any room has the latest contacts that were entered whole, and a search shows
\* them in this order and finds the one with the number (addToContactArray(), searchForContact()).
THEOREM LatestAreKept == B!ConstantsAssumption /\ B!Spec => []B!LatestAreFound
<1> SUFFICES ASSUME B!ConstantsAssumption PROVE B!Spec => []B!LatestAreFound
  OBVIOUS
<1>1. B!Init => BookInv
  <2> SUFFICES ASSUME B!Init PROVE BookInv
    OBVIOUS
  <2>1. contacts \in [1 .. ROOM -> Contact] /\ entered = <<>> /\ entered \in Seq(Entered) /\ size = 0 /\ shown = <<>>
    BY DEF B!Init, B!Unset, Contact
  <2>2. WholeOf(entered) = {} /\ ROOM \in Nat /\ ROOM > 0
    BY <2>1 DEF WholeOf, B!ConstantsAssumption
  <2>3. Cardinality(WholeOf(entered)) = 0
    BY <2>2, FS_EmptySet
  <2> QED BY <2>1, <2>2, <2>3 DEF BookInv, BookOK, ShownOK
<1>2. BookInv /\ [B!Next]_B!vars => BookInv'
  <2>1. ASSUME BookInv, UNCHANGED B!vars PROVE BookInv'
    <3>1. contacts' = contacts /\ size' = size /\ shown' = shown /\ entered' = entered
      BY <2>1 DEF B!vars
    <3>2. BookOK'
      <4>1. BookOK
        BY <2>1 DEF BookInv
      <4>2. WholeOf(entered)' = WholeOf(entered)
        BY <3>1 DEF WholeOf, Whole
      <4>3. ASSUME NEW k, NEW text PROVE Kth(entered, k, text)' <=> Kth(entered, k, text)
        BY <3>1 DEF Kth, UpTo, WholeOf, Whole
      <4>4. ASSUME NEW k \in 1 .. size' PROVE contacts'[k].index = k /\ Kth(entered, k, contacts[k].text)'
        BY <3>1, <4>1, <4>3 DEF BookOK
      <4> QED BY <3>1, <4>1, <4>2, <4>4 DEF BookOK
    <3>3. ShownOK'
      BY <2>1, <3>1 DEF BookInv, ShownOK
    <3> QED BY <3>2, <3>3 DEF BookInv
  <2>2. ASSUME BookInv, B!Exit PROVE BookInv'
    <3>1. contacts' = contacts /\ size' = size /\ shown' = <<>> /\ entered' = entered
      BY <2>2 DEF B!Exit
    <3>2. BookOK'
      <4>1. BookOK
        BY <2>2 DEF BookInv
      <4>2. WholeOf(entered)' = WholeOf(entered)
        BY <3>1 DEF WholeOf, Whole
      <4>3. ASSUME NEW k, NEW text PROVE Kth(entered, k, text)' <=> Kth(entered, k, text)
        BY <3>1 DEF Kth, UpTo, WholeOf, Whole
      <4>4. ASSUME NEW k \in 1 .. size' PROVE contacts'[k].index = k /\ Kth(entered, k, contacts[k].text)'
        BY <3>1, <4>1, <4>3 DEF BookOK
      <4> QED BY <3>1, <4>1, <4>2, <4>4 DEF BookOK
    <3>3. ShownOK'
      BY <3>1 DEF ShownOK
    <3> QED BY <3>2, <3>3 DEF BookInv
  <2> QED BY <2>1, <2>2, AddStep, AddFailsStep, SearchStep DEF B!Next
<1>3. BookInv => B!LatestAreFound
  BY BookIsFound
<1> QED BY <1>1, <1>2, <1>3, PTL DEF B!Spec

-----------------------------------------------------------------------------
(* The calculator: the tree that ends at each token, and the stack.             *)

CONSTANTS Expressions, LONG_MAX
VARIABLES expression, next, stack

C == INSTANCE Calculator

\* A set with 0 and, with each number, the next one, has all numbers.
LEMMA AllNumbers ==
  ASSUME NEW T, 0 \in T, \A n \in Nat : n \in T => n + 1 \in T
  PROVE  Nat \subseteq T
<1> SUFFICES ASSUME Nat \ T # {} PROVE FALSE
  OBVIOUS
<1>1. PICK n \in Nat \ T : \A m \in Nat \ T : n =< m
  BY LeastOf
<1>2. n - 1 \in Nat /\ n - 1 \in T
  BY <1>1
<1>3. n - 1 + 1 \in T
  BY <1>2
<1> QED BY <1>1, <1>3

\* The largest of some numbers.
LEMMA LargestIs ==
  ASSUME NEW m \in Nat, NEW S \in SUBSET (1 .. m), S # {}
  PROVE  C!Max(S) \in S /\ (m \in S => C!Max(S) = m)
<1> DEFINE T == {m - x : x \in S}
<1>1. T \in SUBSET Nat /\ T # {}
  <2>1. \A x \in S : m - x \in Nat
    OBVIOUS
  <2> QED BY <2>1
<1> HIDE DEF T
<1>2. PICK z \in T : \A y \in T : z =< y
  BY <1>1, LeastOf
<1>3. PICK x \in S : \A y \in S : x >= y
  <2>1. PICK x \in S : z = m - x
    BY <1>2 DEF T
  <2>2. ASSUME NEW y \in S PROVE x >= y
    <3>1. m - x =< m - y
      BY <1>2, <2>1 DEF T
    <3>2. x \in Int /\ y \in Int
      OBVIOUS
    <3> QED BY <3>1, <3>2
  <2> QED BY <2>2
<1>4. PICK w : w = C!Max(S)
  OBVIOUS
<1>5. w \in S /\ \A y \in S : w >= y
  BY <1>3, <1>4, Zenon DEF C!Max
<1>6. w \in 1 .. m
  BY <1>5
<1>7. m \in S => w = m
  BY <1>5, <1>6
<1> QED BY <1>4, <1>5, <1>7

GrownOver(g, e, S) == g = [s \in SUBSET S |-> IF s = {} THEN <<>> ELSE C!Grown(g[s \ {C!Max(s)}], e[C!Max(s)])]

\* The trees are a fold over the tokens, from the first on.
LEMMA TreesFold ==
  C!Trees = (CHOOSE g : GrownOver(g, expression, DOMAIN expression))[DOMAIN expression]
<1>1. C!Trees = (CHOOSE g : g = [s \in SUBSET (DOMAIN expression) |->
                   IF s = {} THEN <<>> ELSE C!Grown(g[s \ {C!Max(s)}], expression[C!Max(s)])])[DOMAIN expression]
  BY Zenon DEF C!Trees, C!FoldLeft, C!MapThenFoldSet
<1> QED BY <1>1, Zenon DEF GrownOver

\* The recursion of the fold has a solution.
LEMMA GrownExists ==
  ASSUME NEW e
  PROVE  \A m \in Nat : \E g : GrownOver(g, e, 1 .. m)
<1> DEFINE T == {m \in Nat : \E g : GrownOver(g, e, 1 .. m)}
<1>1. 0 \in T
  <2>1. PICK g : g = [s \in SUBSET (1 .. 0) |-> <<>>]
    OBVIOUS
  <2>2. \A s \in SUBSET (1 .. 0) : s = {}
    OBVIOUS
  <2>3. g = [s \in SUBSET (1 .. 0) |-> IF s = {} THEN <<>> ELSE C!Grown(g[s \ {C!Max(s)}], e[C!Max(s)])]
    BY <2>1, <2>2
  <2>4. GrownOver(g, e, 1 .. 0)
    BY <2>3 DEF GrownOver
  <2> QED BY <2>4
<1>2. ASSUME NEW m \in Nat, m \in T PROVE m + 1 \in T
  <2>1. PICK f : GrownOver(f, e, 1 .. m)
    BY <1>2
  <2>2. PICK q : q = m + 1 /\ q \in Nat /\ q \notin 1 .. m /\ 1 .. q = (1 .. m) \cup {q}
    OBVIOUS
  <2>3. PICK g : g = [s \in SUBSET (1 .. q) |-> IF q \in s THEN C!Grown(f[s \ {q}], e[q]) ELSE f[s]]
    OBVIOUS
  <2>4. ASSUME NEW s \in SUBSET (1 .. q)
        PROVE  g[s] = IF s = {} THEN <<>> ELSE C!Grown(g[s \ {C!Max(s)}], e[C!Max(s)])
    <3>1. CASE q \in s
      <4>1. C!Max(s) = q /\ s # {}
        BY <2>2, <3>1, LargestIs
      <4>2. PICK r : r = s \ {q}
        OBVIOUS
      <4>3. r \in SUBSET (1 .. q) /\ q \notin r
        BY <4>2
      <4>4. g[r] = f[r] /\ g[s] = C!Grown(f[s \ {q}], e[q])
        BY <2>3, <3>1, <4>3
      <4> QED BY <4>1, <4>2, <4>4
    <3>2. CASE q \notin s /\ s = {}
      <4>1. g[s] = f[s]
        BY <2>3, <3>2
      <4>2. s \in SUBSET (1 .. m)
        BY <3>2
      <4>3. f[s] = <<>>
        BY <2>1, <3>2, <4>2 DEF GrownOver
      <4> QED BY <3>2, <4>1, <4>3
    <3>3. CASE q \notin s /\ s # {}
      <4>1. s \in SUBSET (1 .. m)
        BY <2>2, <3>3
      <4>2. PICK w : w = C!Max(s)
        OBVIOUS
      <4>3. PICK r : r = s \ {w}
        OBVIOUS
      <4>4. r \in SUBSET (1 .. m) /\ q \notin r /\ r \in SUBSET (1 .. q)
        BY <2>2, <3>3, <4>1, <4>3
      <4>5. g[r] = f[r] /\ g[s] = f[s]
        BY <2>3, <3>3, <4>4
      <4>6. f[s] = C!Grown(f[r], e[w])
        BY <2>1, <3>3, <4>1, <4>2, <4>3 DEF GrownOver
      <4> QED BY <3>3, <4>2, <4>3, <4>5, <4>6
    <3> QED BY <3>1, <3>2, <3>3
  <2>5. g = [s \in SUBSET (1 .. q) |-> IF s = {} THEN <<>> ELSE C!Grown(g[s \ {C!Max(s)}], e[C!Max(s)])]
    <3>1. PICK h : h = [s \in SUBSET (1 .. q) |-> IF s = {} THEN <<>> ELSE C!Grown(g[s \ {C!Max(s)}], e[C!Max(s)])]
      OBVIOUS
    <3>2. \A s \in SUBSET (1 .. q) : g[s] = h[s]
      BY <2>4, <3>1
    <3>3. DOMAIN g = SUBSET (1 .. q) /\ DOMAIN h = SUBSET (1 .. q) /\ g = [s \in DOMAIN g |-> g[s]] /\ h = [s \in DOMAIN h |-> h[s]]
      BY <2>3, <3>1
    <3>4. g = h
      BY <3>2, <3>3
    <3> QED BY <3>1, <3>4
  <2>6. GrownOver(g, e, 1 .. q)
    BY <2>5 DEF GrownOver
  <2> QED BY <2>2, <2>6
<1>3. Nat \subseteq T
  <2> HIDE DEF T
  <2> QED BY <1>1, <1>2, AllNumbers
<1> QED BY <1>3

\* v[k] are the trees of the first k tokens.
Growing(v, e, n) == v[0] = <<>> /\ \A k \in 1 .. n : v[k] = C!Grown(v[k - 1], e[k])

LEMMA TreesGrow ==
  ASSUME NEW n \in Nat, DOMAIN expression = 1 .. n
  PROVE  \E v : Growing(v, expression, n) /\ C!Trees = v[n]
<1>1. PICK g : g = CHOOSE h : GrownOver(h, expression, 1 .. n)
  OBVIOUS
<1>2. GrownOver(g, expression, 1 .. n)
  <2>1. \E h : GrownOver(h, expression, 1 .. n)
    BY GrownExists
  <2> QED BY <1>1, <2>1, Zenon
<1>3. C!Trees = g[1 .. n]
  BY <1>1, TreesFold
<1>4. PICK v : v = [k \in 0 .. n |-> g[1 .. k]]
  OBVIOUS
<1>5. v[0] = <<>>
  <2>1. 1 .. 0 = {} /\ {} \in SUBSET (1 .. n) /\ 0 \in 0 .. n
    OBVIOUS
  <2>2. g[{}] = <<>>
    BY <1>2, <2>1 DEF GrownOver
  <2>3. v[0] = g[1 .. 0]
    <3>1. 0 \in 0 .. n
      OBVIOUS
    <3> QED BY <1>4, <3>1, Zenon
  <2> QED BY <2>1, <2>2, <2>3, Zenon
<1>6. ASSUME NEW k \in 1 .. n PROVE v[k] = C!Grown(v[k - 1], expression[k])
  <2>1. PICK s, r : s = 1 .. k /\ r = 1 .. k - 1
    OBVIOUS
  <2>2. s \in SUBSET (1 .. n) /\ s # {} /\ k \in s /\ s \ {k} = r /\ k \in 0 .. n /\ k - 1 \in 0 .. n
    BY <2>1
  <2>3. C!Max(s) = k
    <3>1. s \in SUBSET (1 .. k) /\ k \in Nat
      BY <2>1
    <3> QED BY <2>2, <3>1, LargestIs
  <2>4. g[s] = C!Grown(g[r], expression[k])
    BY <1>2, <2>2, <2>3 DEF GrownOver
  <2>5. v[k] = g[s] /\ v[k - 1] = g[r]
    BY <1>4, <2>1, <2>2
  <2> QED BY <2>4, <2>5
<1>7. C!Trees = v[n]
  BY <1>3, <1>4
<1>8. Growing(v, expression, n)
  BY <1>5, <1>6 DEF Growing
<1> QED BY <1>7, <1>8

-----------------------------------------------------------------------------
Kinds == C!Operators \cup {"number", "other"}

TokensOK(e, n) ==
  /\ n \in Nat /\ Len(e) = n /\ DOMAIN e = 1 .. n
  /\ \A k \in 1 .. n : e[k].kind \in Kinds /\ (e[k].kind = "number" => e[k].n \in Int)

Node == [first : Int, value : Int, by0 : BOOLEAN]

\* Where the tree in front of the one that ends before token k ends.
BeforeTree(T, k) == IF k = 1 THEN 0 ELSE T[k - 1].first - 1

\* The tree that ends at token k: a number, none, or an operator with two trees before it.
NodeOf(T, t, k) ==
  LET before == BeforeTree(T, k)
  IN  IF t.kind = "number" THEN C!Leaf(k, t.n)
      ELSE IF t.kind = "other" \/ before < 1 THEN C!Leaf(0, 0)
      ELSE IF T[before].first = 0 THEN C!Leaf(0, 0) ELSE C!Tree(t.kind, T[before], T[k - 1])

TreesOf(T, e, n) ==
  \A k \in 1 .. n : T[k] \in Node /\ T[k].first \in 0 .. k /\ T[k] = NodeOf(T, e[k], k)

\* Quotients of numbers are numbers.
LEMMA QuotientIsNumber ==
  ASSUME NEW b \in Int, NEW a \in Int, a # 0
  PROVE  C!Quotient(b, a) \in Int
<1>1. C!Abs(b) \in Nat /\ C!Abs(a) \in Nat /\ C!Abs(a) > 0
  BY DEF C!Abs
<1>2. C!Abs(b) \div C!Abs(a) \in Int
  BY <1>1
<1>3. 1 * (C!Abs(b) \div C!Abs(a)) \in Int /\ (-1) * (C!Abs(b) \div C!Abs(a)) \in Int
  BY <1>2
<1> QED BY <1>3 DEF C!Quotient

\* A tree of two others, and its value if it does not divide by zero.
LEMMA TreeIs ==
  ASSUME NEW kind, NEW l \in Node, NEW r \in Node
  PROVE  \E v \in Int, q \in BOOLEAN :
           /\ C!Tree(kind, l, r) = [first |-> l.first, by0 |-> q, value |-> v] /\ l.first \in Int
           /\ q = (kind = "/" /\ r.value = 0)
           /\ kind \in C!Operators /\ (kind = "/" => r.value # 0) => v = C!Applied(kind, l.value, r.value)
<1>1. l.value \in Int /\ r.value \in Int /\ l.first \in Int
  BY DEF Node
<1>2. PICK v : v = (CASE kind = "+" -> l.value + r.value [] kind = "-" -> l.value - r.value [] kind = "*" -> l.value * r.value
                      [] OTHER -> IF r.value = 0 THEN 0 ELSE C!Quotient(l.value, r.value))
  OBVIOUS
<1>3. v \in Int
  <2>1. l.value + r.value \in Int /\ l.value - r.value \in Int /\ l.value * r.value \in Int
    BY <1>1
  <2>2. r.value # 0 => C!Quotient(l.value, r.value) \in Int
    BY <1>1, QuotientIsNumber
  <2> QED BY <1>2, <2>1, <2>2
<1>4. C!Tree(kind, l, r) = [first |-> l.first, by0 |-> kind = "/" /\ r.value = 0, value |-> v]
  BY <1>2, Zenon DEF C!Tree
<1>5. kind \in C!Operators /\ (kind = "/" => r.value # 0) => v = C!Applied(kind, l.value, r.value)
  BY <1>2 DEF C!Operators, C!Applied
<1>6. PICK q \in BOOLEAN : q = (kind = "/" /\ r.value = 0)
  BY Zenon
<1>7. C!Tree(kind, l, r) = [first |-> l.first, by0 |-> q, value |-> v]
  BY <1>4, <1>6, Zenon
<1> QED BY <1>1, <1>3, <1>5, <1>6, <1>7, Zenon

LEMMA TreeBegins ==
  ASSUME NEW kind, NEW l \in Node, NEW r \in Node
  PROVE  C!Tree(kind, l, r) \in Node /\ C!Tree(kind, l, r).first = l.first
<1>1. PICK v \in Int, q \in BOOLEAN : C!Tree(kind, l, r) = [first |-> l.first, by0 |-> q, value |-> v] /\ l.first \in Int
  BY TreeIs, Zenon
<1> QED BY <1>1 DEF Node

LEMMA TreeValue ==
  ASSUME NEW kind \in C!Operators, NEW l \in Node, NEW r \in Node
  PROVE  /\ C!Tree(kind, l, r).by0 = (kind = "/" /\ r.value = 0)
         /\ (kind = "/" => r.value # 0) => C!Tree(kind, l, r).value = C!Applied(kind, l.value, r.value)
<1>1. PICK v \in Int, q \in BOOLEAN :
        /\ C!Tree(kind, l, r) = [first |-> l.first, by0 |-> q, value |-> v]
        /\ q = (kind = "/" /\ r.value = 0)
        /\ kind \in C!Operators /\ (kind = "/" => r.value # 0) => v = C!Applied(kind, l.value, r.value)
  BY TreeIs, Zenon
<1>2. PICK t : t = C!Tree(kind, l, r)
  OBVIOUS
<1>3. t.by0 = q /\ t.value = v
  BY <1>1, <1>2
<1> QED BY <1>1, <1>2, <1>3, Zenon

LEMMA LeafIsNode ==
  ASSUME NEW i \in Int, NEW x \in Int
  PROVE  LET t == C!Leaf(i, x) IN t \in Node /\ t.first = i /\ t.value = x /\ ~t.by0
BY DEF C!Leaf, Node

\* Each token's tree is made from the trees before it.
LEMMA TreesAre ==
  ASSUME NEW n, TokensOK(expression, n)
  PROVE  Len(C!Trees) = n /\ DOMAIN C!Trees = 1 .. n /\ TreesOf(C!Trees, expression, n)
<1>0. n \in Nat /\ DOMAIN expression = 1 .. n
  BY DEF TokensOK
<1>1. PICK v : Growing(v, expression, n) /\ C!Trees = v[n]
  BY <1>0, TreesGrow
<1>2. PICK T : T = [j \in 1 .. n |-> v[j][j]]
  OBVIOUS
<1> DEFINE Fine(k) == T[k] \in Node /\ T[k].first \in 0 .. k /\ T[k] = NodeOf(T, expression[k], k)
           Upto(k) == v[k] = [j \in 1 .. k |-> T[j]] /\ \A j \in 1 .. k : Fine(j)
           S == {k \in Nat : k =< n => Upto(k)}
<1>3. 0 \in S
  <2>1. v[0] = <<>>
    BY <1>1 DEF Growing
  <2>2. v[0] = [j \in 1 .. 0 |-> T[j]]
    BY <2>1
  <2> QED BY <2>2
<1>4. ASSUME NEW k0 \in Nat, k0 \in S PROVE k0 + 1 \in S
  <2> SUFFICES ASSUME k0 + 1 =< n PROVE Upto(k0 + 1)
    OBVIOUS
  <2>1. PICK k : k = k0 + 1 /\ k \in 1 .. n /\ k - 1 = k0 /\ k \in Nat
    OBVIOUS
  <2>2. v[k0] = [j \in 1 .. k0 |-> T[j]] /\ \A j \in 1 .. k0 : Fine(j)
    <3> HIDE DEF Fine
    <3>1. k0 =< n
      BY <1>0
    <3> QED BY <1>4, <3>1
  <2> HIDE DEF Fine
  <2>3. PICK trees : trees = v[k0]
    OBVIOUS
  <2>4. trees = [j \in 1 .. k0 |-> T[j]] /\ Len(trees) = k0 /\ DOMAIN trees = 1 .. k0 /\ \A j \in 1 .. k0 : trees[j] = T[j]
    BY <2>2, <2>3
  <2>5. PICK t : t = expression[k] /\ t.kind \in Kinds /\ (t.kind = "number" => t.n \in Int)
    BY <2>1 DEF TokensOK
  <2>6. \A j \in 1 .. k0 : T[j] \in Node /\ T[j].first \in 0 .. j
    BY <2>2 DEF Fine
  <2>7. (IF trees = <<>> THEN 0 ELSE C!Last(trees).first - 1) = BeforeTree(T, k)
    <3>1. CASE k0 = 0
      BY <2>1, <2>4, <3>1 DEF BeforeTree
    <3>2. CASE k0 # 0
      <4>1. trees # <<>> /\ C!Last(trees) = T[k0]
        <5>1. k0 \in 1 .. k0
          BY <3>2
        <5> QED BY <2>4, <3>2, <5>1 DEF C!Last
      <4> QED BY <2>1, <3>2, <4>1 DEF BeforeTree
    <3> QED BY <3>1, <3>2
  <2>8. PICK before : before = BeforeTree(T, k) /\ (before >= 1 => before \in 1 .. k0 /\ k0 \in 1 .. k0)
    <3>1. CASE k = 1
      BY <3>1 DEF BeforeTree
    <3>2. CASE k # 1
      <4>1. k0 \in 1 .. k0
        BY <2>1, <3>2
      <4>2. T[k0].first \in 0 .. k0
        BY <2>6, <4>1
      <4> QED BY <2>1, <3>2, <4>1, <4>2 DEF BeforeTree
    <3> QED BY <3>1, <3>2
  <2>9. C!TreeEnding(trees, t) = NodeOf(T, t, k)
    <3>1. before >= 1 => trees[before] = T[before] /\ C!Last(trees) = T[k - 1]
      BY <2>1, <2>4, <2>8 DEF C!Last
    <3>2. Len(trees) + 1 = k
      BY <2>1, <2>4
    <3>3. C!TreeEnding(trees, t) = IF t.kind = "number" THEN C!Leaf(k, t.n)
                                   ELSE IF t.kind = "other" \/ before < 1 THEN C!Leaf(0, 0)
                                   ELSE IF trees[before].first = 0 THEN C!Leaf(0, 0) ELSE C!Tree(t.kind, trees[before], C!Last(trees))
      BY <2>7, <2>8, <3>2, Zenon DEF C!TreeEnding
    <3>4. NodeOf(T, t, k) = IF t.kind = "number" THEN C!Leaf(k, t.n)
                            ELSE IF t.kind = "other" \/ before < 1 THEN C!Leaf(0, 0)
                            ELSE IF T[before].first = 0 THEN C!Leaf(0, 0) ELSE C!Tree(t.kind, T[before], T[k - 1])
      BY <2>8, Zenon DEF NodeOf
    <3>5. before \in Int
      <4>1. k # 1 => T[k0].first \in Int
        BY <2>1, <2>6
      <4> QED BY <2>1, <2>8, <4>1 DEF BeforeTree
    <3>6. before < 1 \/ before >= 1
      BY <3>5
    <3> QED BY <3>1, <3>3, <3>4, <3>6
  <2>10. NodeOf(T, t, k) \in Node /\ NodeOf(T, t, k).first \in 0 .. k
    <3>1. CASE t.kind = "number"
      <4>1. NodeOf(T, t, k) = C!Leaf(k, t.n)
        BY <3>1, Zenon DEF NodeOf
      <4> QED BY <2>1, <2>5, <3>1, <4>1, LeafIsNode
    <3>2. CASE NodeOf(T, t, k) = C!Leaf(0, 0)
      BY <2>1, <3>2, LeafIsNode
    <3>3. CASE before >= 1 /\ NodeOf(T, t, k) = C!Tree(t.kind, T[before], T[k - 1])
      <4>1. T[before] \in Node /\ T[before].first \in 0 .. before /\ T[k - 1] \in Node /\ before =< k0
        BY <2>1, <2>6, <2>8, <3>3
      <4>2. PICK w : w = C!Tree(t.kind, T[before], T[k - 1])
        OBVIOUS
      <4>4. w \in Node /\ w.first = T[before].first
        BY <4>1, <4>2, TreeBegins, Zenon
      <4>3. T[before].first \in 0 .. k
        BY <2>1, <2>8, <3>3, <4>1
      <4> QED BY <3>3, <4>2, <4>3, <4>4
    <3>4. before >= 1 \/ before < 1
      <4>1. k # 1 => T[k0].first \in Int
        BY <2>1, <2>6
      <4> QED BY <2>1, <2>8, <4>1 DEF BeforeTree
    <3> QED BY <2>8, <3>1, <3>2, <3>3, <3>4, Zenon DEF NodeOf
  <2>11. v[k] = Append(trees, NodeOf(T, t, k))
    BY <1>1, <2>1, <2>3, <2>5, <2>9 DEF Growing, C!Grown
  <2>12. DOMAIN v[k] = 1 .. k /\ v[k][k] = NodeOf(T, t, k) /\ (\A j \in 1 .. k0 : v[k][j] = T[j]) /\ v[k] = [j \in 1 .. k |-> v[k][j]]
    <3>1. trees \in Seq(Node)
      BY <2>4, <2>6
    <3>2. PICK u : u = Append(trees, NodeOf(T, t, k))
      OBVIOUS
    <3>3. u \in Seq(Node) /\ Len(u) = k /\ u[k] = NodeOf(T, t, k) /\ \A j \in 1 .. k0 : u[j] = trees[j]
      BY <2>1, <2>4, <2>10, <3>1, <3>2
    <3>4. DOMAIN u = 1 .. k /\ u = [j \in 1 .. k |-> u[j]]
      BY <3>3
    <3> QED BY <2>4, <2>11, <3>2, <3>3, <3>4
  <2>13. T[k] = NodeOf(T, t, k)
    BY <1>2, <2>1, <2>12
  <2>14. ASSUME NEW j \in 1 .. k PROVE v[k][j] = T[j] /\ Fine(j)
    <3>1. CASE j = k
      BY <2>5, <2>10, <2>12, <2>13, <3>1 DEF Fine
    <3>2. CASE j # k
      <4>1. j \in 1 .. k0
        BY <2>1, <3>2
      <4> QED BY <2>2, <2>12, <4>1
    <3> QED BY <3>1, <3>2
  <2>15. v[k] = [j \in 1 .. k |-> T[j]]
    BY <2>12, <2>14
  <2> QED BY <2>1, <2>14, <2>15
<1>5. n \in S
  <2> HIDE DEF S
  <2> QED BY <1>0, <1>3, <1>4, AllNumbers
<1>6. v[n] = [j \in 1 .. n |-> T[j]] /\ \A j \in 1 .. n : Fine(j)
  BY <1>0, <1>5
<1>7. C!Trees = T
  BY <1>1, <1>2, <1>6
<1>8. Len(T) = n /\ DOMAIN T = 1 .. n
  BY <1>0, <1>2
<1> QED BY <1>6, <1>7, <1>8 DEF TreesOf

\* All tokens of a tree are the ends of trees in it.
LEMMA TreesAreWhole ==
  ASSUME NEW T, NEW e, NEW n, TokensOK(e, n), TreesOf(T, e, n), NEW j \in 1 .. n, T[j].first >= 1
  PROVE  \A k \in T[j].first .. j : T[k].first >= T[j].first
<1> DEFINE Fits(i) == T[i].first >= 1 => \A k \in T[i].first .. i : T[k].first >= T[i].first
           S == {m \in Nat : \A i \in 1 .. n : i =< m => Fits(i)}
<1>0. n \in Nat /\ \A i \in 1 .. n : T[i] \in Node /\ T[i].first \in 0 .. i /\ T[i] = NodeOf(T, e[i], i) /\ e[i].kind \in Kinds
  BY DEF TokensOK, TreesOf
<1>1. 0 \in S
  BY <1>0
<1>2. ASSUME NEW m \in Nat, m \in S PROVE m + 1 \in S
  <2>1. \A i \in 1 .. n : i =< m => Fits(i)
    BY <1>2
  <2> HIDE DEF Fits
  <2>2. ASSUME NEW i \in 1 .. n, i = m + 1 PROVE Fits(i)
    <3> SUFFICES ASSUME T[i].first >= 1, NEW k \in T[i].first .. i PROVE T[k].first >= T[i].first
      BY DEF Fits
    <3>0. T[i].first \in 1 .. i /\ i \in Nat
      BY <1>0
    <3>1. CASE k = i
      BY <3>0, <3>1
    <3>2. CASE k # i
      <4>1. k \in T[i].first .. i - 1 /\ T[i].first # i
        BY <3>0, <3>2
      <4>2. PICK b : b = BeforeTree(T, i)
        OBVIOUS
      <4>3. T[i] # C!Leaf(0, 0)
        BY LeafIsNode
      <4>4. T[i] # C!Leaf(i, e[i].n)
        BY <4>1 DEF C!Leaf
      <4>5. ~(b < 1) /\ T[b].first # 0 /\ T[i] = C!Tree(e[i].kind, T[b], T[i - 1])
        BY <1>0, <4>2, <4>3, <4>4, Zenon DEF NodeOf
      <4>6. i # 1
        BY <4>1, <3>0
      <4>7. i - 1 \in 1 .. n /\ T[i - 1].first \in 0 .. i - 1 /\ b = T[i - 1].first - 1
        BY <1>0, <4>2, <4>6 DEF BeforeTree
      <4>8. b \in 1 .. n /\ b < i - 1 /\ T[i - 1].first >= 1 /\ b + 1 = T[i - 1].first
        <5>1. PICK f : f = T[i - 1].first /\ f \in 0 .. i - 1 /\ b = f - 1
          BY <4>7
        <5> QED BY <1>0, <4>5, <5>1
      <4>9. T[b] \in Node /\ T[i - 1] \in Node /\ T[b].first \in 1 .. b
        BY <1>0, <4>5, <4>7, <4>8
      <4>10. T[i].first = T[b].first
        <5>1. PICK l, r, w : l = T[b] /\ r = T[i - 1] /\ w = T[i]
          OBVIOUS
        <5>2. l \in Node /\ r \in Node /\ w = C!Tree(e[i].kind, l, r)
          BY <4>5, <4>9, <5>1
        <5>3. w.first = l.first
          BY <5>2, TreeBegins, Zenon
        <5> QED BY <5>1, <5>3
      <4>11. CASE k =< b
        <5>1. b =< m
          BY <2>2, <4>8
        <5>2. Fits(b)
          BY <2>1, <4>8, <5>1
        <5>3. k \in T[b].first .. b
          BY <3>0, <4>1, <4>8, <4>10, <4>11
        <5> QED BY <4>9, <4>10, <5>2, <5>3 DEF Fits
      <4>12. CASE k > b
        <5>1. Fits(i - 1)
          BY <2>1, <2>2, <4>7
        <5>2. k \in T[i - 1].first .. i - 1
          BY <3>0, <4>1, <4>7, <4>8, <4>12
        <5>3. T[k].first >= T[i - 1].first
          BY <4>8, <5>1, <5>2 DEF Fits
        <5>4. k \in 1 .. n /\ T[k].first \in Int
          <6>1. k \in 1 .. n
            BY <1>0, <3>0, <4>1
          <6> QED BY <1>0, <6>1
        <5> QED BY <4>7, <4>8, <4>9, <4>10, <5>3, <5>4
      <4>13. k \in Int /\ b \in Int
        BY <3>0, <4>8
      <4> QED BY <4>11, <4>12, <4>13
    <3> QED BY <3>1, <3>2
  <2>3. ASSUME NEW i \in 1 .. n, i =< m + 1 PROVE Fits(i)
    <3>1. i =< m \/ i = m + 1
      BY <2>3
    <3> QED BY <2>1, <2>2, <3>1
  <2> QED BY <2>3
<1>3. n \in S
  <2> HIDE DEF S
  <2> QED BY <1>0, <1>1, <1>2, AllNumbers
<1>4. Fits(j)
  BY <1>0, <1>3
<1> QED BY <1>4

\* No value is too large.
InRange(T, n) == \A k \in 1 .. n : T[k].value \in C!LONG_MIN .. LONG_MAX

\* The first m tokens are h trees behind each other, which end where r says, and the stack has their values.
Roots(r, T, h, m, st) ==
  /\ r \in [0 .. h -> 0 .. m] /\ r[0] = 0 /\ r[h] = m
  /\ \A i \in 1 .. h : r[i - 1] < r[i] /\ T[r[i]].first = r[i - 1] + 1 /\ st[i] = T[r[i]].value

Stands(T, n) ==
  /\ next \in 1 .. n + 1 /\ stack \in Seq(Int)
  /\ \E r : Roots(r, T, Len(stack), next - 1, stack)
  /\ \A k \in 1 .. next - 1 : ~T[k].by0

OneTree(T, n) == T[n].first = 1 /\ \A k \in 1 .. n : ~T[k].by0

Ended(T, n) ==
  /\ end # "none"
  /\ IF n = 0 THEN end = "crash"
     ELSE /\ end # "crash" /\ (end = "value" <=> OneTree(T, n))
          /\ end = "value" => stack = <<T[n].value>>

CalcInv ==
  /\ expression \in Expressions
  /\ InRange(C!Trees, Len(expression)) => IF end = "none" THEN Stands(C!Trees, Len(expression)) ELSE Ended(C!Trees, Len(expression))

\* A number that fits is stored as it is.
LEMMA AsLongIs ==
  ASSUME LONG_MAX \in Nat, NEW x \in C!LONG_MIN .. LONG_MAX
  PROVE  C!AsLong(x) = x
<1>1. C!LONG_MIN = -LONG_MAX - 1 /\ C!LONG_MIN \in Int
  BY DEF C!LONG_MIN
<1>2. PICK y, w : y = x - C!LONG_MIN /\ w = 2 * LONG_MAX + 2
  OBVIOUS
<1>3. y \in Nat /\ w \in Nat /\ y < w
  BY <1>1, <1>2
<1>4. y % w = y
  BY <1>3
<1>5. C!AsLong(x) = (y % w) + C!LONG_MIN
  BY <1>2 DEF C!AsLong
<1> QED BY <1>1, <1>2, <1>4, <1>5

\* An operator with two values on the stack: its tree is made from the last two.
LEMMA TopTrees ==
  ASSUME NEW T, NEW n, TokensOK(expression, n), TreesOf(T, expression, n), NEW st, NEW h \in Nat, h >= 2,
         NEW k \in 1 .. n, NEW m, m = k - 1, NEW r, Roots(r, T, h, m, st), expression[k].kind \in C!Operators, NEW b, b = r[h - 1]
  PROVE  /\ r[h] = m /\ m \in 1 .. n /\ b \in 1 .. n /\ b < m /\ T[b] \in Node /\ T[m] \in Node
         /\ T[k] = C!Tree(expression[k].kind, T[b], T[m])
         /\ T[b].first = r[h - 2] + 1 /\ T[b].value = st[h - 1] /\ T[m].value = st[h]
<1>1. n \in Nat /\ h \in Nat /\ h - 1 \in 1 .. h /\ h \in 1 .. h /\ (h - 1) - 1 = h - 2 /\ h - 2 \in 0 .. h /\ h - 1 \in 0 .. h
  BY DEF TokensOK
<1>2. r[h - 2] \in 0 .. k - 1 /\ r[h - 1] \in 0 .. k - 1 /\ r[h] = k - 1
  BY <1>1 DEF Roots
<1>3. /\ r[h - 2] < r[h - 1] /\ T[r[h - 1]].first = r[h - 2] + 1 /\ st[h - 1] = T[r[h - 1]].value
      /\ r[h - 1] < r[h] /\ T[r[h]].first = r[h - 1] + 1 /\ st[h] = T[r[h]].value
  BY <1>1 DEF Roots
<1>4. b = r[h - 1] /\ b \in 1 .. n /\ b < k - 1 /\ k - 1 \in 1 .. n
  BY <1>1, <1>2, <1>3
<1>5. T[b] \in Node /\ T[k - 1] \in Node /\ T[k] = NodeOf(T, expression[k], k)
  BY <1>4 DEF TreesOf
<1>6. BeforeTree(T, k) = b
  <2>1. k # 1 /\ T[k - 1].first = b + 1
    BY <1>2, <1>3, <1>4
  <2> QED BY <1>4, <2>1 DEF BeforeTree
<1>7. T[b].first # 0 /\ ~(b < 1)
  <2>1. PICK x : x = r[h - 2] /\ x \in 0 .. k - 1 /\ T[b].first = x + 1
    BY <1>2, <1>3, <1>4
  <2> QED BY <1>4, <2>1
<1>8. expression[k].kind # "number" /\ expression[k].kind # "other"
  BY DEF C!Operators
<1>9. T[k] = C!Tree(expression[k].kind, T[b], T[k - 1])
  BY <1>5, <1>6, <1>7, <1>8, Zenon DEF NodeOf
<1> QED BY <1>2, <1>3, <1>4, <1>5, <1>9

\* With fewer there is no tree.
LEMMA NoTopTrees ==
  ASSUME NEW T, NEW n, TokensOK(expression, n), TreesOf(T, expression, n), NEW st, NEW h \in Nat, h < 2,
         NEW k \in 1 .. n, NEW r, Roots(r, T, h, k - 1, st), expression[k].kind \in C!Operators
  PROVE  T[k].first = 0
<1>1. BeforeTree(T, k) = 0
  <2>1. CASE h = 0
    <3>1. k = 1
      BY <2>1 DEF Roots
    <3> QED BY <3>1 DEF BeforeTree
  <2>2. CASE h = 1
    <3>1. r[0] = 0 /\ r[1] = k - 1 /\ 1 \in 1 .. h
      BY <2>2 DEF Roots
    <3>2. r[0] < r[1] /\ T[r[1]].first = r[0] + 1
      <4>1. \A i \in 1 .. h : r[i - 1] < r[i] /\ T[r[i]].first = r[i - 1] + 1
        BY DEF Roots
      <4>2. r[1 - 1] < r[1] /\ T[r[1]].first = r[1 - 1] + 1
        BY <3>1, <4>1
      <4> QED BY <4>2
    <3>3. k # 1 /\ T[k - 1].first = 1
      BY <3>1, <3>2
    <3> QED BY <3>3 DEF BeforeTree
  <2> QED BY <2>1, <2>2
<1>2. T[k] = C!Leaf(0, 0)
  <2>1. T[k] = NodeOf(T, expression[k], k) /\ 0 < 1
    BY DEF TreesOf
  <2>2. expression[k].kind # "number"
    BY DEF C!Operators
  <2> QED BY <1>1, <2>1, <2>2, Zenon DEF NodeOf
<1> QED BY <1>2 DEF C!Leaf

\* What has a token that ends no tree is not one tree.
LEMMA NotOneTree ==
  ASSUME NEW T, NEW n, TokensOK(expression, n), TreesOf(T, expression, n), NEW k \in 1 .. n, T[k].first = 0
  PROVE  T[n].first # 1
<1> SUFFICES ASSUME T[n].first = 1 PROVE FALSE
  OBVIOUS
<1>1. n \in 1 .. n /\ T[n].first >= 1 /\ k \in T[n].first .. n
  BY DEF TokensOK
<1>2. T[k].first >= T[n].first
  BY <1>1, TreesAreWhole
<1> QED BY <1>2

-----------------------------------------------------------------------------
\* A number is a tree of its own.
LEMMA PushStep ==
  ASSUME NEW T, NEW n, TokensOK(expression, n), TreesOf(T, expression, n), Stands(T, n), C!Push
  PROVE  Stands(T, n)'
<1>1. /\ n \in Nat /\ next \in 1 .. n /\ expression[next].kind = "number" /\ expression[next].n \in Int
      /\ stack' = Append(stack, expression[next].n) /\ next' = next + 1
  BY DEF Stands, C!Push, C!At, C!Token, TokensOK
<1>2. PICK h : h = Len(stack) /\ h \in Nat /\ stack \in Seq(Int)
  BY DEF Stands
<1>3. PICK r : Roots(r, T, h, next - 1, stack)
  BY <1>2 DEF Stands
<1>4. /\ stack' \in Seq(Int) /\ Len(stack') = h + 1 /\ stack'[h + 1] = expression[next].n
      /\ \A i \in 1 .. h : stack'[i] = stack[i]
  BY <1>1, <1>2
<1>5. T[next].first = next /\ T[next].value = expression[next].n /\ ~T[next].by0
  <2>1. T[next] = NodeOf(T, expression[next], next)
    BY <1>1 DEF TreesOf
  <2>2. T[next] = C!Leaf(next, expression[next].n)
    BY <1>1, <2>1, Zenon DEF NodeOf
  <2> QED BY <1>1, <2>2, LeafIsNode
<1>6. PICK q : q = [i \in 0 .. h + 1 |-> IF i = h + 1 THEN next ELSE r[i]]
  OBVIOUS
<1>7. r \in [0 .. h -> 0 .. next - 1] /\ r[0] = 0 /\ r[h] = next - 1
  BY <1>3 DEF Roots
<1>8. q \in [0 .. h + 1 -> 0 .. next] /\ q[0] = 0 /\ q[h + 1] = next /\ \A i \in 0 .. h : q[i] = r[i]
  BY <1>1, <1>2, <1>6, <1>7
<1>9. ASSUME NEW i \in 1 .. h + 1
      PROVE  q[i - 1] < q[i] /\ T[q[i]].first = q[i - 1] + 1 /\ stack'[i] = T[q[i]].value
  <2>1. CASE i = h + 1
    <3>1. q[i] = next /\ q[i - 1] = next - 1
      BY <1>2, <1>7, <1>8, <2>1
    <3> QED BY <1>1, <1>4, <1>5, <2>1, <3>1
  <2>2. CASE i # h + 1
    <3>1. i \in 1 .. h /\ i \in 0 .. h /\ i - 1 \in 0 .. h
      BY <1>2, <2>2
    <3>2. q[i] = r[i] /\ q[i - 1] = r[i - 1] /\ stack'[i] = stack[i]
      BY <1>4, <1>8, <3>1
    <3> QED BY <1>3, <3>1, <3>2 DEF Roots
  <2> QED BY <2>1, <2>2
<1>10. next' - 1 = next /\ next' \in 1 .. n + 1
  BY <1>1
<1>11. Roots(q, T, Len(stack'), next' - 1, stack')
  BY <1>4, <1>8, <1>9, <1>10 DEF Roots
<1>12. \A k \in 1 .. next' - 1 : ~T[k].by0
  <2>1. \A k \in 1 .. next : k = next \/ k \in 1 .. next - 1
    BY <1>1
  <2> QED BY <1>5, <1>10, <2>1 DEF Stands
<1> QED BY <1>4, <1>10, <1>11, <1>12 DEF Stands

\* An operator makes one tree of the last two.
LEMMA OperateStep ==
  ASSUME C!ConstantsAssumption, NEW T, NEW n, TokensOK(expression, n), TreesOf(T, expression, n), InRange(T, n), Stands(T, n), C!Operate
  PROVE  Stands(T, n)'
<1>1. PICK h, k : h = Len(stack) /\ h \in Nat /\ h >= 2 /\ stack \in Seq(Int) /\ k = next /\ k \in 1 .. n /\ n \in Nat
  <2>1. next =< Len(expression) /\ Len(stack) >= 2
    BY Zenon DEF C!Operate, C!At, C!Height
  <2>2. stack \in Seq(Int) /\ next \in 1 .. n + 1 /\ n \in Nat /\ Len(expression) = n
    BY Zenon DEF Stands, TokensOK
  <2> QED BY <2>1, <2>2
<1>2. PICK kind \in C!Operators : kind = expression[k].kind
  <2>1. expression[k].kind \in C!Operators
    BY <1>1, Zenon DEF C!Operate, C!At, C!Token
  <2> QED BY <2>1
<1>3. PICK r : Roots(r, T, h, k - 1, stack)
  BY <1>1 DEF Stands
<1>4. PICK b : b = r[h - 1]
  OBVIOUS
<1>5. /\ r[h] = k - 1 /\ k - 1 \in 1 .. n /\ b \in 1 .. n /\ b < k - 1 /\ T[b] \in Node /\ T[k - 1] \in Node
      /\ T[k] = C!Tree(kind, T[b], T[k - 1])
      /\ T[b].first = r[h - 2] + 1 /\ T[b].value = stack[h - 1] /\ T[k - 1].value = stack[h]
  <2>1. expression[k].kind \in C!Operators
    BY <1>2
  <2>2. PICK m : m = k - 1
    OBVIOUS
  <2>3. Roots(r, T, h, m, stack) /\ k \in 1 .. n /\ h \in Nat /\ h >= 2
    BY <1>1, <1>3, <2>2
  <2>4. /\ r[h] = m /\ m \in 1 .. n /\ b \in 1 .. n /\ b < m /\ T[b] \in Node /\ T[m] \in Node
        /\ T[k] = C!Tree(expression[k].kind, T[b], T[m])
        /\ T[b].first = r[h - 2] + 1 /\ T[b].value = stack[h - 1] /\ T[m].value = stack[h]
    BY <1>4, <2>1, <2>2, <2>3, TopTrees
  <2> QED BY <1>2, <2>2, <2>4
<1>6. kind = "/" => T[k - 1].value # 0
  BY <1>1, <1>2, <1>5 DEF C!Operate, C!Token, C!Last
<1>7. T[k].first = r[h - 2] + 1 /\ ~T[k].by0 /\ T[k].value = C!Applied(kind, stack[h - 1], stack[h])
  <2>1. PICK t, l, w : t = T[k] /\ l = T[b] /\ w = T[k - 1]
    OBVIOUS
  <2>2. l \in Node /\ w \in Node /\ t = C!Tree(kind, l, w)
    BY <1>5, <2>1
  <2>3. t.first = l.first
    BY <2>2, TreeBegins
  <2>4. t.by0 = (kind = "/" /\ w.value = 0) /\ ((kind = "/" => w.value # 0) => t.value = C!Applied(kind, l.value, w.value))
    BY <2>2, TreeValue
  <2> QED BY <1>5, <1>6, <2>1, <2>3, <2>4
<1>8. PICK x : x = T[k].value /\ x \in Int /\ C!AsLong(C!Applied(kind, stack[h - 1], stack[h])) = x
  <2>1. T[k].value \in C!LONG_MIN .. LONG_MAX
    BY <1>1 DEF InRange
  <2>2. LONG_MAX \in Nat /\ C!LONG_MIN \in Int
    BY DEF C!ConstantsAssumption, C!LONG_MIN
  <2> QED BY <1>7, <2>1, <2>2, AsLongIs
<1>9. stack' = Append(SubSeq(stack, 1, h - 2), x) /\ next' = k + 1
  BY <1>1, <1>2, <1>8 DEF C!Operate, C!Height, C!Token, C!Last
<1>10. /\ stack' \in Seq(Int) /\ Len(stack') = h - 1 /\ stack'[h - 1] = x
       /\ \A i \in 1 .. h - 2 : stack'[i] = stack[i]
  <2>1. PICK u : u = SubSeq(stack, 1, h - 2) /\ u \in Seq(Int) /\ Len(u) = h - 2 /\ \A i \in 1 .. h - 2 : u[i] = stack[i]
    <3>1. PICK u : u = SubSeq(stack, 1, h - 2)
      OBVIOUS
    <3>2. CASE h = 2
      <4>1. u = <<>> /\ u \in Seq(Int) /\ Len(u) = h - 2
        BY <1>1, <3>1, <3>2
      <4>2. 1 .. h - 2 = {}
        BY <3>2
      <4> QED BY <3>1, <4>1, <4>2
    <3>3. CASE h > 2
      <4>1. PICK m : m = h - 2 /\ m \in 1 .. Len(stack) /\ 1 \in 1 .. Len(stack)
        BY <1>1, <3>3
      <4>2. u \in Seq(Int) /\ Len(u) = m /\ \A i \in 1 .. m : u[i] = stack[i]
        BY <1>1, <3>1, <4>1
      <4> QED BY <3>1, <4>1, <4>2
    <3> QED BY <1>1, <3>2, <3>3
  <2>2. PICK w : w = Append(u, x)
    OBVIOUS
  <2>3. w \in Seq(Int) /\ Len(w) = h - 1 /\ w[h - 1] = x /\ \A i \in 1 .. h - 2 : w[i] = u[i]
    BY <1>1, <1>8, <2>1, <2>2
  <2> QED BY <1>9, <2>1, <2>2, <2>3
<1>11. PICK g : g = h - 1 /\ g \in Nat /\ g >= 1 /\ h - 2 = g - 1
  BY <1>1
<1>12. PICK q : q = [i \in 0 .. g |-> IF i = g THEN k ELSE r[i]]
  OBVIOUS
<1>13. r \in [0 .. h -> 0 .. k - 1] /\ r[0] = 0
  BY <1>3 DEF Roots
<1>14. q \in [0 .. g -> 0 .. k] /\ q[0] = 0 /\ q[g] = k /\ \A i \in 0 .. g - 1 : q[i] = r[i]
  BY <1>1, <1>11, <1>12, <1>13
<1>15. ASSUME NEW i \in 1 .. g
       PROVE  q[i - 1] < q[i] /\ T[q[i]].first = q[i - 1] + 1 /\ stack'[i] = T[q[i]].value
  <2>1. CASE i = g
    <3>1. q[i] = k /\ q[i - 1] = r[h - 2]
      BY <1>11, <1>14, <2>1
    <3>2. r[h - 2] \in 0 .. k - 1
      <4>1. h - 2 \in 0 .. h
        BY <1>1
      <4> QED BY <1>13, <4>1
    <3> QED BY <1>1, <1>7, <1>8, <1>10, <1>11, <2>1, <3>1, <3>2
  <2>2. CASE i # g
    <3>1. i \in 1 .. h - 2 /\ i \in 1 .. h /\ i \in 0 .. g - 1 /\ i - 1 \in 0 .. g - 1
      BY <1>1, <1>11, <2>2
    <3>2. q[i] = r[i] /\ q[i - 1] = r[i - 1] /\ stack'[i] = stack[i]
      BY <1>10, <1>14, <3>1
    <3> QED BY <1>3, <3>1, <3>2 DEF Roots
  <2> QED BY <2>1, <2>2
<1>16. next' - 1 = k /\ next' \in 1 .. n + 1
  BY <1>1, <1>9
<1>17. Roots(q, T, Len(stack'), next' - 1, stack')
  BY <1>10, <1>11, <1>14, <1>15, <1>16 DEF Roots
<1>18. \A j \in 1 .. next' - 1 : ~T[j].by0
  <2>1. \A j \in 1 .. k : j = k \/ j \in 1 .. next - 1
    BY <1>1
  <2> QED BY <1>7, <1>16, <2>1 DEF Stands
<1> QED BY <1>10, <1>16, <1>17, <1>18 DEF Stands

\* What is refused at a token that ends no tree, or divides by zero.
LEMMA RefusedIsNoTree ==
  ASSUME NEW T, NEW n, TokensOK(expression, n), TreesOf(T, expression, n), NEW k \in 1 .. n, T[k].first = 0 \/ T[k].by0, C!Stop("refused")
  PROVE  Ended(T, n)'
<1>1. ~OneTree(T, n)
  BY NotOneTree DEF OneTree
<1>2. n \in Nat /\ n # 0 /\ end' = "refused"
  BY DEF TokensOK, C!Stop
<1> QED BY <1>1, <1>2 DEF Ended, OneTree

LEMMA RefuseStep ==
  ASSUME NEW T, NEW n, TokensOK(expression, n), TreesOf(T, expression, n), Stands(T, n), C!BadToken \/ C!TooFew \/ C!DivideBy0
  PROVE  Ended(T, n)'
<1>1. PICK h, k : h = Len(stack) /\ h \in Nat /\ stack \in Seq(Int) /\ k = next /\ k \in 1 .. n /\ n \in Nat
  BY DEF Stands, C!BadToken, C!TooFew, C!DivideBy0, C!At, TokensOK
<1>2. PICK r : Roots(r, T, h, k - 1, stack)
  BY <1>1 DEF Stands
<1>3. C!Stop("refused")
  BY DEF C!BadToken, C!TooFew, C!DivideBy0
<1>4. CASE C!BadToken
  <2>1. expression[k].kind = "other"
    BY <1>1, <1>4 DEF C!BadToken, C!At, C!Token
  <2>2. T[k] = NodeOf(T, expression[k], k) /\ expression[k].kind # "number"
    BY <1>1, <2>1 DEF TreesOf
  <2>3. T[k] = C!Leaf(0, 0)
    BY <2>1, <2>2, Zenon DEF NodeOf
  <2>4. T[k].first = 0
    BY <2>3, LeafIsNode
  <2> QED BY <1>1, <1>3, <2>4, RefusedIsNoTree
<1>5. CASE C!TooFew
  <2>1. expression[k].kind \in C!Operators /\ h < 2
    BY <1>1, <1>5 DEF C!TooFew, C!At, C!Token, C!Height
  <2>2. T[k].first = 0
    BY <1>1, <1>2, <2>1, NoTopTrees
  <2> QED BY <1>1, <1>3, <2>2, RefusedIsNoTree
<1>6. CASE C!DivideBy0
  <2>1. expression[k].kind = "/" /\ h >= 2 /\ stack[h] = 0
    BY <1>1, <1>6 DEF C!DivideBy0, C!At, C!Token, C!Height, C!Last
  <2>2. expression[k].kind \in C!Operators
    BY <2>1 DEF C!Operators
  <2>3. PICK l, w : l \in Node /\ w \in Node /\ T[k] = C!Tree(expression[k].kind, l, w) /\ w.value = stack[h]
    <3>1. PICK m, b : m = k - 1 /\ b = r[h - 1]
      OBVIOUS
    <3>2. Roots(r, T, h, m, stack) /\ k \in 1 .. n /\ h \in Nat /\ h >= 2
      BY <1>1, <1>2, <2>1, <3>1
    <3>3. T[b] \in Node /\ T[m] \in Node /\ T[m].value = stack[h] /\ T[k] = C!Tree(expression[k].kind, T[b], T[m])
      BY <2>2, <3>1, <3>2, TopTrees
    <3> QED BY <3>3
  <2>4. PICK t : t = T[k]
    OBVIOUS
  <2>5. t.by0 = (expression[k].kind = "/" /\ w.value = 0)
    BY <2>2, <2>3, <2>4, TreeValue
  <2>6. T[k].by0
    BY <2>1, <2>3, <2>4, <2>5
  <2> QED BY <1>1, <1>3, <2>6, RefusedIsNoTree
<1> QED BY <1>4, <1>5, <1>6

\* The lowest number is not divided by -1 when no value is too large.
LEMMA NoTrap ==
  ASSUME C!ConstantsAssumption, NEW T, NEW n, TokensOK(expression, n), TreesOf(T, expression, n), InRange(T, n), Stands(T, n), C!Trap
  PROVE  FALSE
<1>1. PICK h, k : h = Len(stack) /\ h \in Nat /\ stack \in Seq(Int) /\ k = next /\ k \in 1 .. n /\ n \in Nat
  <2>1. next =< Len(expression)
    BY Zenon DEF C!Trap, C!At
  <2>2. stack \in Seq(Int) /\ next \in 1 .. n + 1 /\ n \in Nat /\ Len(expression) = n
    BY Zenon DEF Stands, TokensOK
  <2> QED BY <2>1, <2>2
<1>2. PICK r : Roots(r, T, h, k - 1, stack)
  BY <1>1 DEF Stands
<1>3. expression[k].kind = "/" /\ h >= 2 /\ stack[h] = -1 /\ stack[h - 1] = C!LONG_MIN
  BY <1>1 DEF C!Trap, C!At, C!Token, C!Height, C!Last
<1>4. expression[k].kind \in C!Operators
  BY <1>3 DEF C!Operators
<1>5. PICK l, w : l \in Node /\ w \in Node /\ T[k] = C!Tree(expression[k].kind, l, w) /\ w.value = stack[h] /\ l.value = stack[h - 1]
  <2>1. PICK m, b : m = k - 1 /\ b = r[h - 1]
    OBVIOUS
  <2>2. Roots(r, T, h, m, stack) /\ k \in 1 .. n /\ h \in Nat /\ h >= 2
    BY <1>1, <1>2, <1>3, <2>1
  <2>3. T[b] \in Node /\ T[m] \in Node /\ T[k] = C!Tree(expression[k].kind, T[b], T[m])
    BY <1>4, <2>1, <2>2, TopTrees
  <2>4. T[m].value = stack[h]
    BY <1>4, <2>1, <2>2, TopTrees
  <2>5. T[b].value = stack[h - 1]
    BY <1>4, <2>1, <2>2, TopTrees
  <2> QED BY <2>3, <2>4, <2>5
<1>6. PICK t : t = T[k]
  OBVIOUS
<1>7. w.value # 0
  BY <1>3, <1>5
<1>8. t.value = C!Applied(expression[k].kind, l.value, w.value)
  BY <1>4, <1>5, <1>6, <1>7, TreeValue
<1>9. t.value = C!Quotient(C!LONG_MIN, -1)
  BY <1>3, <1>5, <1>8 DEF C!Applied
<1>10. C!LONG_MIN = -LONG_MAX - 1 /\ LONG_MAX \in Nat
  BY DEF C!LONG_MIN, C!ConstantsAssumption
<1>11. C!Quotient(C!LONG_MIN, -1) = LONG_MAX + 1
  <2>1. C!Abs(C!LONG_MIN) = LONG_MAX + 1 /\ C!Abs(-1) = 1
    <3>1. -LONG_MAX - 1 < 0 /\ -(-LONG_MAX - 1) = LONG_MAX + 1
      BY <1>10
    <3>2. C!Abs(-LONG_MAX - 1) = LONG_MAX + 1
      BY <3>1, Zenon DEF C!Abs
    <3>3. C!Abs(-1) = 1
      <4>1. \A y \in Int : -(-y) = y
        OBVIOUS
      <4>2. -1 < 0 /\ 1 \in Int
        OBVIOUS
      <4> QED BY <4>1, <4>2, Zenon DEF C!Abs
    <3> QED BY <1>10, <3>2, <3>3
  <2>2. (LONG_MAX + 1) \div 1 = LONG_MAX + 1
    BY <1>10
  <2>3. C!LONG_MIN < 0 /\ -1 < 0
    BY <1>10
  <2> QED BY <1>10, <2>1, <2>2, <2>3 DEF C!Quotient
<1>12. T[k].value \in C!LONG_MIN .. LONG_MAX
  BY <1>1 DEF InRange
<1> QED BY <1>6, <1>9, <1>10, <1>11, <1>12

\* At the end one value is left exactly if all is one tree.
LEMMA ResultStep ==
  ASSUME NEW T, NEW n, TokensOK(expression, n), TreesOf(T, expression, n), Stands(T, n), C!Result
  PROVE  Ended(T, n)'
<1>1. PICK h : h = Len(stack) /\ h \in Nat /\ stack \in Seq(Int) /\ n \in Nat /\ next = n + 1 /\ n = next - 1
  BY DEF Stands, C!Result, TokensOK
<1>2. PICK r : Roots(r, T, h, n, stack)
  BY <1>1 DEF Stands
<1>3. /\ r \in [0 .. h -> 0 .. n] /\ r[0] = 0 /\ r[h] = n
      /\ \A i \in 1 .. h : r[i - 1] < r[i] /\ T[r[i]].first = r[i - 1] + 1 /\ stack[i] = T[r[i]].value
  BY <1>2 DEF Roots
<1>4. end' = (IF h > 1 THEN "refused" ELSE IF h = 0 THEN "crash" ELSE "value") /\ stack' = stack
  BY <1>1 DEF C!Result, C!Stop, C!Height
<1>5. \A k \in 1 .. n : ~T[k].by0
  BY <1>1 DEF Stands
<1>6. CASE h = 0
  <2>1. n = 0 /\ end' = "crash"
    BY <1>3, <1>4, <1>6
  <2> QED BY <2>1 DEF Ended
<1>7. CASE h = 1
  <2>1. r[1 - 1] < r[1] /\ T[r[1]].first = r[1 - 1] + 1 /\ stack[1] = T[r[1]].value
    BY <1>3, <1>7
  <2>2. n # 0 /\ T[n].first = 1 /\ stack[1] = T[n].value
    BY <1>1, <1>3, <1>7, <2>1
  <2>3. stack = <<T[n].value>>
    <3>1. PICK x : x = T[n].value
      OBVIOUS
    <3>2. Len(stack) = 1 /\ stack[1] = x /\ stack \in Seq(Int)
      BY <1>1, <1>7, <2>2, <3>1
    <3>3. stack = [i \in 1 .. 1 |-> stack[i]]
      BY <3>2
    <3>4. <<x>> = [i \in 1 .. 1 |-> <<x>>[i]] /\ \A i \in 1 .. 1 : i = 1
      OBVIOUS
    <3> QED BY <3>1, <3>2, <3>3, <3>4
  <2> QED BY <1>4, <1>5, <1>7, <2>2, <2>3 DEF Ended, OneTree
<1>8. CASE h > 1
  <2>1. h \in 1 .. h /\ h - 1 \in 1 .. h /\ h - 1 \in 0 .. h /\ (h - 1) - 1 \in 0 .. h
    BY <1>1, <1>8
  <2>2. T[r[h]].first = r[h - 1] + 1 /\ r[(h - 1) - 1] < r[h - 1] /\ r[h - 1] < r[h] /\ r[(h - 1) - 1] \in 0 .. n /\ r[h - 1] \in 0 .. n
    BY <1>3, <2>1
  <2>3. n # 0 /\ T[n].first # 1
    BY <1>1, <1>3, <2>2
  <2> QED BY <1>4, <1>8, <2>3 DEF Ended, OneTree
<1> QED BY <1>1, <1>6, <1>7, <1>8

-----------------------------------------------------------------------------
LEMMA SameTrees ==
  ASSUME expression' = expression
  PROVE  C!Trees' = C!Trees
BY Zenon DEF C!Trees, C!FoldLeft, C!MapThenFoldSet

LEMMA ExpressionsAre ==
  ASSUME C!ConstantsAssumption, expression \in Expressions
  PROVE  TokensOK(expression, Len(expression))
BY DEF C!ConstantsAssumption, TokensOK, Kinds

LEMMA CalcStep ==
  ASSUME C!ConstantsAssumption, CalcInv, C!Next
  PROVE  CalcInv'
<1>1. expression \in Expressions /\ expression' = expression /\ end = "none"
  BY DEF CalcInv, C!Next, C!Push, C!Operate, C!BadToken, C!TooFew, C!DivideBy0, C!Trap, C!Result, C!Stop, C!At
<1>2. PICK T, n : T = C!Trees /\ n = Len(expression)
  OBVIOUS
<1>3. TokensOK(expression, n) /\ TreesOf(T, expression, n)
  BY <1>1, <1>2, ExpressionsAre, TreesAre
<1>4. C!Trees' = T /\ Len(expression') = n
  BY <1>1, <1>2, SameTrees
<1>5. ASSUME InRange(T, n) PROVE IF end' = "none" THEN Stands(T, n)' ELSE Ended(T, n)'
  <2>1. Stands(T, n)
    BY <1>1, <1>2, <1>5 DEF CalcInv
  <2>2. CASE C!Push
    <3>1. end' = "none"
      BY <1>1, <2>2 DEF C!Push
    <3> QED BY <1>3, <2>1, <2>2, <3>1, PushStep
  <2>3. CASE C!Operate
    <3>1. end' = "none"
      BY <1>1, <2>3 DEF C!Operate
    <3> QED BY <1>3, <1>5, <2>1, <2>3, <3>1, OperateStep
  <2>4. CASE C!BadToken \/ C!TooFew \/ C!DivideBy0
    <3>1. end' # "none"
      BY <2>4 DEF C!BadToken, C!TooFew, C!DivideBy0, C!Stop
    <3> QED BY <1>3, <2>1, <2>4, <3>1, RefuseStep
  <2>5. CASE C!Trap
    BY <1>3, <1>5, <2>1, <2>5, NoTrap
  <2>6. CASE C!Result
    <3>1. end' # "none"
      BY <2>6 DEF C!Result, C!Stop
    <3> QED BY <1>3, <2>1, <2>6, <3>1, ResultStep
  <2> QED BY <2>2, <2>3, <2>4, <2>5, <2>6 DEF C!Next
<1>6. InRange(T, n) => IF end' = "none" THEN Stands(C!Trees, Len(expression))' ELSE Ended(C!Trees, Len(expression))'
  BY <1>4, <1>5 DEF Stands, Ended, Roots, OneTree
<1>7. InRange(C!Trees, Len(expression))' => InRange(T, n)
  BY <1>4 DEF InRange
<1> QED BY <1>1, <1>6, <1>7 DEF CalcInv

LEMMA CalcEnds ==
  ASSUME C!ConstantsAssumption, CalcInv
  PROVE  C!Calculates
<1> SUFFICES ASSUME end # "none" PROVE IF expression = <<>> THEN end = "crash" ELSE C!Understood(C!Trees)
  BY DEF C!Calculates
<1>1. PICK T, n : T = C!Trees /\ n = Len(expression) /\ expression \in Expressions
  BY DEF CalcInv
<1>2. TokensOK(expression, n) /\ TreesOf(T, expression, n) /\ Len(T) = n /\ DOMAIN T = 1 .. n /\ n \in Nat
  <2>1. TokensOK(expression, n)
    BY <1>1, ExpressionsAre
  <2> QED BY <1>1, <2>1, TreesAre DEF TokensOK
<1>3. CASE expression = <<>>
  <2>1. n = 0
    BY <1>1, <1>3
  <2>2. InRange(T, n)
    BY <2>1 DEF InRange
  <2> QED BY <1>1, <1>3, <2>1, <2>2 DEF CalcInv, Ended
<1>4. CASE expression # <<>>
  <2>1. n # 0
    <3>1. n = 0 => DOMAIN expression = {}
      BY <1>2 DEF TokensOK
    <3>2. n = 0 => expression = <<>>
      BY <1>1, <1>2 DEF TokensOK
    <3> QED BY <1>4, <3>2
  <2>2. ASSUME \A k \in DOMAIN T : T[k].value \in C!LONG_MIN .. LONG_MAX
        PROVE  /\ end = "value" <=> C!Last(T).first = 1 /\ \A k \in DOMAIN T : ~T[k].by0
               /\ end = "value" => stack = <<C!Last(T).value>>
               /\ end # "crash"
    <3>1. InRange(T, n)
      BY <1>2, <2>2 DEF InRange
    <3>2. Ended(T, n)
      BY <1>1, <3>1 DEF CalcInv
    <3>3. C!Last(T) = T[n]
      BY <1>2 DEF C!Last
    <3> QED BY <1>2, <2>1, <3>2, <3>3 DEF Ended, OneTree
  <2>3. C!Understood(T)
    BY <2>2, Zenon DEF C!Understood
  <2> QED BY <1>1, <1>4, <2>3
<1> QED BY <1>3, <1>4

\* So long as no value is too large, an expression of any length is answered exactly if it is
\* one tree in which nothing is divided by zero, and with its value (RPN::RPN()).
THEOREM TreesAreCalculated == C!ConstantsAssumption /\ C!Spec => []C!Calculates
<1> SUFFICES ASSUME C!ConstantsAssumption PROVE C!Spec => []C!Calculates
  OBVIOUS
<1>1. C!Init => CalcInv
  <2> SUFFICES ASSUME C!Init PROVE CalcInv
    OBVIOUS
  <2>1. expression \in Expressions /\ next = 1 /\ stack = <<>> /\ end = "none"
    BY DEF C!Init
  <2>2. PICK T, n : T = C!Trees /\ n = Len(expression) /\ n \in Nat
    BY <2>1, ExpressionsAre DEF TokensOK
  <2>3. PICK r : r = [i \in 0 .. 0 |-> 0]
    OBVIOUS
  <2>4. Roots(r, T, 0, 0, stack)
    BY <2>3 DEF Roots
  <2>5. stack \in Seq(Int) /\ Len(stack) = 0 /\ next - 1 = 0 /\ next \in 1 .. n + 1
    BY <2>1, <2>2
  <2>6. Stands(T, n)
    BY <2>4, <2>5 DEF Stands
  <2> QED BY <2>1, <2>2, <2>6 DEF CalcInv
<1>2. CalcInv /\ [C!Next]_C!vars => CalcInv'
  <2>1. ASSUME CalcInv, UNCHANGED C!vars PROVE CalcInv'
    <3>1. expression' = expression /\ next' = next /\ stack' = stack /\ end' = end
      BY <2>1 DEF C!vars
    <3>2. C!Trees' = C!Trees
      BY <3>1, SameTrees
    <3> QED BY <2>1, <3>1, <3>2 DEF CalcInv, InRange, Stands, Ended, Roots, OneTree
  <2> QED BY <2>1, CalcStep
<1>3. CalcInv => C!Calculates
  BY CalcEnds
<1> QED BY <1>1, <1>2, <1>3, PTL DEF C!Spec
=============================================================================
