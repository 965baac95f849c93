------------------------- MODULE Algorithms_proofs -------------------------
(* Proofs about NextLine, for any descriptors, any texts and any BUFFER_SIZE, and *)
(* about PushSwap, for any arguments.                                            *)
EXTENDS NextLine, FiniteSetTheorems, WellFoundedInduction, SequenceTheorems, TLAPS

-----------------------------------------------------------------------------
(* Numbers.                                                                    *)

\* Every set of numbers has a least one.
LEMMA LeastOf ==
  ASSUME NEW T \in SUBSET Nat, T # {}
  PROVE  \E n \in T : \A m \in T : n =< m
<1>1. PICK n \in T : \A m \in T : ~(<<m, n>> \in OpToRel(<, Nat))
  BY NatLessThanWellFounded, WFMin
<1>2. ASSUME NEW m \in T PROVE ~(m < n)
  <2>1. n \in Nat /\ m \in Nat /\ ~(<<m, n>> \in OpToRel(<, Nat))
    BY <1>1
  <2> QED BY <2>1, Zenon DEF OpToRel
<1>3. \A m \in T : n =< m
  BY <1>2
<1> QED BY <1>3

\* Induction, for a set in the place of a predicate.
LEMMA AllNumbers ==
  ASSUME NEW T, 0 \in T, \A n \in Nat : n \in T => n + 1 \in T
  PROVE  Nat \subseteq T
<1> SUFFICES ASSUME Nat \ T # {} PROVE FALSE
  OBVIOUS
<1>1. PICK n \in Nat \ T : \A m \in Nat \ T : n =< m
  BY LeastOf
<1>2. n - 1 \in Nat /\ n - 1 \in T
  BY <1>1
<1>3. n - 1 + 1 \in T
  BY <1>2
<1> QED BY <1>1, <1>3

-----------------------------------------------------------------------------
(* FlattenSeq                                                                  *)

Flat(f, ss, n) == f = [i \in 1 .. n |-> IF i = 1 THEN ss[i] ELSE f[i - 1] \o ss[i]]

\* The recursion of FlattenSeq has a solution.
LEMMA FlatExists ==
  ASSUME NEW ss
  PROVE  \A n \in Nat : \E f : Flat(f, ss, n)
<1> DEFINE T == {n \in Nat : \E f : Flat(f, ss, n)}
<1>1. 0 \in T
  <2> DEFINE f == [i \in 1 .. 0 |-> i]
  <2>1. f = [i \in 1 .. 0 |-> IF i = 1 THEN ss[i] ELSE f[i - 1] \o ss[i]]
    OBVIOUS
  <2>2. Flat(f, ss, 0)
    BY <2>1 DEF Flat
  <2> QED BY <2>2
<1>2. ASSUME NEW n \in Nat, n \in T PROVE n + 1 \in T
  <2>1. PICK f : Flat(f, ss, n)
    BY <1>2
  <2> DEFINE last == IF n = 0 THEN ss[1] ELSE f[n] \o ss[n + 1]
             g == [i \in 1 .. n + 1 |-> IF i = n + 1 THEN last ELSE f[i]]
  <2>2. ASSUME NEW i \in 1 .. n + 1
        PROVE  g[i] = IF i = 1 THEN ss[i] ELSE g[i - 1] \o ss[i]
    <3>1. CASE i = n + 1 /\ n = 0
      BY <3>1
    <3>2. CASE i = n + 1 /\ n # 0
      <4>1. g[n] = f[n]
        BY <3>2
      <4>2. g[n + 1] = f[n] \o ss[n + 1]
        BY <3>2
      <4>3. i # 1 /\ i - 1 = n /\ i = n + 1
        BY <3>2
      <4> HIDE DEF g
      <4> QED BY <4>1, <4>2, <4>3
    <3>3. CASE i # n + 1 /\ i = 1
      <4>1. i \in 1 .. n /\ g[i] = f[i]
        BY <3>3
      <4>2. f[i] = ss[i]
        BY <2>1, <3>3, <4>1 DEF Flat
      <4> QED BY <3>3, <4>1, <4>2
    <3>4. CASE i # n + 1 /\ i # 1
      <4>1. i \in 1 .. n /\ i - 1 \in 1 .. n /\ g[i] = f[i] /\ g[i - 1] = f[i - 1]
        BY <3>4
      <4>2. f[i] = f[i - 1] \o ss[i]
        BY <2>1, <3>4, <4>1 DEF Flat
      <4> QED BY <3>4, <4>1, <4>2
    <3> QED BY <3>1, <3>2, <3>3, <3>4
  <2>3. g = [i \in 1 .. n + 1 |-> IF i = 1 THEN ss[i] ELSE g[i - 1] \o ss[i]]
    <3> DEFINE h == [i \in 1 .. n + 1 |-> IF i = 1 THEN ss[i] ELSE g[i - 1] \o ss[i]]
    <3>1. \A i \in 1 .. n + 1 : g[i] = h[i]
      BY <2>2
    <3>2. DOMAIN g = 1 .. n + 1 /\ DOMAIN h = 1 .. n + 1 /\ g = [i \in DOMAIN g |-> g[i]] /\ h = [i \in DOMAIN h |-> h[i]]
      OBVIOUS
    <3> HIDE DEF g, h
    <3>3. g = h
      BY <3>1, <3>2
    <3> QED BY <3>3 DEF h
  <2>4. Flat(g, ss, n + 1)
    BY <2>3 DEF Flat
  <2>5. n + 1 \in Nat
    OBVIOUS
  <2> HIDE DEF g
  <2> QED BY <2>4, <2>5, Zenon
<1>3. Nat \subseteq T
  <2> HIDE DEF T
  <2> QED BY <1>1, <1>2, AllNumbers
<1> QED BY <1>3

\* What a solution of the recursion is at one place.
LEMMA FlatAt ==
  ASSUME NEW f, NEW ss, NEW n \in Nat, Flat(f, ss, n), NEW i \in 1 .. n
  PROVE  f[i] = IF i = 1 THEN ss[i] ELSE f[i - 1] \o ss[i]
<1>1. \A j \in 1 .. n : f[j] = IF j = 1 THEN ss[j] ELSE f[j - 1] \o ss[j]
  BY DEF Flat
<1> QED BY <1>1

Agree(f, g, m) == \A i \in 1 .. m : f[i] = g[i]

\* What FlattenSeq gives is determined by its recursion.
LEMMA FlatUnique ==
  ASSUME NEW ss, NEW tt, NEW f, NEW g, NEW n \in Nat, NEW m \in Nat, m =< n,
         Agree(ss, tt, m), Flat(f, ss, m), Flat(g, tt, n)
  PROVE  Agree(f, g, m)
<1> DEFINE T == {i \in Nat : i \in 1 .. m => f[i] = g[i]}
<1>1. 0 \in T
  OBVIOUS
<1>2. ASSUME NEW i \in Nat, i \in T PROVE i + 1 \in T
  <2> SUFFICES ASSUME i + 1 \in 1 .. m PROVE f[i + 1] = g[i + 1]
    OBVIOUS
  <2>1. i + 1 \in 1 .. n /\ i + 1 - 1 = i
    OBVIOUS
  <2>2. f[i + 1] = IF i + 1 = 1 THEN ss[i + 1] ELSE f[i] \o ss[i + 1]
    BY <2>1, FlatAt
  <2>3. g[i + 1] = IF i + 1 = 1 THEN tt[i + 1] ELSE g[i] \o tt[i + 1]
    BY <2>1, FlatAt
  <2>4. i = 0 \/ (i \in 1 .. m /\ f[i] = g[i])
    BY <1>2
  <2>5. ss[i + 1] = tt[i + 1]
    BY DEF Agree
  <2>6. CASE i = 0
    BY <2>2, <2>3, <2>5, <2>6
  <2>7. CASE i # 0
    <3>1. i + 1 # 1 /\ f[i] = g[i]
      BY <2>4, <2>7
    <3> QED BY <2>2, <2>3, <2>5, <3>1
  <2> QED BY <2>6, <2>7
<1>3. Nat \subseteq T
  <2> HIDE DEF T
  <2> QED BY <1>1, <1>2, AllNumbers
<1> QED BY <1>3 DEF Agree

\* The value of FlattenSeq is the last of a solution of its recursion.
LEMMA FlattenLast ==
  ASSUME NEW ss, NEW n \in Nat, n = Len(ss), n # 0
  PROVE  \E f : Flat(f, ss, n) /\ FlattenSeq(ss) = f[n]
<1> DEFINE f == CHOOSE f : Flat(f, ss, n)
<1>1. FlattenSeq(ss) = (CHOOSE g : g = [i \in 1 .. n |-> IF i = 1 THEN ss[i] ELSE g[i - 1] \o ss[i]])[n]
  BY Zenon DEF FlattenSeq
<1>2. f = CHOOSE g : g = [i \in 1 .. n |-> IF i = 1 THEN ss[i] ELSE g[i - 1] \o ss[i]]
  BY Zenon DEF Flat
<1>3. FlattenSeq(ss) = f[n]
  BY <1>1, <1>2
<1>4. Flat(f, ss, n)
  <2>1. \E g : Flat(g, ss, n)
    BY FlatExists
  <2> QED BY <2>1, Zenon
<1> HIDE DEF f
<1> QED BY <1>3, <1>4

\* Putting one more behind the others.
LEMMA FlattenAppend ==
  ASSUME NEW S, NEW ss \in Seq(Seq(S)), NEW s \in Seq(S)
  PROVE  FlattenSeq(Append(ss, s)) = IF ss = <<>> THEN s ELSE FlattenSeq(ss) \o s
<1> DEFINE tt == Append(ss, s)
           n == Len(ss)
<1>1. n \in Nat /\ n + 1 \in Nat /\ Len(tt) = n + 1 /\ n + 1 # 0
  BY AppendProperties
<1>2. (\A i \in 1 .. n : ss[i] = tt[i]) /\ tt[n + 1] = s
  BY AppendProperties
<1>3. ss = <<>> <=> n = 0
  BY EmptySeq
<1> HIDE DEF tt, n
<1>4. PICK g : Flat(g, tt, n + 1) /\ FlattenSeq(tt) = g[n + 1]
  BY <1>1, FlattenLast
<1>5. g[n + 1] = IF n + 1 = 1 THEN tt[n + 1] ELSE g[n + 1 - 1] \o tt[n + 1]
  <2>1. n + 1 \in 1 .. n + 1
    BY <1>1
  <2> QED BY <1>1, <1>4, <2>1, FlatAt
<1>6. CASE n = 0
  <2>1. n + 1 = 1 /\ ss = <<>>
    BY <1>3, <1>6
  <2> QED BY <1>2, <1>4, <1>5, <2>1 DEF tt
<1>7. CASE n # 0
  <2>1. PICK f : Flat(f, ss, n) /\ FlattenSeq(ss) = f[n]
    BY <1>1, <1>7, FlattenLast DEF n
  <2>2. n =< n + 1 /\ n \in 1 .. n /\ n + 1 # 1 /\ n + 1 - 1 = n
    BY <1>1, <1>7
  <2>3. \A i \in 1 .. n : f[i] = g[i]
    <3>1. PICK k \in Nat : k = n + 1
      BY <1>1
    <3>2. n \in Nat /\ n =< k
      BY <1>1, <3>1
    <3>3. Agree(ss, tt, n)
      BY <1>2 DEF Agree
    <3>4. Flat(f, ss, n) /\ Flat(g, tt, k)
      BY <1>4, <2>1, <3>1
    <3>5. Agree(f, g, n)
      BY <3>2, <3>3, <3>4, FlatUnique
    <3> QED BY <3>5 DEF Agree
  <2>4. g[n] = FlattenSeq(ss)
    BY <2>1, <2>2, <2>3
  <2> QED BY <1>2, <1>3, <1>4, <1>5, <1>7, <2>2, <2>4 DEF tt
<1> QED BY <1>6, <1>7

\* Nothing put together is nothing.
LEMMA FlattenNothing == FlattenSeq(<<>>) = <<>>
<1>1. Len(<<>>) = 0
  OBVIOUS
<1> QED BY <1>1, Zenon DEF FlattenSeq

-----------------------------------------------------------------------------
(* Texts and lines.                                                             *)

Some    == Seq(Chars) \cup {NULL}
Statics == Fds \cup {"my_static"}

\* A static without a text counts as an empty one.
LEMMA TextType ==
  ASSUME NEW s \in Some
  PROVE  Text(s) \in Seq(Chars)
BY DEF Text, Some

\* ft_strchr() finds the first newline.
LEMMA FirstNewline ==
  ASSUME NEW s \in Some, NEW t, t = Text(s)
  PROVE  /\ ft_strchr(s) \in 0 .. Len(t)
         /\ ft_strchr(s) # 0 => t[ft_strchr(s)] = NL /\ \A j \in 1 .. ft_strchr(s) - 1 : t[j] # NL
         /\ ft_strchr(s) = 0 => \A j \in 1 .. Len(t) : t[j] # NL
<1> DEFINE I == {i \in 1 .. Len(t) : t[i] = NL}
<1>1. t \in Seq(Chars) /\ Len(t) \in Nat
  BY TextType
<1>2. ft_strchr(s) = IF I # {} THEN Min(I) ELSE 0
  BY Zenon DEF ft_strchr, SelectInSeq
<1>3. CASE I = {}
  <2>1. ft_strchr(s) = 0
    BY <1>2, <1>3
  <2>2. \A j \in 1 .. Len(t) : t[j] # NL
    BY <1>3
  <2> HIDE DEF I
  <2> QED BY <1>1, <2>1, <2>2
<1>4. CASE I # {}
  <2>1. I \in SUBSET Nat
    BY <1>1
  <2>2. \E n \in I : \A m \in I : n =< m
    <3> HIDE DEF I
    <3> QED BY <1>4, <2>1, LeastOf
  <2>3. Min(I) \in I /\ \A m \in I : Min(I) =< m
    <3> HIDE DEF I
    <3> QED BY <2>2, Zenon DEF Min
  <2>4. PICK k \in 1 .. Len(t) : k = ft_strchr(s) /\ t[k] = NL /\ \A m \in I : k =< m
    BY <1>2, <1>4, <2>3
  <2>5. ASSUME NEW j \in 1 .. k - 1 PROVE t[j] # NL
    BY <1>1, <2>4
  <2> HIDE DEF I
  <2>6. ft_strchr(s) \in 0 .. Len(t) /\ ft_strchr(s) # 0
    BY <1>1, <2>4
  <2>7. t[ft_strchr(s)] = NL
    BY <2>4
  <2>8. \A j \in 1 .. ft_strchr(s) - 1 : t[j] # NL
    BY <2>4, <2>5
  <2> QED BY <2>6, <2>7, <2>8
<1> QED BY <1>3, <1>4

\* A text as a line: it is not empty, and its only newline is its end.
Whole(l) == l # <<>> /\ \A j \in 1 .. Len(l) : l[j] = NL => j = Len(l)

\* The prover applies a fact about two texts put together when this has a name.
Behind(s, t) == s \o t

\* A line and what is kept behind it are the text they are cut from; there is no line only
\* when there is no text; and a line without a newline is all of the text.
LEMMA Cut ==
  ASSUME ConstantsAssumption, NEW s \in Some, NEW l, l = ft_copy_until_n(s), NEW k, k = ft_static_handler(s)
  PROVE  /\ l \in Some /\ k \in Some
         /\ Behind(Text(l), Text(k)) = Text(s)
         /\ l = NULL => Text(s) = <<>> /\ Text(k) = <<>>
         /\ l # NULL => /\ l \in Seq(Chars) /\ Text(s) # <<>> /\ Whole(l)
                        /\ l[Len(l)] = NL \/ Text(k) = <<>>
         /\ ft_strchr(s) # 0 => l # NULL /\ l[Len(l)] = NL
<1> DEFINE t == Text(s)
           i == ft_strchr(s)
<1>1. t \in Seq(Chars) /\ Len(t) \in Nat /\ <<>> \in Seq(Chars)
  BY TextType
<1>2. /\ i \in 0 .. Len(t)
      /\ i # 0 => t[i] = NL /\ \A j \in 1 .. i - 1 : t[j] # NL
      /\ i = 0 => \A j \in 1 .. Len(t) : t[j] # NL
  BY FirstNewline
<1>3. CASE i # 0
  <2>1. s = t /\ s # <<>>
    <3>1. Len(<<>>) = 0
      OBVIOUS
    <3>2. t # <<>>
      <4> HIDE DEF t, i
      <4> QED BY <1>2, <1>3, <3>1
    <3> QED BY <3>2 DEF Text
  <2>2. l = SubSeq(t, 1, i) /\ k = SubSeq(t, i + 1, Len(t))
    BY <1>3, <2>1 DEF ft_copy_until_n, ft_static_handler
  <2> HIDE DEF t, i
  <2>3. l \in Seq(Chars) /\ Len(l) = i /\ \A j \in 1 .. i : l[j] = t[j]
    <3>1. \A j \in 1 .. i : t[j] \in Chars
      BY <1>1, <1>2
    <3>2. 1 \in Int /\ i \in Int /\ i >= 1
      BY <1>1, <1>2, <1>3
    <3> QED BY <2>2, <3>1, <3>2, SubSeqProperties
  <2>4. k \in Seq(Chars)
    <3>1. \A j \in i + 1 .. Len(t) : t[j] \in Chars
      BY <1>1, <1>2
    <3>2. i + 1 \in Int /\ Len(t) \in Int
      BY <1>1, <1>2
    <3> QED BY <2>2, <3>1, <3>2, SubSeqProperties
  <2>5. l \o k = t
    <3>1. 1 \in 1 .. Len(t) + 1 /\ i \in 1 - 1 .. Len(t) /\ Len(t) \in i .. Len(t)
      BY <1>1, <1>2
    <3>2. SubSeq(t, 1, i) \o SubSeq(t, i + 1, Len(t)) = SubSeq(t, 1, Len(t))
      BY <1>1, <3>1, ConcatAdjacentSubSeq
    <3>3. SubSeq(t, 1, Len(t)) = t
      BY <1>1, SubSeqFull
    <3> QED BY <2>2, <3>2, <3>3
  <2>6. l # NULL /\ k # NULL /\ Text(l) = l /\ Text(k) = k
    BY <2>3, <2>4 DEF ConstantsAssumption, Text
  <2>7. i \in 1 .. i /\ l # <<>> /\ t # <<>>
    <3>1. Len(<<>>) = 0
      OBVIOUS
    <3> QED BY <1>2, <1>3, <2>3, <3>1
  <2>8. Whole(l) /\ l[Len(l)] = NL
    BY <1>2, <1>3, <2>3, <2>7 DEF Whole
  <2> QED BY <2>3, <2>4, <2>5, <2>6, <2>7, <2>8 DEF Some, Behind, t, i
<1>4. CASE i = 0 /\ t = <<>>
  <2>1. l = NULL /\ k = NULL
    BY <1>4 DEF ft_copy_until_n, ft_static_handler, Text
  <2>2. Text(NULL) = <<>>
    BY DEF Text
  <2>3. <<>> \o <<>> = <<>>
    BY <1>1, ConcatEmptySeq
  <2> QED BY <1>4, <2>1, <2>2, <2>3 DEF Some, Behind
<1>5. CASE i = 0 /\ t # <<>>
  <2>1. s = t /\ s # <<>>
    BY <1>5 DEF Text
  <2>2. l = t /\ k = NULL
    BY <1>5, <2>1 DEF ft_copy_until_n, ft_static_handler
  <2>3. Text(k) = <<>> /\ Text(l) = t /\ l # NULL
    BY <1>1, <2>2 DEF Text, ConstantsAssumption
  <2>4. t \o <<>> = t
    BY <1>1, ConcatEmptySeq
  <2>5. Whole(l)
    BY <1>2, <1>5, <2>2 DEF Whole
  <2> HIDE DEF t, i
  <2> QED BY <1>1, <1>5, <2>2, <2>3, <2>4, <2>5 DEF Some, Behind, t, i
<1> QED BY <1>3, <1>4, <1>5

-----------------------------------------------------------------------------
(* The invariant.                                                               *)

TypeOK ==
  /\ place \in [Fds -> Statics]
  /\ held \in [Statics -> Some]
  /\ call # NULL => call \in [fd : Fds, read_val : Nat]
  /\ rest \in [Fds -> Seq(Chars)]
  /\ given \in [Fds -> Seq(Seq(Chars))]
  /\ ended \in [Fds -> BOOLEAN]
  /\ spoiled \in [Fds -> BOOLEAN]
  /\ user \in [Statics -> Fds \cup {NULL}]

\* During a call the static is that of the descriptor that is read, and a read has given
\* nothing only at the end.
CallOK ==
  call # NULL => /\ user[place[call.fd]] = call.fd
                 /\ call.read_val = 0 => rest[call.fd] = <<>>

\* A line without a newline is the last, and behind it there is nothing.
LineOK(l, last, kept, left) == Whole(l) /\ (l[Len(l)] = NL \/ (last /\ kept = <<>> /\ left = <<>>))
GivenOK(fd) ==
  /\ \A i \in 1 .. Len(given[fd]) : LineOK(given[fd][i], i = Len(given[fd]), Kept(fd), rest[fd])
  /\ ended[fd] => rest[fd] = <<>>

IInv == TypeOK /\ CallOK /\ \A fd \in Fds : ~spoiled[fd] => GivenOK(fd)

-----------------------------------------------------------------------------
(* What a step does to the text that is kept for a descriptor.                  *)

\* What is kept for a descriptor is a text.
LEMMA KeptType ==
  ASSUME TypeOK, NEW g \in Fds
  PROVE  Kept(g) \in Seq(Chars)
<1>1. Held(g) \in Some /\ NULL \in Some
  BY DEF TypeOK, Held, Some
<1> QED BY <1>1, TextType DEF Kept

\* Every step keeps the types.
LEMMA TypeKept ==
  ASSUME ConstantsAssumption, TypeOK, Next
  PROVE  TypeOK'
<1>1. ASSUME NEW fd \in Fds, Call(fd) PROVE TypeOK'
  <2>1. call' \in [fd : Fds, read_val : Nat]
    BY <1>1 DEF Call
  <2>2. user' \in [Statics -> Fds \cup {NULL}]
    BY <1>1 DEF TypeOK, Call
  <2>3. spoiled' \in [Fds -> BOOLEAN]
    BY <1>1 DEF TypeOK, Call
  <2> QED BY <1>1, <2>1, <2>2, <2>3 DEF TypeOK, Call
<1>2. ASSUME NEW fd \in Fds, Refused(fd) PROVE TypeOK'
  <2>1. held' \in [Statics -> Some]
    BY <1>2 DEF TypeOK, Refused, Some
  <2>2. spoiled' \in [Fds -> BOOLEAN]
    BY <1>2 DEF TypeOK, Refused
  <2> QED BY <1>2, <2>1, <2>2 DEF TypeOK, Refused
<1>3. ASSUME NEW n \in 0 .. BUFFER_SIZE, Read(n) PROVE TypeOK'
  <2>1. PICK f \in Fds : f = call.fd /\ call \in [fd : Fds, read_val : Nat]
    BY <1>3 DEF TypeOK, Read, Reading
  <2>2. n \in Nat
    BY DEF ConstantsAssumption
  <2>3. PICK s \in Some : s = held[place[f]]
    BY DEF TypeOK
  <2>4. PICK r \in Seq(Chars) : r = rest[f]
    BY DEF TypeOK
  <2>5. n =< Len(r) /\ Len(r) \in Nat
    BY <1>3, <2>1, <2>4 DEF Read
  <2>6. SubSeq(r, 1, n) \in Seq(Chars) /\ SubSeq(r, n + 1, Len(r)) \in Seq(Chars)
    <3>1. (\A i \in 1 .. n : r[i] \in Chars) /\ (\A i \in n + 1 .. Len(r) : r[i] \in Chars)
      BY <2>2, <2>5
    <3>2. 1 \in Int /\ n \in Int /\ n + 1 \in Int /\ Len(r) \in Int
      BY <2>2, <2>5
    <3> QED BY <3>1, <3>2, SubSeqProperties
  <2>7. Text(s) \o SubSeq(r, 1, n) \in Some
    <3>1. Text(s) \in Seq(Chars)
      BY TextType
    <3> QED BY <2>6, <3>1, ConcatProperties DEF Some
  <2>8. held' \in [Statics -> Some]
    BY <1>3, <2>1, <2>3, <2>4, <2>7 DEF TypeOK, Read
  <2>9. rest' \in [Fds -> Seq(Chars)]
    BY <1>3, <2>1, <2>4, <2>6 DEF TypeOK, Read
  <2>10. call' \in [fd : Fds, read_val : Nat]
    BY <1>3, <2>1, <2>2 DEF Read
  <2> QED BY <1>3, <2>8, <2>9, <2>10 DEF TypeOK, Read
<1>4. CASE ReadFails
  <2>1. held' \in [Statics -> Some]
    BY <1>4 DEF TypeOK, ReadFails, Some
  <2>2. spoiled' \in [Fds -> BOOLEAN]
    BY <1>4 DEF TypeOK, ReadFails
  <2> QED BY <1>4, <2>1, <2>2 DEF TypeOK, ReadFails
<1>5. CASE Return
  <2>1. PICK f \in Fds : f = call.fd
    BY <1>5 DEF TypeOK, Return
  <2>2. PICK s \in Some : s = held[place[f]]
    BY DEF TypeOK
  <2>3. PICK l : l = ft_copy_until_n(s)
    OBVIOUS
  <2>4. ft_static_handler(s) \in Some /\ (l # NULL => l \in Seq(Chars))
    BY <2>3, Cut
  <2>5. held' = [held EXCEPT ![place[f]] = ft_static_handler(s)]
    BY <1>5, <2>1, <2>2 DEF Return
  <2>6. held' \in [Statics -> Some]
    BY <2>4, <2>5 DEF TypeOK
  <2>7. IF l = NULL THEN ended' = [ended EXCEPT ![f] = TRUE] /\ given' = given
        ELSE given' = [given EXCEPT ![f] = Append(@, l)] /\ ended' = ended
    BY <1>5, <2>1, <2>2, <2>3 DEF Return, Held
  <2>8. ended' \in [Fds -> BOOLEAN]
    BY <2>7 DEF TypeOK
  <2>9. given' \in [Fds -> Seq(Seq(Chars))]
    <3>1. CASE l = NULL
      BY <2>7, <3>1 DEF TypeOK
    <3>2. CASE l # NULL
      <4>1. PICK ls \in Seq(Seq(Chars)) : ls = given[f]
        BY DEF TypeOK
      <4>2. Append(ls, l) \in Seq(Seq(Chars))
        BY <2>4, <3>2, AppendProperties
      <4> QED BY <2>7, <3>2, <4>1, <4>2 DEF TypeOK
    <3> QED BY <3>1, <3>2
  <2> QED BY <1>5, <2>6, <2>8, <2>9 DEF TypeOK, Return
<1> QED BY <1>1, <1>2, <1>3, <1>4, <1>5 DEF Next

\* A step leaves alone what is not of the descriptor that is read, or it is spoiled.
Same(g) ==
  /\ Kept(g)' = Kept(g) /\ rest'[g] = rest[g] /\ given'[g] = given[g] /\ ended'[g] = ended[g]
  /\ ~spoiled[g]

\* A call finds its own text, or none; and a text that is freed was that of a descriptor that is spoiled.
LEMMA StaysInCall ==
  ASSUME TypeOK, NEW fd \in Fds, Call(fd) \/ Refused(fd), NEW g \in Fds, ~spoiled'[g]
  PROVE  Same(g)
<1>1. PICK p \in Statics : p = place[fd]
  BY DEF TypeOK
<1>2. PICK q \in Statics : q = place[g] /\ place'[g] = q
  BY DEF TypeOK, Call, Refused
<1>3. rest'[g] = rest[g] /\ given'[g] = given[g] /\ ended'[g] = ended[g]
  BY DEF Call, Refused
<1>4. Text(NULL) = <<>>
  BY DEF Text
<1>5. CASE Call(fd)
  <2>1. /\ user' = [user EXCEPT ![p] = fd] /\ held' = held
        /\ held[p] # NULL /\ user[p] # fd => spoiled' = [f \in Fds |-> spoiled[f] \/ f \in {fd, user[p]}]
        /\ ~(held[p] # NULL /\ user[p] # fd) => spoiled' = spoiled
    BY <1>1, <1>5 DEF Call, Held
  <2>2. ~spoiled[g]
    BY <2>1 DEF TypeOK
  <2>3. Kept(g)' = Text(IF user'[q] = g THEN held'[q] ELSE NULL)
    BY <1>2 DEF Kept, Held, Text
  <2>4. Kept(g) = Text(IF user[q] = g THEN held[q] ELSE NULL)
    BY <1>2 DEF Kept, Held
  <2>5. (IF user'[q] = g THEN held'[q] ELSE NULL) = (IF user[q] = g THEN held[q] ELSE NULL)
    <3>1. CASE q # p
      BY <2>1, <3>1 DEF TypeOK
    <3>2. CASE q = p /\ held[p] = NULL
      BY <2>1, <3>2
    <3>3. CASE q = p /\ user[p] = fd
      BY <2>1, <3>3 DEF TypeOK
    <3>4. CASE q = p /\ held[p] # NULL /\ user[p] # fd
      <4>1. g # fd /\ g # user[p]
        BY <2>1, <3>4
      <4>2. user'[q] = fd /\ user[q] # g
        BY <2>1, <3>4, <4>1 DEF TypeOK
      <4> QED BY <4>1, <4>2
    <3> QED BY <3>1, <3>2, <3>3, <3>4
  <2>6. Kept(g)' = Kept(g)
    BY <2>3, <2>4, <2>5
  <2> QED BY <1>3, <2>2, <2>6 DEF Same
<1>6. CASE Refused(fd)
  <2>1. /\ user' = user /\ held' = [held EXCEPT ![p] = NULL]
        /\ spoiled' = [f \in Fds |-> spoiled[f] \/ (held[p] # NULL /\ f \in {fd, user[p]})]
    BY <1>1, <1>6 DEF Refused, Held
  <2>2. ~spoiled[g] /\ ~(held[p] # NULL /\ g = user[p])
    BY <2>1 DEF TypeOK
  <2>3. Kept(g)' = Text(IF user'[q] = g THEN held'[q] ELSE NULL)
    BY <1>2 DEF Kept, Held, Text
  <2>4. Kept(g) = Text(IF user[q] = g THEN held[q] ELSE NULL)
    BY <1>2 DEF Kept, Held
  <2>5. (IF user'[q] = g THEN held'[q] ELSE NULL) = (IF user[q] = g THEN held[q] ELSE NULL)
    <3>1. CASE q # p
      BY <2>1, <3>1 DEF TypeOK
    <3>2. CASE q = p /\ held[p] = NULL
      BY <2>1, <3>2 DEF TypeOK
    <3>3. CASE q = p /\ user[p] # g
      BY <2>1, <3>3
    <3> QED BY <2>2, <3>1, <3>2, <3>3
  <2>6. Kept(g)' = Kept(g)
    BY <2>3, <2>4, <2>5
  <2> QED BY <1>3, <2>2, <2>6 DEF Same
<1> QED BY <1>5, <1>6

\* A read or a return has to do with the descriptor that is read alone.
LEMMA StaysOfOthers ==
  ASSUME TypeOK, CallOK, NEW f \in Fds, call # NULL, f = call.fd,
         ReadFails \/ Return \/ \E n \in 0 .. BUFFER_SIZE : Read(n),
         NEW g \in Fds, ~spoiled'[g], ReadFails \/ g # f
  PROVE  Same(g)
<1>1. PICK p \in Statics : p = place[f]
  BY DEF TypeOK
<1>2. PICK q \in Statics : q = place[g] /\ place'[g] = q
  BY DEF TypeOK, ReadFails, Return, Read
<1>3. user' = user /\ user[p] = f
  BY <1>1 DEF CallOK, ReadFails, Return, Read
<1>4. g # f /\ ~spoiled[g]
  BY DEF TypeOK, ReadFails, Return, Read
<1>5. rest'[g] = rest[g] /\ given'[g] = given[g] /\ ended'[g] = ended[g]
  <2>1. CASE ReadFails
    BY <2>1 DEF ReadFails
  <2>2. CASE Return
    <3>1. rest' = rest
      BY <2>2 DEF Return
    <3>2. PICK line : IF line = NULL THEN ended' = [ended EXCEPT ![f] = TRUE] /\ given' = given
                      ELSE given' = [given EXCEPT ![f] = Append(@, line)] /\ ended' = ended
      BY <2>2 DEF Return
    <3> QED BY <1>4, <3>1, <3>2 DEF TypeOK
  <2>3. ASSUME NEW n \in 0 .. BUFFER_SIZE, Read(n) PROVE rest'[g] = rest[g] /\ given'[g] = given[g] /\ ended'[g] = ended[g]
    BY <1>4, <2>3 DEF TypeOK, Read
  <2> QED BY <2>1, <2>2, <2>3
<1>6. \E s : held' = [held EXCEPT ![p] = s]
  <2>1. CASE ReadFails
    BY <1>1, <2>1 DEF ReadFails
  <2>2. CASE Return
    BY <1>1, <2>2 DEF Return
  <2>3. ASSUME NEW n \in 0 .. BUFFER_SIZE, Read(n) PROVE \E s : held' = [held EXCEPT ![p] = s]
    BY <1>1, <2>3 DEF Read
  <2> QED BY <2>1, <2>2, <2>3
<1>7. (IF user'[q] = g THEN held'[q] ELSE NULL) = (IF user[q] = g THEN held[q] ELSE NULL)
  <2>1. CASE q = p
    BY <1>3, <1>4, <2>1
  <2>2. CASE q # p
    BY <1>3, <1>6, <2>2 DEF TypeOK
  <2> QED BY <2>1, <2>2
<1>8. Kept(g)' = Kept(g)
  <2>1. Kept(g)' = Text(IF user'[q] = g THEN held'[q] ELSE NULL)
    BY <1>2 DEF Kept, Held, Text
  <2>2. Kept(g) = Text(IF user[q] = g THEN held[q] ELSE NULL)
    BY <1>2 DEF Kept, Held
  <2> QED BY <1>7, <2>1, <2>2
<1> QED BY <1>4, <1>5, <1>8 DEF Same

\* A read moves the beginning of what is left behind what is kept.
LEMMA ReadMoves ==
  ASSUME ConstantsAssumption, TypeOK, CallOK, NEW n \in 0 .. BUFFER_SIZE, Read(n), NEW f \in Fds, f = call.fd
  PROVE  /\ n \in 0 .. Len(rest[f]) /\ (n = 0 <=> rest[f] = <<>>)
         /\ Kept(f)' = Kept(f) \o SubSeq(rest[f], 1, n)
         /\ rest'[f] = SubSeq(rest[f], n + 1, Len(rest[f]))
         /\ given'[f] = given[f] /\ ended'[f] = ended[f] /\ spoiled' = spoiled
<1>1. PICK p \in Statics : p = place[f] /\ place'[f] = p
  BY DEF TypeOK, Read
<1>2. user' = user /\ user[p] = f
  BY <1>1 DEF CallOK, Read, Reading
<1>3. PICK r \in Seq(Chars) : r = rest[f]
  BY DEF TypeOK
<1>4. n \in Nat /\ Len(r) \in Nat /\ n =< Len(r) /\ (n = 0 <=> r = <<>>)
  BY <1>3 DEF Read, ConstantsAssumption
<1>5. rest'[f] = SubSeq(r, n + 1, Len(r))
  BY <1>3 DEF Read, TypeOK
<1>6. PICK s \in Some : s = held[p]
  BY DEF TypeOK
<1>7. held'[p] = Text(s) \o SubSeq(r, 1, n)
  BY <1>1, <1>3, <1>6 DEF Read, TypeOK
<1>8. Text(s) \o SubSeq(r, 1, n) \in Seq(Chars)
  <2>1. \A i \in 1 .. n : r[i] \in Chars
    BY <1>4
  <2>2. SubSeq(r, 1, n) \in Seq(Chars)
    BY <1>4, <2>1, SubSeqProperties
  <2> QED BY <2>2, TextType, ConcatProperties
<1>9. Kept(f) = Text(s)
  BY <1>1, <1>2, <1>6 DEF Kept, Held
<1>10. Kept(f)' = Text(held'[p])
  BY <1>1, <1>2 DEF Kept, Held, Text
<1>11. Text(held'[p]) = Text(s) \o SubSeq(r, 1, n)
  BY <1>7, <1>8 DEF Text, ConstantsAssumption
<1>12. Kept(f)' = Kept(f) \o SubSeq(r, 1, n)
  BY <1>9, <1>10, <1>11
<1>13. given'[f] = given[f] /\ ended'[f] = ended[f] /\ spoiled' = spoiled
  BY DEF Read
<1> QED BY <1>3, <1>4, <1>5, <1>12, <1>13

\* A return gives a line, and keeps what is behind it.
LEMMA ReturnCuts ==
  ASSUME ConstantsAssumption, TypeOK, CallOK, Return, NEW f \in Fds, f = call.fd
  PROVE  \E s \in Some : \E l \in {ft_copy_until_n(s)} :
           /\ Kept(f) = Text(s) /\ Kept(f)' = Text(ft_static_handler(s))
           /\ IF l = NULL THEN ended'[f] /\ given'[f] = given[f]
              ELSE given'[f] = Append(given[f], l) /\ ended'[f] = ended[f]
           /\ rest' = rest /\ spoiled' = spoiled
           /\ ft_strchr(s) = 0 => rest[f] = <<>>
<1>1. PICK p \in Statics : p = place[f] /\ place'[f] = p
  BY DEF TypeOK, Return
<1>2. user' = user /\ user[p] = f
  BY <1>1 DEF CallOK, Return
<1>3. PICK s \in Some : s = held[p]
  BY DEF TypeOK
<1>4. PICK l : l = ft_copy_until_n(s)
  OBVIOUS
<1>5. Kept(f) = Text(s)
  BY <1>1, <1>2, <1>3 DEF Kept, Held
<1>6. held'[p] = ft_static_handler(s)
  BY <1>1, <1>3 DEF Return, TypeOK
<1>7. Kept(f)' = Text(ft_static_handler(s))
  <2>1. Kept(f)' = Text(held'[p])
    BY <1>1, <1>2 DEF Kept, Held, Text
  <2> QED BY <1>6, <2>1
<1>8. IF l = NULL THEN ended' = [ended EXCEPT ![f] = TRUE] /\ given' = given
      ELSE given' = [given EXCEPT ![f] = Append(@, l)] /\ ended' = ended
  BY <1>1, <1>3, <1>4 DEF Return, Held
<1>9. IF l = NULL THEN ended'[f] /\ given'[f] = given[f]
      ELSE given'[f] = Append(given[f], l) /\ ended'[f] = ended[f]
  BY <1>8 DEF TypeOK
<1>10. ft_strchr(s) = 0 => rest[f] = <<>>
  <2>1. call # NULL /\ call.read_val \in Nat
    BY DEF Return, TypeOK
  <2>2. ft_strchr(s) = 0 => ~(call.read_val > 0)
    BY <1>1, <1>3 DEF Return, Reading, Held
  <2> QED BY <2>1, <2>2 DEF CallOK
<1>11. rest' = rest /\ spoiled' = spoiled
  BY DEF Return
<1> QED BY <1>4, <1>5, <1>7, <1>9, <1>10, <1>11

-----------------------------------------------------------------------------
(* Nothing is lost.                                                             *)

\* Three texts are put together from the left or from the right.
LEMMA InAnyOrder ==
  ASSUME NEW s \in Seq(Chars), NEW t \in Seq(Chars), NEW u \in Seq(Chars)
  PROVE  Behind(Behind(s, t), u) = Behind(s, Behind(t, u))
BY ConcatAssociative DEF Behind

\* Moving the beginning of the text that is left behind the text that is kept changes nothing.
LEMMA MovedOn ==
  ASSUME NEW a \in Seq(Chars), NEW b \in Seq(Chars), NEW c \in Seq(Chars), NEW n \in 0 .. Len(c)
  PROVE  Behind(Behind(a, Behind(b, SubSeq(c, 1, n))), SubSeq(c, n + 1, Len(c))) = Behind(Behind(a, b), c)
<1> DEFINE x == SubSeq(c, 1, n)
           y == SubSeq(c, n + 1, Len(c))
<1>1. x \in Seq(Chars) /\ y \in Seq(Chars)
  <2>1. (\A i \in 1 .. n : c[i] \in Chars) /\ (\A i \in n + 1 .. Len(c) : c[i] \in Chars)
    OBVIOUS
  <2>2. 1 \in Int /\ n \in Int /\ n + 1 \in Int /\ Len(c) \in Int
    OBVIOUS
  <2> QED BY <2>1, <2>2, SubSeqProperties
<1>2. x \o y = c
  <2>1. 1 \in 1 .. Len(c) + 1 /\ n \in 1 - 1 .. Len(c) /\ Len(c) \in n .. Len(c)
    OBVIOUS
  <2>2. x \o y = SubSeq(c, 1, Len(c))
    BY <2>1, ConcatAdjacentSubSeq
  <2> QED BY <2>2, SubSeqFull
<1> HIDE DEF x, y
<1>3. PICK u \in Seq(Chars), v \in Seq(Chars) : u = x /\ v = y
  BY <1>1
<1>4. (a \o b) \o u = a \o (b \o u)
  <2>1. Behind(Behind(a, b), u) = Behind(a, Behind(b, u))
    BY InAnyOrder
  <2> QED BY <2>1 DEF Behind
<1>5. a \o b \in Seq(Chars)
  BY ConcatProperties
<1>6. PICK ab \in Seq(Chars) : ab = a \o b
  BY <1>5
<1>7. (ab \o u) \o v = ab \o (u \o v)
  <2>1. Behind(Behind(ab, u), v) = Behind(ab, Behind(u, v))
    BY InAnyOrder
  <2> QED BY <2>1 DEF Behind
<1>8. (ab \o x) \o y = ab \o (x \o y)
  BY <1>3, <1>7
<1>9. a \o (b \o x) \o y = a \o b \o c
  <2>1. a \o (b \o x) = ab \o x
    BY <1>3, <1>4, <1>6
  <2>2. ab \o x \o y = ab \o c
    BY <1>2, <1>8
  <2> QED BY <1>6, <2>1, <2>2
<1> QED BY <1>9 DEF x, y, Behind

\* A sequence of texts put together is a text.
LEMMA FlattenType ==
  ASSUME NEW S, NEW ss \in Seq(Seq(S))
  PROVE  FlattenSeq(ss) \in Seq(S)
<1> DEFINE n == Len(ss)
<1>1. n \in Nat /\ \A i \in 1 .. n : ss[i] \in Seq(S)
  OBVIOUS
<1> HIDE DEF n
<1>2. CASE n = 0
  <2>1. ss = <<>>
    BY <1>2, EmptySeq DEF n
  <2> QED BY <2>1, FlattenNothing, EmptySeq
<1>3. CASE n # 0
  <2>1. PICK f : Flat(f, ss, n) /\ FlattenSeq(ss) = f[n]
    BY <1>1, <1>3, FlattenLast DEF n
  <2> DEFINE T == {i \in Nat : i \in 1 .. n => f[i] \in Seq(S)}
  <2>2. 0 \in T
    OBVIOUS
  <2>3. ASSUME NEW i \in Nat, i \in T PROVE i + 1 \in T
    <3> SUFFICES ASSUME i + 1 \in 1 .. n PROVE f[i + 1] \in Seq(S)
      OBVIOUS
    <3>1. f[i + 1] = IF i + 1 = 1 THEN ss[i + 1] ELSE f[i + 1 - 1] \o ss[i + 1]
      BY <1>1, <2>1, FlatAt
    <3>2. ss[i + 1] \in Seq(S)
      BY <1>1
    <3>3. CASE i = 0
      BY <3>1, <3>2, <3>3
    <3>4. CASE i # 0
      <4>1. i \in 1 .. n /\ f[i] \in Seq(S) /\ i + 1 # 1 /\ i + 1 - 1 = i
        BY <1>1, <2>3, <3>4
      <4>2. f[i] \o ss[i + 1] \in Seq(S)
        BY <3>2, <4>1, ConcatProperties
      <4> QED BY <3>1, <4>1, <4>2
    <3> QED BY <3>3, <3>4
  <2>4. Nat \subseteq T
    <3> HIDE DEF T
    <3> QED BY <2>2, <2>3, AllNumbers
  <2>5. n \in 1 .. n
    BY <1>1, <1>3
  <2> QED BY <1>1, <2>1, <2>4, <2>5
<1> QED BY <1>2, <1>3

\* Giving a line changes nothing, when what is kept is what was behind it.
LEMMA CutOff ==
  ASSUME NEW ss \in Seq(Seq(Chars)), NEW l \in Seq(Chars), NEW k \in Seq(Chars), NEW c \in Seq(Chars),
         NEW t, t = Behind(l, k)
  PROVE  Behind(Behind(FlattenSeq(Append(ss, l)), k), c) = Behind(Behind(FlattenSeq(ss), t), c)
<1> DEFINE F == FlattenSeq(ss)
<1>1. F \in Seq(Chars) /\ t \in Seq(Chars)
  BY FlattenType, ConcatProperties DEF Behind
<1>2. FlattenSeq(Append(ss, l)) = F \o l
  <2>1. CASE ss = <<>>
    <3>1. F = <<>> /\ <<>> \o l = l
      BY <2>1, FlattenNothing, ConcatEmptySeq
    <3> QED BY <2>1, <3>1, FlattenAppend
  <2>2. CASE ss # <<>>
    BY <2>2, FlattenAppend
  <2> QED BY <2>1, <2>2
<1> HIDE DEF F
<1>3. PICK u \in Seq(Chars) : u = F
  BY <1>1
<1>4. (u \o l) \o k = u \o (l \o k)
  <2>1. Behind(Behind(u, l), k) = Behind(u, Behind(l, k))
    BY InAnyOrder
  <2> QED BY <2>1 DEF Behind
<1>5. FlattenSeq(Append(ss, l)) \o k \o c = F \o t \o c
  BY <1>2, <1>3, <1>4 DEF Behind
<1> QED BY <1>5 DEF F, Behind

\* Whatever a step does, as long as no read has failed and nobody else has used the text, the
\* lines given, the text kept and the text to read are the same when they are put together.
LEMMA JoinedStep ==
  ASSUME ConstantsAssumption, TypeOK, CallOK, Next, NEW g \in Fds, ~spoiled'[g]
  PROVE  Joined(g)' = Joined(g)
<1>0. ASSUME Same(g) PROVE Joined(g)' = Joined(g)
  BY <1>0 DEF Same, Joined
<1>1. ASSUME NEW fd \in Fds, Call(fd) \/ Refused(fd) PROVE Joined(g)' = Joined(g)
  BY <1>0, <1>1, StaysInCall
<1>2. CASE ReadFails
  <2>1. PICK f \in Fds : f = call.fd /\ call # NULL
    BY <1>2 DEF ReadFails, Reading, TypeOK
  <2> QED BY <1>0, <1>2, <2>1, StaysOfOthers
<1>3. ASSUME NEW n \in 0 .. BUFFER_SIZE, Read(n) PROVE Joined(g)' = Joined(g)
  <2>1. PICK f \in Fds : f = call.fd /\ call # NULL
    BY <1>3 DEF Read, Reading, TypeOK
  <2>2. CASE g # f
    BY <1>0, <1>3, <2>1, <2>2, StaysOfOthers
  <2>3. CASE g = f
    <3>1. /\ n \in 0 .. Len(rest[g])
          /\ Kept(g)' = Kept(g) \o SubSeq(rest[g], 1, n)
          /\ rest'[g] = SubSeq(rest[g], n + 1, Len(rest[g]))
          /\ given'[g] = given[g]
      BY <1>3, <2>1, <2>3, ReadMoves
    <3>2. PICK a \in Seq(Chars) : a = FlattenSeq(given[g])
      BY FlattenType DEF TypeOK
    <3>3. PICK b \in Seq(Chars) : b = Kept(g)
      BY KeptType
    <3>4. PICK c \in Seq(Chars) : c = rest[g]
      BY DEF TypeOK
    <3>5. Joined(g)' = a \o (b \o SubSeq(c, 1, n)) \o SubSeq(c, n + 1, Len(c))
      BY <3>1, <3>2, <3>3, <3>4 DEF Joined
    <3>6. Joined(g) = a \o b \o c
      BY <3>2, <3>3, <3>4 DEF Joined
    <3>7. Behind(Behind(a, Behind(b, SubSeq(c, 1, n))), SubSeq(c, n + 1, Len(c))) = Behind(Behind(a, b), c)
      BY <3>1, <3>4, MovedOn
    <3> QED BY <3>5, <3>6, <3>7 DEF Behind
  <2> QED BY <2>2, <2>3
<1>4. CASE Return
  <2>1. PICK f \in Fds : f = call.fd /\ call # NULL
    BY <1>4 DEF Return, TypeOK
  <2>2. CASE g # f
    BY <1>0, <1>4, <2>1, <2>2, StaysOfOthers
  <2>3. CASE g = f
    <3>1. PICK s \in Some : \E l \in {ft_copy_until_n(s)} :
           /\ Kept(g) = Text(s) /\ Kept(g)' = Text(ft_static_handler(s))
           /\ IF l = NULL THEN ended'[g] /\ given'[g] = given[g]
              ELSE given'[g] = Append(given[g], l) /\ ended'[g] = ended[g]
           /\ rest' = rest
      BY <1>4, <2>1, <2>3, ReturnCuts
    <3>2. PICK l : l = ft_copy_until_n(s)
      OBVIOUS
    <3>3. PICK k : k = ft_static_handler(s)
      OBVIOUS
    <3>4. /\ k \in Some /\ Behind(Text(l), Text(k)) = Text(s)
          /\ l = NULL => Text(s) = <<>> /\ Text(k) = <<>>
          /\ l # NULL => l \in Seq(Chars)
      BY <3>2, <3>3, Cut
    <3>5. CASE l = NULL
      <4>1. Kept(g)' = Kept(g) /\ given'[g] = given[g] /\ rest'[g] = rest[g]
        BY <3>1, <3>2, <3>3, <3>4, <3>5
      <4> QED BY <4>1 DEF Joined
    <3>6. CASE l # NULL
      <4>1. PICK ss \in Seq(Seq(Chars)) : ss = given[g]
        BY DEF TypeOK
      <4>2. PICK c \in Seq(Chars) : c = rest[g]
        BY DEF TypeOK
      <4>3. PICK t : t = Text(k)
        OBVIOUS
      <4>4. l \in Seq(Chars) /\ t \in Seq(Chars) /\ Text(l) = l
        BY <3>4, <3>6, <4>3, TextType DEF Text
      <4>5. Joined(g)' = FlattenSeq(Append(ss, l)) \o t \o c
        BY <3>1, <3>2, <3>3, <3>6, <4>1, <4>2, <4>3 DEF Joined
      <4>6. Kept(g) = Behind(l, t)
        BY <3>1, <3>4, <4>3, <4>4
      <4>7. Joined(g) = FlattenSeq(ss) \o Kept(g) \o c
        BY <4>1, <4>2 DEF Joined
      <4>8. PICK w : w = Kept(g)
        OBVIOUS
      <4>9. Behind(Behind(FlattenSeq(Append(ss, l)), t), c) = Behind(Behind(FlattenSeq(ss), w), c)
        BY <4>4, <4>6, <4>8, CutOff
      <4> QED BY <4>5, <4>7, <4>8, <4>9 DEF Behind
    <3> QED BY <3>5, <3>6
  <2> QED BY <2>2, <2>3
<1> QED BY <1>1, <1>2, <1>3, <1>4 DEF Next

-----------------------------------------------------------------------------
(* The invariant is kept.                                                       *)

\* Every step keeps what is known of a call.
LEMMA CallKept ==
  ASSUME ConstantsAssumption, TypeOK, CallOK, Next
  PROVE  CallOK'
<1>1. ASSUME NEW fd \in Fds, Call(fd) PROVE CallOK'
  <2>1. call'.fd = fd /\ call'.read_val = 1 /\ place' = place /\ user' = [user EXCEPT ![place[fd]] = fd]
    BY <1>1 DEF Call
  <2>2. user'[place'[fd]] = fd
    BY <2>1 DEF TypeOK
  <2> QED BY <2>1, <2>2 DEF CallOK
<1>2. ASSUME NEW n \in 0 .. BUFFER_SIZE, Read(n) PROVE CallOK'
  <2>1. PICK f \in Fds : f = call.fd /\ call # NULL
    BY <1>2 DEF Read, Reading, TypeOK
  <2>2. call'.fd = f /\ call'.read_val = n /\ place' = place /\ user' = user
    BY <1>2, <2>1 DEF Read, TypeOK
  <2>3. user[place[f]] = f
    BY <2>1 DEF CallOK
  <2>4. ASSUME n = 0 PROVE rest'[f] = <<>>
    <3>1. rest[f] = <<>> /\ rest'[f] = SubSeq(rest[f], n + 1, Len(rest[f]))
      BY <1>2, <2>1, <2>4, ReadMoves
    <3>2. Len(<<>>) = 0
      OBVIOUS
    <3>3. rest'[f] = SubSeq(<<>>, 1, 0)
      BY <2>4, <3>1, <3>2
    <3> QED BY <3>3, SubSeqEmpty
  <2> QED BY <2>2, <2>3, <2>4 DEF CallOK
<1>3. ASSUME NEW fd \in Fds, Refused(fd) PROVE CallOK'
  BY <1>3 DEF Refused, CallOK
<1>4. CASE ReadFails \/ Return
  BY <1>4 DEF ReadFails, Return, CallOK
<1> QED BY <1>1, <1>2, <1>3, <1>4 DEF Next

\* Every step keeps what is known of the lines, for a text that is not spoiled.
LEMMA GivenKept ==
  ASSUME ConstantsAssumption, TypeOK, CallOK, Next, NEW g \in Fds, ~spoiled'[g], GivenOK(g)
  PROVE  GivenOK(g)'
<1>0. ASSUME Same(g) PROVE GivenOK(g)'
  BY <1>0 DEF Same, GivenOK
<1>1. ASSUME NEW fd \in Fds, Call(fd) \/ Refused(fd) PROVE GivenOK(g)'
  BY <1>0, <1>1, StaysInCall
<1>2. CASE ReadFails
  <2>1. PICK f \in Fds : f = call.fd /\ call # NULL
    BY <1>2 DEF ReadFails, Reading, TypeOK
  <2> QED BY <1>0, <1>2, <2>1, StaysOfOthers
<1>3. ASSUME NEW n \in 0 .. BUFFER_SIZE, Read(n) PROVE GivenOK(g)'
  <2>1. PICK f \in Fds : f = call.fd /\ call # NULL
    BY <1>3 DEF Read, Reading, TypeOK
  <2>2. CASE g # f
    BY <1>0, <1>3, <2>1, <2>2, StaysOfOthers
  <2>3. CASE g = f
    <3>1. /\ n = 0 <=> rest[g] = <<>>
          /\ Kept(g)' = Kept(g) \o SubSeq(rest[g], 1, n)
          /\ rest'[g] = SubSeq(rest[g], n + 1, Len(rest[g]))
          /\ given'[g] = given[g] /\ ended'[g] = ended[g]
      BY <1>3, <2>1, <2>3, ReadMoves
    <3>2. ASSUME rest[g] = <<>> PROVE rest'[g] = <<>> /\ Kept(g)' = Kept(g)
      <4>1. Len(<<>>) = 0 /\ SubSeq(<<>>, 1, 0) = <<>>
        BY SubSeqEmpty
      <4>2. rest'[g] = SubSeq(<<>>, 1, 0) /\ Kept(g)' = Kept(g) \o SubSeq(<<>>, 1, 0)
        BY <3>1, <3>2, <4>1
      <4>3. PICK b \in Seq(Chars) : b = Kept(g)
        BY KeptType
      <4>4. b \o <<>> = b
        BY ConcatEmptySeq
      <4> QED BY <4>1, <4>2, <4>3, <4>4
    <3> QED BY <3>1, <3>2 DEF GivenOK, LineOK
  <2> QED BY <2>2, <2>3
<1>4. CASE Return
  <2>1. PICK f \in Fds : f = call.fd /\ call # NULL
    BY <1>4 DEF Return, TypeOK
  <2>2. CASE g # f
    BY <1>0, <1>4, <2>1, <2>2, StaysOfOthers
  <2>3. CASE g = f
    <3>1. PICK s \in Some : \E l \in {ft_copy_until_n(s)} :
           /\ Kept(g) = Text(s) /\ Kept(g)' = Text(ft_static_handler(s))
           /\ IF l = NULL THEN ended'[g] /\ given'[g] = given[g]
              ELSE given'[g] = Append(given[g], l) /\ ended'[g] = ended[g]
           /\ rest' = rest
           /\ ft_strchr(s) = 0 => rest[g] = <<>>
      BY <1>4, <2>1, <2>3, ReturnCuts
    <3>2. PICK l : l = ft_copy_until_n(s)
      OBVIOUS
    <3>3. PICK k : k = ft_static_handler(s)
      OBVIOUS
    <3>4. /\ l = NULL => Text(k) = <<>>
          /\ l # NULL => /\ l \in Seq(Chars) /\ Text(s) # <<>> /\ Whole(l)
                         /\ l[Len(l)] = NL \/ Text(k) = <<>>
          /\ ft_strchr(s) # 0 => l # NULL /\ l[Len(l)] = NL
      BY <3>2, <3>3, Cut
    <3>5. Kept(g)' = Text(k) /\ rest'[g] = rest[g]
      BY <3>1, <3>3
    <3>6. CASE l = NULL
      <4>1. ended'[g] /\ given'[g] = given[g] /\ rest'[g] = <<>> /\ Kept(g)' = <<>>
        BY <3>1, <3>2, <3>4, <3>5, <3>6
      <4> QED BY <4>1 DEF GivenOK, LineOK
    <3>7. CASE l # NULL
      <4>1. PICK ss \in Seq(Seq(Chars)) : ss = given[g]
        BY DEF TypeOK
      <4>2. PICK tt \in Seq(Seq(Chars)) : tt = Append(ss, l)
        BY <3>4, <3>7, AppendProperties
      <4>3. given'[g] = tt /\ ended'[g] = ended[g]
        BY <3>1, <3>2, <3>7, <4>1, <4>2
      <4>4. Len(tt) = Len(ss) + 1 /\ (\A i \in 1 .. Len(ss) : tt[i] = ss[i]) /\ tt[Len(ss) + 1] = l
        BY <3>4, <3>7, <4>2, AppendProperties
      <4>5. ASSUME NEW i \in 1 .. Len(ss), NEW last, NEW kept, NEW left PROVE LineOK(tt[i], last, kept, left)
        <5>1. LineOK(ss[i], i = Len(ss), Kept(g), rest[g])
          BY <4>1 DEF GivenOK
        <5>2. Kept(g) # <<>>
          BY <3>1, <3>4, <3>7
        <5>3. Whole(ss[i]) /\ ss[i][Len(ss[i])] = NL
          BY <5>1, <5>2 DEF LineOK
        <5>4. tt[i] = ss[i]
          BY <4>4
        <5> QED BY <5>3, <5>4 DEF LineOK
      <4>6. LineOK(l, TRUE, Kept(g)', rest'[g])
        BY <3>1, <3>4, <3>5, <3>7 DEF LineOK
      <4>7. \A i \in 1 .. Len(tt) : LineOK(tt[i], i = Len(tt), Kept(g)', rest'[g])
        <5> SUFFICES ASSUME NEW i \in 1 .. Len(tt) PROVE LineOK(tt[i], i = Len(tt), Kept(g)', rest'[g])
          OBVIOUS
        <5>1. CASE i \in 1 .. Len(ss)
          BY <4>5, <5>1
        <5>2. CASE i \notin 1 .. Len(ss)
          <6>1. i = Len(tt) /\ tt[i] = l
            BY <4>4, <5>2
          <6> QED BY <4>6, <6>1
        <5> QED BY <5>1, <5>2
      <4>8. ended'[g] => rest'[g] = <<>>
        BY <3>5, <4>3 DEF GivenOK
      <4> QED BY <4>3, <4>7, <4>8 DEF GivenOK
    <3> QED BY <3>6, <3>7
  <2> QED BY <2>2, <2>3
<1> QED BY <1>1, <1>2, <1>3, <1>4 DEF Next

\* What is spoiled stays so.
LEMMA NotHealed ==
  ASSUME TypeOK, Next, NEW g \in Fds, ~spoiled'[g]
  PROVE  ~spoiled[g]
<1>1. ASSUME NEW fd \in Fds, Call(fd) \/ Refused(fd) PROVE ~spoiled[g]
  BY <1>1 DEF TypeOK, Call, Refused
<1>2. CASE ReadFails \/ Return
  BY <1>2 DEF TypeOK, ReadFails, Return
<1>3. ASSUME NEW n \in 0 .. BUFFER_SIZE, Read(n) PROVE ~spoiled[g]
  BY <1>3 DEF Read
<1> QED BY <1>1, <1>2, <1>3 DEF Next

\* The invariant holds before the first call.
LEMMA InitOK ==
  ASSUME ConstantsAssumption, Init
  PROVE  IInv
<1>1. <<>> \in Seq(Seq(Chars)) /\ Len(<<>>) = 0
  OBVIOUS
<1>2. TypeOK
  <2>1. place \in [Fds -> Statics]
    <3>1. [f \in Fds |-> "my_static"] \in [Fds -> Statics] /\ [f \in Fds |-> f] \in [Fds -> Statics]
      BY DEF Statics
    <3> QED BY <3>1 DEF Init
  <2>2. held \in [Statics -> Some] /\ user \in [Statics -> Fds \cup {NULL}]
    BY DEF Init, Some, Statics
  <2>3. rest \in [Fds -> Seq(Chars)]
    BY DEF Init, ConstantsAssumption
  <2>4. given \in [Fds -> Seq(Seq(Chars))] /\ ended \in [Fds -> BOOLEAN] /\ spoiled \in [Fds -> BOOLEAN]
    BY <1>1 DEF Init
  <2>5. call = NULL
    BY DEF Init
  <2> QED BY <2>1, <2>2, <2>3, <2>4, <2>5 DEF TypeOK
<1>3. CallOK
  BY DEF Init, CallOK
<1>4. ASSUME NEW g \in Fds PROVE GivenOK(g)
  <2>1. given[g] = <<>> /\ ~ended[g]
    BY DEF Init
  <2> QED BY <1>1, <2>1 DEF GivenOK
<1> QED BY <1>2, <1>3, <1>4 DEF IInv

\* The invariant holds always.
LEMMA Invariance == ASSUME ConstantsAssumption PROVE Spec => []IInv
<1>1. Init => IInv
  BY InitOK
<1>2. IInv /\ [Next]_vars => IInv'
  <2>1. ASSUME IInv, Next PROVE IInv'
    <3>1. TypeOK' /\ CallOK'
      BY <2>1, TypeKept, CallKept DEF IInv
    <3>2. ASSUME NEW g \in Fds, ~spoiled'[g] PROVE GivenOK(g)'
      <4>1. ~spoiled[g]
        BY <2>1, <3>2, NotHealed DEF IInv
      <4> QED BY <2>1, <3>2, <4>1, GivenKept DEF IInv
    <3> QED BY <3>1, <3>2 DEF IInv
  <2>2. ASSUME IInv, UNCHANGED vars PROVE IInv'
    BY <2>2 DEF vars, IInv, TypeOK, CallOK, GivenOK, Kept, Held, Text
  <2> QED BY <2>1, <2>2
<1> QED BY <1>1, <1>2, PTL DEF Spec

\* Whatever read() returns at a time and whichever descriptor is asked in between, no step
\* loses, doubles or moves a character of a text that is not spoiled: with any number of
\* descriptors, any texts, any BUFFER_SIZE, one static or one for each.
THEOREM NothingIsLost == ASSUME ConstantsAssumption PROVE Spec => [][NothingLost]_vars
<1>1. ASSUME IInv, Next PROVE NothingLost
  BY <1>1, JoinedStep DEF IInv, NothingLost
<1>2. IInv /\ [Next]_vars => [NothingLost]_vars
  BY <1>1
<1> QED BY <1>2, Invariance, PTL DEF Spec

\* Every line that get_next_line() has given is a line of the text: it is not empty, it
\* has its only newline at its end, but for the last, and NULL was given at the end alone.
THEOREM LinesAreLines == ASSUME ConstantsAssumption PROVE Spec => []LinesAreGiven
<1>1. IInv => LinesAreGiven
  <2> SUFFICES ASSUME IInv, NEW g \in Fds, ~spoiled[g]
               PROVE  /\ \A i \in DOMAIN given[g] : IsLine(given[g][i], i = Len(given[g]) /\ rest[g] = <<>>)
                      /\ ~Wanted(g) => rest[g] = <<>>
    BY DEF LinesAreGiven
  <2>1. GivenOK(g)
    BY DEF IInv
  <2>2. PICK ss \in Seq(Seq(Chars)) : ss = given[g]
    BY DEF IInv, TypeOK
  <2>3. ASSUME NEW i \in DOMAIN ss PROVE IsLine(ss[i], i = Len(ss) /\ rest[g] = <<>>)
    <3>1. i \in 1 .. Len(ss) /\ ss[i] \in Seq(Chars)
      OBVIOUS
    <3>2. LineOK(ss[i], i = Len(ss), Kept(g), rest[g])
      BY <2>1, <2>2, <3>1 DEF GivenOK
    <3>3. PICK l \in Seq(Chars) : l = ss[i]
      BY <3>1
    <3>4. l # <<>> /\ (\A j \in DOMAIN l : l[j] = NL => j = Len(l))
      BY <3>2, <3>3 DEF LineOK, Whole
    <3>5. Last(l) = NL \/ (i = Len(ss) /\ rest[g] = <<>>)
      BY <3>2, <3>3 DEF LineOK, Last
    <3> QED BY <3>3, <3>4, <3>5 DEF IsLine
  <2>4. ~Wanted(g) => rest[g] = <<>>
    BY <2>1 DEF GivenOK, Wanted
  <2> QED BY <2>2, <2>3, <2>4
<1> QED BY <1>1, Invariance, PTL

-----------------------------------------------------------------------------
(* push_swap: stacks.                                                           *)

CONSTANTS Arguments, Digits, INT_MAX, LowestText
VARIABLES args, pc, stack_a, stack_b, turns, costs, told

P == INSTANCE PushSwap WITH a <- stack_a, b <- stack_b, i <- turns

Elements(s) == {s[k] : k \in 1 .. Len(s)}

\* No element is twice on a stack.
Stack(s, n) == s \in Seq(1 .. n) /\ \A j, k \in 1 .. Len(s) : s[j] = s[k] => j = k

\* All elements are on one stack or the other.
Shared(s, t, n) ==
  /\ Stack(s, n) /\ Stack(t, n) /\ Len(s) + Len(t) = n
  /\ Elements(s) \cap Elements(t) = {} /\ Elements(s) \cup Elements(t) = 1 .. n

\* The next place on a stack, and the first behind the last.
After(k, n) == IF k < n THEN k + 1 ELSE 1

\* t is s, one place on.
Turning(s, t) == Len(t) = Len(s) /\ \A k \in 1 .. Len(s) : t[k] = s[After(k, Len(s))]

\* The places of a stack follow each other in a circle.
LEMMA AfterIs ==
  ASSUME NEW n \in Nat, NEW k \in 1 .. n
  PROVE  /\ After(k, n) \in 1 .. n /\ After(k, n) = (k % n) + 1
         /\ \A j \in 1 .. n : After(j, n) = After(k, n) => j = k
         /\ \E j \in 1 .. n : After(j, n) = k
<1>1. After(k, n) \in 1 .. n
  BY DEF After
<1>2. After(k, n) = (k % n) + 1
  BY DEF After
<1>3. \A j \in 1 .. n : After(j, n) = After(k, n) => j = k
  BY DEF After
<1>4. \E j \in 1 .. n : After(j, n) = k
  <2>1. CASE k = 1
    <3>1. n \in 1 .. n /\ After(n, n) = 1
      BY DEF After
    <3> QED BY <2>1, <3>1
  <2>2. CASE k # 1
    <3>1. k - 1 \in 1 .. n /\ After(k - 1, n) = k
      BY <2>2 DEF After
    <3> QED BY <3>1
  <2> QED BY <2>1, <2>2
<1> QED BY <1>1, <1>2, <1>3, <1>4

\* ra, rb: each place gets what was in the next one.
LEMMA RotateIs ==
  ASSUME NEW X, NEW s \in Seq(X)
  PROVE  P!Rotate(s) \in Seq(X) /\ Turning(s, P!Rotate(s))
<1>1. CASE Len(s) > 1
  <2>1. PICK r, h, t : r = Tail(s) /\ h = Head(s) /\ t = Append(r, h)
    OBVIOUS
  <2>2. r \in Seq(X) /\ h \in X /\ h = s[1] /\ Len(s) \in Nat /\ Len(r) = Len(s) - 1 /\ \A k \in 1 .. Len(r) : r[k] = s[k + 1]
    BY <1>1, <2>1
  <2>3. t \in Seq(X) /\ Len(t) = Len(r) + 1 /\ t[Len(r) + 1] = h /\ \A k \in 1 .. Len(r) : t[k] = r[k]
    BY <2>1, <2>2
  <2>4. \A k \in 1 .. Len(s) : t[k] = s[After(k, Len(s))]
    BY <1>1, <2>2, <2>3 DEF After
  <2>5. P!Rotate(s) = t
    BY <1>1, <2>1 DEF P!Rotate
  <2> QED BY <2>2, <2>3, <2>4, <2>5 DEF Turning
<1>2. CASE ~(Len(s) > 1)
  <2>1. P!Rotate(s) = s /\ Len(s) \in Nat
    BY <1>2 DEF P!Rotate
  <2>2. \A k \in 1 .. Len(s) : After(k, Len(s)) = k
    BY <1>2, <2>1 DEF After
  <2> QED BY <2>1, <2>2 DEF Turning
<1> QED BY <1>1, <1>2

\* rra, rrb: the other way round.
LEMMA ReverseIs ==
  ASSUME NEW X, NEW s \in Seq(X)
  PROVE  P!Reverse1(s) \in Seq(X) /\ Turning(P!Reverse1(s), s)
<1>1. CASE Len(s) > 1
  <2>1. PICK r, h, t : r = P!Front(s) /\ h = <<P!Last(s)>> /\ t = h \o r
    OBVIOUS
  <2>2. r \in Seq(X) /\ Len(s) \in Nat /\ Len(r) = Len(s) - 1 /\ \A k \in 1 .. Len(r) : r[k] = s[k]
    BY <1>1, <2>1 DEF P!Front
  <2>3. h \in Seq(X) /\ Len(h) = 1 /\ h[1] = s[Len(s)]
    BY <1>1, <2>1 DEF P!Last
  <2>4. t \in Seq(X) /\ Len(t) = Len(r) + 1 /\ t[1] = h[1] /\ \A k \in 1 .. Len(r) : t[k + 1] = r[k]
    <3>1. t \in Seq(X) /\ Len(t) = 1 + Len(r) /\ (\A k \in 1 .. 1 : t[k] = h[k]) /\ \A k \in 1 .. Len(r) : t[1 + k] = r[k]
      BY <2>1, <2>2, <2>3
    <3> QED BY <2>2, <3>1
  <2>5. \A k \in 1 .. Len(t) : s[k] = t[After(k, Len(t))]
    BY <1>1, <2>2, <2>3, <2>4 DEF After
  <2>6. P!Reverse1(s) = t
    BY <1>1, <2>1 DEF P!Reverse1
  <2> QED BY <2>2, <2>4, <2>5, <2>6 DEF Turning
<1>2. CASE ~(Len(s) > 1)
  <2>1. P!Reverse1(s) = s /\ Len(s) \in Nat
    BY <1>2 DEF P!Reverse1
  <2>2. \A k \in 1 .. Len(s) : After(k, Len(s)) = k
    BY <1>2, <2>1 DEF After
  <2> QED BY <2>1, <2>2 DEF Turning
<1> QED BY <1>1, <1>2

Swapped(s, t) == Len(t) = Len(s) /\ t[1] = s[2] /\ t[2] = s[1] /\ \A k \in 3 .. Len(s) : t[k] = s[k]

\* sa: the two on top change places.
LEMMA SwapIs ==
  ASSUME NEW X, NEW s \in Seq(X), Len(s) > 1
  PROVE  P!Swap(s) \in Seq(X) /\ Swapped(s, P!Swap(s))
<1>1. PICK h, r, t : h = <<s[2], s[1]>> /\ r = SubSeq(s, 3, Len(s)) /\ t = h \o r
  OBVIOUS
<1>2. Len(s) \in Nat /\ s[1] \in X /\ s[2] \in X
  OBVIOUS
<1>3. h \in Seq(X) /\ Len(h) = 2 /\ h[1] = s[2] /\ h[2] = s[1]
  BY <1>1, <1>2
<1>4. r \in Seq(X) /\ Len(r) = Len(s) - 2 /\ \A k \in 1 .. Len(r) : r[k] = s[k + 2]
  BY <1>1, <1>2
<1>5. t \in Seq(X) /\ Len(t) = Len(s) /\ t[1] = h[1] /\ t[2] = h[2] /\ \A k \in 1 .. Len(r) : t[2 + k] = r[k]
  <2>1. t \in Seq(X) /\ Len(t) = 2 + Len(r) /\ (\A k \in 1 .. 2 : t[k] = h[k]) /\ \A k \in 1 .. Len(r) : t[2 + k] = r[k]
    BY <1>1, <1>3, <1>4
  <2> QED BY <1>2, <1>4, <2>1
<1>6. ASSUME NEW k \in 3 .. Len(s) PROVE t[k] = s[k]
  <2>1. k - 2 \in 1 .. Len(r) /\ 2 + (k - 2) = k /\ (k - 2) + 2 = k
    BY <1>2, <1>4
  <2> QED BY <1>4, <1>5, <2>1
<1>7. P!Swap(s) = t
  BY <1>1 DEF P!Swap
<1> QED BY <1>3, <1>5, <1>6, <1>7 DEF Swapped

\* The top of s is put on t.
Pushed(s, t, u, v) ==
  /\ Len(u) = Len(s) - 1 /\ (\A k \in 1 .. Len(u) : u[k] = s[k + 1])
  /\ Len(v) = Len(t) + 1 /\ v[1] = s[1] /\ \A k \in 1 .. Len(t) : v[k + 1] = t[k]

\* pa, pb: the top of one stack is put on the other.
LEMMA PushIs ==
  ASSUME NEW X, NEW s \in Seq(X), NEW t \in Seq(X), Len(s) > 0
  PROVE  Tail(s) \in Seq(X) /\ <<Head(s)>> \o t \in Seq(X) /\ Pushed(s, t, Tail(s), <<Head(s)>> \o t)
<1>1. PICK h, u, v : h = <<Head(s)>> /\ u = Tail(s) /\ v = h \o t
  OBVIOUS
<1>2. Len(s) \in Nat /\ Len(t) \in Nat /\ s[1] \in X /\ Head(s) = s[1]
  OBVIOUS
<1>3. u \in Seq(X) /\ Len(u) = Len(s) - 1 /\ \A k \in 1 .. Len(u) : u[k] = s[k + 1]
  BY <1>1, <1>2
<1>4. h \in Seq(X) /\ Len(h) = 1 /\ h[1] = s[1]
  BY <1>1, <1>2
<1>5. v \in Seq(X) /\ Len(v) = 1 + Len(t) /\ (\A k \in 1 .. 1 : v[k] = h[k]) /\ \A k \in 1 .. Len(t) : v[1 + k] = t[k]
  BY <1>1, <1>2, <1>4
<1>6. Len(v) = Len(t) + 1 /\ v[1] = s[1] /\ \A k \in 1 .. Len(t) : v[k + 1] = t[k]
  BY <1>2, <1>4, <1>5
<1>7. Pushed(s, t, u, v)
  BY <1>3, <1>6 DEF Pushed
<1> QED BY <1>1, <1>3, <1>5, <1>7

-----------------------------------------------------------------------------
(* push_swap: the operations keep what is on the stacks.                        *)

\* A rotation keeps what is on a stack.
LEMMA TurningKeeps ==
  ASSUME NEW n, NEW s \in Seq(1 .. n), NEW t \in Seq(1 .. n), Turning(s, t)
  PROVE  (Stack(s, n) <=> Stack(t, n)) /\ Elements(s) = Elements(t)
<1>1. PICK l \in Nat : l = Len(s) /\ l = Len(t)
  BY DEF Turning
<1>2. \A k \in 1 .. l : t[k] = s[After(k, l)]
  BY <1>1 DEF Turning
<1>3. \A k \in 1 .. l : After(k, l) \in 1 .. l
  BY <1>1, AfterIs
<1>4. \A j, k \in 1 .. l : After(j, l) = After(k, l) => j = k
  BY <1>1, AfterIs
<1>5. \A k \in 1 .. l : \E j \in 1 .. l : After(j, l) = k
  BY <1>1, AfterIs
<1>6. Elements(s) = Elements(t)
  <2>1. Elements(t) \subseteq Elements(s)
    BY <1>1, <1>2, <1>3 DEF Elements
  <2>2. \A k \in 1 .. l : \E j \in 1 .. l : t[j] = s[k]
    BY <1>2, <1>5
  <2>3. Elements(s) \subseteq Elements(t)
    BY <1>1, <2>2 DEF Elements
  <2> QED BY <2>1, <2>3
<1>7. ASSUME Stack(s, n) PROVE Stack(t, n)
  <2>1. ASSUME NEW j \in 1 .. l, NEW k \in 1 .. l, t[j] = t[k] PROVE j = k
    <3>1. s[After(j, l)] = s[After(k, l)]
      BY <1>2, <2>1
    <3>2. After(j, l) = After(k, l)
      BY <1>1, <1>3, <1>7, <3>1 DEF Stack
    <3> QED BY <1>4, <3>2
  <2> QED BY <1>1, <2>1 DEF Stack
<1>8. ASSUME Stack(t, n) PROVE Stack(s, n)
  <2>1. ASSUME NEW j \in 1 .. l, NEW k \in 1 .. l, s[j] = s[k] PROVE j = k
    <3>1. PICK p \in 1 .. l, q \in 1 .. l : After(p, l) = j /\ After(q, l) = k
      BY <1>5
    <3>2. t[p] = t[q]
      BY <1>2, <2>1, <3>1
    <3> QED BY <1>1, <1>8, <3>1, <3>2 DEF Stack
  <2> QED BY <1>1, <2>1 DEF Stack
<1> QED BY <1>6, <1>7, <1>8

\* So does a swap.
LEMMA SwappedKeeps ==
  ASSUME NEW n, NEW s \in Seq(1 .. n), NEW t \in Seq(1 .. n), Swapped(s, t), Len(s) > 1, Stack(s, n)
  PROVE  Stack(t, n) /\ Elements(s) = Elements(t)
<1>1. PICK l \in Nat : l = Len(s) /\ l = Len(t) /\ l > 1
  BY DEF Swapped
<1> DEFINE To(k) == IF k = 1 THEN 2 ELSE IF k = 2 THEN 1 ELSE k
<1>2. \A k \in 1 .. l : To(k) \in 1 .. l /\ t[k] = s[To(k)] /\ To(To(k)) = k
  BY <1>1 DEF Swapped
<1>3. \A j, k \in 1 .. l : To(j) = To(k) => j = k
  OBVIOUS
<1> HIDE DEF To
<1>4. Stack(t, n)
  BY <1>1, <1>2, <1>3 DEF Stack
<1>5. \A k \in 1 .. l : t[To(k)] = s[k]
  BY <1>2
<1>6. Elements(s) = Elements(t)
  BY <1>1, <1>2, <1>5 DEF Elements
<1> QED BY <1>4, <1>6

\* A push keeps what is on the two stacks together.
LEMMA PushedKeeps ==
  ASSUME NEW n, NEW s, NEW t, Shared(s, t, n), Len(s) > 0, NEW u \in Seq(1 .. n), NEW v \in Seq(1 .. n), Pushed(s, t, u, v)
  PROVE  Shared(u, v, n)
<1>1. /\ Len(s) \in Nat /\ Len(t) \in Nat /\ Len(u) = Len(s) - 1 /\ Len(v) = Len(t) + 1 /\ Len(s) + Len(t) = n
      /\ \A k \in 1 .. Len(u) : u[k] = s[k + 1] /\ k + 1 \in 1 .. Len(s)
  BY DEF Shared, Stack, Pushed
<1>2. v[1] = s[1] /\ 1 \in 1 .. Len(s) /\ 1 \in 1 .. Len(v) /\ \A k \in 1 .. Len(t) : v[k + 1] = t[k] /\ k + 1 \in 1 .. Len(v)
  BY <1>1 DEF Pushed
<1>3. (\A j, k \in 1 .. Len(s) : s[j] = s[k] => j = k) /\ \A j, k \in 1 .. Len(t) : t[j] = t[k] => j = k
  BY DEF Shared, Stack
<1>4. Stack(u, n)
  <2>1. ASSUME NEW j \in 1 .. Len(u), NEW k \in 1 .. Len(u), u[j] = u[k] PROVE j = k
    <3>1. s[j + 1] = s[k + 1] /\ j + 1 \in 1 .. Len(s) /\ k + 1 \in 1 .. Len(s)
      BY <1>1, <2>1
    <3>2. j + 1 = k + 1
      BY <1>3, <3>1
    <3> QED BY <3>2
  <2> QED BY <2>1 DEF Stack
<1>5. \A j \in 1 .. Len(s), k \in 1 .. Len(t) : s[j] # t[k]
  BY DEF Shared, Elements
<1>6. \A k \in 1 .. Len(v) : k = 1 \/ (k - 1 \in 1 .. Len(t) /\ v[k] = t[k - 1])
  <2>1. ASSUME NEW k \in 1 .. Len(v), k # 1 PROVE k - 1 \in 1 .. Len(t) /\ v[k] = t[k - 1]
    <3>1. k - 1 \in 1 .. Len(t) /\ (k - 1) + 1 = k
      BY <1>1, <2>1
    <3> QED BY <1>2, <3>1
  <2> QED BY <2>1
<1>7. Stack(v, n)
  <2>1. ASSUME NEW j \in 1 .. Len(v), NEW k \in 1 .. Len(v), v[j] = v[k] PROVE j = k
    <3>1. CASE j = 1 /\ k # 1
      <4>1. t[k - 1] = s[1] /\ k - 1 \in 1 .. Len(t)
        BY <1>2, <1>6, <2>1, <3>1
      <4> QED BY <1>2, <1>5, <4>1
    <3>2. CASE j # 1 /\ k = 1
      <4>1. t[j - 1] = s[1] /\ j - 1 \in 1 .. Len(t)
        BY <1>2, <1>6, <2>1, <3>2
      <4> QED BY <1>2, <1>5, <4>1
    <3>3. CASE j # 1 /\ k # 1
      <4>1. t[j - 1] = t[k - 1] /\ j - 1 \in 1 .. Len(t) /\ k - 1 \in 1 .. Len(t)
        BY <1>6, <2>1, <3>3
      <4>2. j - 1 = k - 1
        BY <1>3, <4>1
      <4> QED BY <4>2
    <3> QED BY <3>1, <3>2, <3>3
  <2> QED BY <2>1 DEF Stack
<1>8. \A k \in 1 .. Len(s) : k = 1 \/ (k - 1 \in 1 .. Len(u) /\ u[k - 1] = s[k])
  <2>1. ASSUME NEW k \in 1 .. Len(s), k # 1 PROVE k - 1 \in 1 .. Len(u) /\ u[k - 1] = s[k]
    <3>1. k - 1 \in 1 .. Len(u) /\ (k - 1) + 1 = k
      BY <1>1, <2>1
    <3> QED BY <1>1, <3>1
  <2> QED BY <2>1
<1>9. Elements(s) = Elements(u) \cup {s[1]} /\ Elements(v) = Elements(t) \cup {s[1]}
  <2>1. Elements(u) \subseteq Elements(s) /\ s[1] \in Elements(s)
    BY <1>1, <1>2 DEF Elements
  <2>2. Elements(s) \subseteq Elements(u) \cup {s[1]}
    BY <1>8 DEF Elements
  <2>3. Elements(v) \subseteq Elements(t) \cup {s[1]}
    <3>1. \A k \in 1 .. Len(v) : v[k] \in Elements(t) \cup {s[1]}
      BY <1>2, <1>6 DEF Elements
    <3> QED BY <3>1 DEF Elements
  <2>4. Elements(t) \subseteq Elements(v) /\ s[1] \in Elements(v)
    BY <1>2 DEF Elements
  <2> QED BY <2>1, <2>2, <2>3, <2>4
<1>10. s[1] \notin Elements(u)
  <2>1. \A k \in 1 .. Len(u) : u[k] # s[1]
    BY <1>1, <1>2, <1>3
  <2> QED BY <2>1 DEF Elements
<1>11. Elements(u) \cap Elements(v) = {} /\ Elements(u) \cup Elements(v) = 1 .. n
  BY <1>9, <1>10 DEF Shared
<1>12. Len(u) + Len(v) = n
  BY <1>1
<1> QED BY <1>4, <1>7, <1>11, <1>12 DEF Shared

-----------------------------------------------------------------------------
(* push_swap: a stack that is sorted up to a rotation.                          *)

\* Going up from x to y, or from the largest x to the least y, one comes by z.
Within(x, y, z) == IF x < y THEN x < z /\ z < y ELSE x < z \/ z < y

\* No element is missed when one goes from each to the next.
Circle(s) == \A j, k \in 1 .. Len(s) : ~Within(s[k], s[After(k, Len(s))], s[j])

\* A stack stays sorted up to a rotation when it is rotated.
LEMMA CircleTurns ==
  ASSUME NEW s, NEW t, Len(s) \in Nat, Turning(s, t)
  PROVE  Circle(s) <=> Circle(t)
<1>1. PICK l \in Nat : l = Len(s) /\ l = Len(t)
  BY DEF Turning
<1>2. \A k \in 1 .. l : t[k] = s[After(k, l)]
  BY <1>1 DEF Turning
<1>3. \A k \in 1 .. l : After(k, l) \in 1 .. l /\ \E j \in 1 .. l : After(j, l) = k
  BY <1>1, AfterIs
<1>4. ASSUME Circle(s), NEW j \in 1 .. l, NEW k \in 1 .. l PROVE ~Within(t[k], t[After(k, l)], t[j])
  <2>1. t[k] = s[After(k, l)] /\ t[After(k, l)] = s[After(After(k, l), l)] /\ t[j] = s[After(j, l)]
    BY <1>2, <1>3
  <2> QED BY <1>1, <1>3, <1>4, <2>1 DEF Circle
<1>5. ASSUME Circle(t), NEW j \in 1 .. l, NEW k \in 1 .. l PROVE ~Within(s[k], s[After(k, l)], s[j])
  <2>1. PICK p \in 1 .. l, q \in 1 .. l : After(p, l) = k /\ After(q, l) = j
    BY <1>3
  <2>2. t[p] = s[k] /\ t[After(p, l)] = s[After(k, l)] /\ t[q] = s[j]
    BY <1>2, <1>3, <2>1
  <2> QED BY <1>1, <1>3, <1>5, <2>1, <2>2 DEF Circle
<1> QED BY <1>1, <1>4, <1>5 DEF Circle

\* What is on a stack are numbers of 1 .. n.
LEMMA StackIs ==
  ASSUME NEW n \in Nat, NEW s, Stack(s, n)
  PROVE  Len(s) \in Nat /\ DOMAIN s = 1 .. Len(s) /\ \A k \in 1 .. Len(s) : s[k] \in 1 .. n /\ s[k] \in Int /\ s[k] \in Elements(s)
BY DEF Stack, Elements

\* A stack without a gap falls in one place at most.
LEMMA CircleIsTurned ==
  ASSUME NEW n \in Nat, NEW s, Stack(s, n), Circle(s)
  PROVE  P!Turned(s)
<1>1. PICK l \in Nat : l = Len(s)
  BY StackIs
<1>2. DOMAIN s = 1 .. l /\ \A k \in 1 .. l : s[k] \in Int
  BY <1>1, StackIs
<1> DEFINE D == {k \in DOMAIN s : s[k] > s[(k % Len(s)) + 1]}
<1>3. ASSUME NEW j \in D, NEW k \in D PROVE j = k
  <2>1. j \in 1 .. l /\ k \in 1 .. l /\ s[j] > s[After(j, l)] /\ s[k] > s[After(k, l)] /\ After(j, l) \in 1 .. l /\ After(k, l) \in 1 .. l
    BY <1>1, <1>2, <1>3, AfterIs
  <2>2. ~Within(s[j], s[After(j, l)], s[k]) /\ ~Within(s[k], s[After(k, l)], s[j])
    BY <1>1, <2>1 DEF Circle
  <2>3. s[j] = s[k]
    BY <1>2, <2>1, <2>2 DEF Within
  <2> QED BY <1>1, <2>1, <2>3 DEF Stack
<1>4. Cardinality(D) =< 1
  <2> HIDE DEF D
  <2>1. CASE D = {}
    <3>1. Cardinality(D) = 0
      BY <2>1, FS_EmptySet
    <3> QED BY <3>1
  <2>2. CASE D # {}
    <3>1. PICK k : k \in D
      BY <2>2
    <3>2. D = {k}
      BY <1>3, <3>1
    <3>3. Cardinality({k}) = 1
      BY FS_Singleton
    <3> QED BY <3>2, <3>3
  <2> QED BY <2>1, <2>2
<1>5. P!Cardinality(D) = Cardinality(D)
  BY DEF P!Cardinality, Cardinality, P!IsFiniteSet, IsFiniteSet
<1> QED BY <1>4, <1>5 DEF P!Turned

\* When the least is on top, it is sorted.
LEMMA LeastFirst ==
  ASSUME NEW n \in Nat, NEW s, Stack(s, n), Circle(s), s[1] = 1
  PROVE  P!Sorted(s)
<1>1. PICK l \in Nat : l = Len(s)
  BY StackIs
<1>2. ASSUME NEW k \in 1 .. l - 1 PROVE s[k] =< s[k + 1]
  <2>1. k \in 1 .. l /\ k + 1 \in 1 .. l /\ 1 \in 1 .. l /\ After(k, l) = k + 1 /\ k + 1 # 1
    BY <1>1 DEF After
  <2>2. s[k] \in 1 .. n /\ s[k + 1] \in 1 .. n /\ s[k + 1] # s[1]
    BY <1>1, <2>1 DEF Stack
  <2>3. ~Within(s[k], s[k + 1], s[1])
    BY <1>1, <2>1 DEF Circle
  <2> QED BY <2>2, <2>3 DEF Within
<1> QED BY <1>1, <1>2 DEF P!Sorted

\* Two or three that are sorted are sorted up to a rotation.
LEMMA FewSorted ==
  ASSUME NEW n \in Nat, NEW s, Stack(s, n), Len(s) \in {2, 3}, P!Sorted(s)
  PROVE  Circle(s)
<1>1. Len(s) = 2 => s[1] < s[2] /\ s[1] \in Int /\ s[2] \in Int
  <2> SUFFICES ASSUME Len(s) = 2 PROVE s[1] < s[2] /\ s[1] \in Int /\ s[2] \in Int
    OBVIOUS
  <2>1. s[1] \in Int /\ s[2] \in Int /\ s[1] # s[2] /\ 1 \in 1 .. Len(s) - 1 /\ 1 + 1 = 2
    <3>1. 1 \in 1 .. Len(s) /\ 2 \in 1 .. Len(s)
      OBVIOUS
    <3>2. \A k \in 1 .. Len(s) : s[k] \in Int
      BY StackIs
    <3>3. s[1] = s[2] => 1 = 2
      BY <3>1 DEF Stack
    <3> QED BY <3>1, <3>2, <3>3
  <2>2. s[1] =< s[2]
    BY <2>1 DEF P!Sorted
  <2> QED BY <2>1, <2>2
<1>2. Len(s) = 3 => s[1] < s[2] /\ s[2] < s[3] /\ s[1] \in Int /\ s[2] \in Int /\ s[3] \in Int
  <2> SUFFICES ASSUME Len(s) = 3 PROVE s[1] < s[2] /\ s[2] < s[3] /\ s[1] \in Int /\ s[2] \in Int /\ s[3] \in Int
    OBVIOUS
  <2>1. s[1] \in Int /\ s[2] \in Int /\ s[3] \in Int /\ s[1] # s[2] /\ s[2] # s[3]
    <3>1. 1 \in 1 .. Len(s) /\ 2 \in 1 .. Len(s) /\ 3 \in 1 .. Len(s)
      OBVIOUS
    <3>2. \A k \in 1 .. Len(s) : s[k] \in Int
      BY StackIs
    <3>3. (s[1] = s[2] => 1 = 2) /\ (s[2] = s[3] => 2 = 3)
      BY <3>1 DEF Stack
    <3> QED BY <3>1, <3>2, <3>3
  <2>2. 1 \in 1 .. Len(s) - 1 /\ 2 \in 1 .. Len(s) - 1 /\ 1 + 1 = 2 /\ 2 + 1 = 3
    OBVIOUS
  <2>3. s[1] =< s[2] /\ s[2] =< s[3]
    BY <2>2 DEF P!Sorted
  <2> QED BY <2>1, <2>3
<1>3. CASE Len(s) = 2
  <2>1. \A j, k \in {1, 2} : ~Within(s[k], s[After(k, 2)], s[j])
    BY <1>1, <1>3 DEF Within, After
  <2>2. 1 .. 2 = {1, 2}
    OBVIOUS
  <2> QED BY <1>3, <2>1, <2>2 DEF Circle
<1>4. CASE Len(s) = 3
  <2>1. \A j, k \in {1, 2, 3} : ~Within(s[k], s[After(k, 3)], s[j])
    BY <1>2, <1>4 DEF Within, After
  <2>2. 1 .. 3 = {1, 2, 3}
    OBVIOUS
  <2> QED BY <1>4, <2>1, <2>2 DEF Circle
<1> QED BY <1>3, <1>4

\* y comes next to x among the elements of a stack.
IsNext(s, x, y) ==
  /\ y \in Elements(s)
  /\ IF \E z \in Elements(s) : z > x THEN y > x /\ \A z \in Elements(s) : z > x => y =< z ELSE \A z \in Elements(s) : y =< z

\* An element is put before the one that comes next to it.
LEMMA CircleGrows ==
  ASSUME NEW n \in Nat, NEW s, Stack(s, n), Len(s) > 0, Circle(s), NEW x \in 1 .. n, x \notin Elements(s), IsNext(s, x, s[1]),
         NEW v, Len(v) = Len(s) + 1, v[1] = x, \A k \in 1 .. Len(s) : v[k + 1] = s[k]
  PROVE  Circle(v)
<1>1. PICK l \in Nat : l = Len(s) /\ l > 0
  BY StackIs
<1>2. /\ 1 \in 1 .. l /\ l \in 1 .. l /\ (\A k \in 1 .. l : s[k] \in Int /\ s[k] \in Elements(s) /\ s[k] # x)
      /\ \A j, k \in 1 .. l : s[j] = s[k] => j = k
  <2>1. 1 \in 1 .. l /\ l \in 1 .. l
    BY <1>1
  <2>2. \A k \in 1 .. l : s[k] \in Int /\ s[k] \in Elements(s)
    BY <1>1, StackIs
  <2>3. \A k \in 1 .. l : s[k] # x
    BY <2>2
  <2>4. \A j, k \in 1 .. l : s[j] = s[k] => j = k
    BY <1>1 DEF Stack
  <2> QED BY <2>1, <2>2, <2>3, <2>4
<1>3. \A j, k \in 1 .. l : ~Within(s[k], s[After(k, l)], s[j])
  BY <1>1 DEF Circle
<1>4. PICK y \in Int : y = s[1]
  BY <1>2
<1>5. IF \E z \in Elements(s) : z > x THEN y > x /\ \A k \in 1 .. l : s[k] > x => y =< s[k] ELSE \A k \in 1 .. l : ~(s[k] > x) /\ y =< s[k]
  BY <1>2, <1>4 DEF IsNext
<1>6. y > x \/ \A k \in 1 .. l : s[k] < x /\ y =< s[k]
  BY <1>2, <1>5
<1>7. y > x => \A k \in 1 .. l : s[k] > x => y =< s[k]
  <2>1. \E z \in Elements(s) : y > x => z > x
    BY <1>2, <1>4
  <2> QED BY <1>2, <1>4, <1>5
<1>8. \A k \in 1 .. l : After(k, l) = IF k = l THEN 1 ELSE k + 1
  BY <1>1 DEF After
\* From x to the old top.
<1>9. \A j \in 1 .. l : ~Within(x, y, s[j])
  BY <1>2, <1>4, <1>6, <1>7 DEF Within
<1>10. ~Within(x, y, x)
  BY <1>4 DEF Within
\* From the last to x.
<1>11. \A j \in 1 .. l : ~Within(s[l], x, s[j])
  <2>1. \A j \in 1 .. l : ~Within(s[l], y, s[j])
    BY <1>1, <1>2, <1>3, <1>4, <1>8
  <2>2. l = 1 \/ s[l] # y
    BY <1>2, <1>4
  <2>3. CASE l = 1
    <3>1. \A j \in 1 .. l : s[j] = y
      BY <1>4, <2>3
    <3> QED BY <1>2, <1>4, <3>1 DEF Within
  <2>4. CASE s[l] # y
    BY <1>2, <1>4, <1>6, <1>7, <2>1, <2>4 DEF Within
  <2> QED BY <2>2, <2>3, <2>4
<1>12. ~Within(s[l], x, x)
  BY <1>2 DEF Within
\* Between two others.
<1>13. ASSUME NEW k \in 1 .. l, k # l PROVE ~Within(s[k], s[k + 1], x)
  <2>1. k + 1 \in 1 .. l /\ s[k + 1] # y /\ After(k, l) = k + 1
    BY <1>1, <1>2, <1>4, <1>8, <1>13
  <2>2. ~Within(s[k], s[k + 1], y)
    BY <1>2, <1>3, <1>4, <2>1
  <2> QED BY <1>2, <1>4, <1>6, <1>7, <2>1, <2>2 DEF Within
<1>14. \A k \in 1 .. l + 1 : k = 1 \/ (k - 1 \in 1 .. l /\ v[k] = s[k - 1])
  <2>1. ASSUME NEW k \in 1 .. l + 1, k # 1 PROVE k - 1 \in 1 .. l /\ v[k] = s[k - 1]
    <3>1. k - 1 \in 1 .. l /\ (k - 1) + 1 = k
      BY <2>1
    <3> QED BY <1>1, <3>1
  <2> QED BY <2>1
<1>15. ASSUME NEW j \in 1 .. l + 1, NEW k \in 1 .. l + 1 PROVE ~Within(v[k], v[After(k, l + 1)], v[j])
  <2>1. CASE k = 1
    <3>1. After(k, l + 1) = 1 + 1 /\ v[After(k, l + 1)] = y
      BY <1>1, <1>2, <1>4, <2>1 DEF After
    <3> QED BY <1>9, <1>10, <1>14, <2>1, <3>1
  <2>2. CASE k = l + 1
    <3>1. After(k, l + 1) = 1 /\ k # 1
      BY <1>1, <2>2 DEF After
    <3>2. v[k] = s[l]
      BY <1>1, <1>2, <2>2
    <3> QED BY <1>11, <1>12, <1>14, <3>1, <3>2
  <2>3. CASE k # 1 /\ k # l + 1
    <3>1. After(k, l + 1) = k + 1 /\ k - 1 \in 1 .. l /\ k - 1 # l /\ k \in 1 .. l /\ (k - 1) + 1 = k
      BY <1>1, <2>3 DEF After
    <3>2. v[k] = s[k - 1] /\ v[k + 1] = s[k]
      BY <1>1, <3>1
    <3>3. ~Within(s[k - 1], s[k], x)
      BY <1>13, <3>1
    <3>4. \A p \in 1 .. l : ~Within(s[k - 1], s[k], s[p])
      BY <1>3, <1>8, <3>1
    <3> QED BY <1>14, <3>1, <3>2, <3>3, <3>4
  <2> QED BY <2>1, <2>2, <2>3
<1> QED BY <1>1, <1>15 DEF Circle

-----------------------------------------------------------------------------
(* push_swap: ranks, and the choice of the next element.                        *)

\* Different numbers have different ranks, and each rank is had.
LEMMA RanksAre ==
  ASSUME NEW n \in Nat, NEW f \in [1 .. n -> Int], \A j, k \in 1 .. n : f[j] = f[k] => j = k,
         NEW r, r = [k \in 1 .. n |-> Cardinality({j \in 1 .. n : f[j] =< f[k]})]
  PROVE  r \in Seq(1 .. n) /\ Shared(r, <<>>, n)
<1> DEFINE Upto(k) == {j \in 1 .. n : f[j] =< f[k]}
<1>1. IsFiniteSet(1 .. n) /\ Cardinality(1 .. n) = n
  BY FS_Interval
<1>2. \A k : IsFiniteSet(Upto(k)) /\ Cardinality(Upto(k)) \in Nat /\ Cardinality(Upto(k)) =< n
  <2> SUFFICES ASSUME NEW k PROVE IsFiniteSet(Upto(k)) /\ Cardinality(Upto(k)) \in Nat /\ Cardinality(Upto(k)) =< n
    OBVIOUS
  <2>1. Upto(k) \in SUBSET (1 .. n)
    OBVIOUS
  <2> HIDE DEF Upto
  <2>2. IsFiniteSet(Upto(k)) /\ Cardinality(Upto(k)) =< n
    BY <1>1, <2>1, FS_Subset
  <2> QED BY <2>2, FS_CardinalityType
<1>3. ASSUME NEW k \in 1 .. n PROVE r[k] = Cardinality(Upto(k)) /\ r[k] \in 1 .. n
  <2>1. r[k] = Cardinality(Upto(k))
    OBVIOUS
  <2>2. f[k] \in Int
    OBVIOUS
  <2>3. k \in Upto(k)
    BY <2>2
  <2>4. PICK U : U = Upto(k)
    OBVIOUS
  <2> HIDE DEF Upto
  <2>5. IsFiniteSet(U) /\ Cardinality(U) \in Nat /\ Cardinality(U) =< n /\ U # {}
    BY <1>2, <2>3, <2>4
  <2>6. Cardinality(U) # 0
    BY <2>5, FS_EmptySet
  <2>7. Cardinality(U) \in 1 .. n
    BY <2>5, <2>6
  <2> QED BY <2>1, <2>4, <2>7
<1>4. ASSUME NEW j \in 1 .. n, NEW k \in 1 .. n, f[j] < f[k] PROVE r[j] < r[k]
  <2>0. (\A i \in 1 .. n : f[i] \in Int) /\ f[j] \in Int /\ f[k] \in Int
    OBVIOUS
  <2>1. Upto(j) \subseteq Upto(k) /\ k \in Upto(k) /\ k \notin Upto(j)
    <3>1. ASSUME NEW i \in 1 .. n, f[i] =< f[j] PROVE f[i] =< f[k]
      BY <1>4, <2>0, <3>1
    <3>2. ~(f[k] =< f[j]) /\ f[k] =< f[k]
      BY <1>4, <2>0
    <3> QED BY <3>1, <3>2
  <2> HIDE DEF Upto
  <2>2. Upto(j) \in SUBSET Upto(k) /\ Upto(j) # Upto(k)
    BY <2>1
  <2>3. PICK U, V : U = Upto(j) /\ V = Upto(k)
    OBVIOUS
  <2>4. U \in SUBSET V /\ U # V /\ IsFiniteSet(V)
    BY <1>2, <2>2, <2>3
  <2>5. Cardinality(U) =< Cardinality(V) /\ Cardinality(U) # Cardinality(V)
    BY <2>4, FS_Subset
  <2>6. r[j] = Cardinality(U) /\ r[k] = Cardinality(V) /\ Cardinality(U) \in Nat /\ Cardinality(V) \in Nat
    BY <1>2, <1>3, <2>3
  <2> QED BY <2>5, <2>6
<1>5. \A j, k \in 1 .. n : r[j] = r[k] => j = k
  <2>1. ASSUME NEW j \in 1 .. n, NEW k \in 1 .. n, r[j] = r[k] PROVE f[j] = f[k]
    <3>1. r[j] \in Int /\ r[k] \in Int /\ f[j] \in Int /\ f[k] \in Int
      BY <1>3
    <3>2. ASSUME f[j] < f[k] PROVE FALSE
      <4>1. r[j] < r[k]
        BY <1>4, <3>2
      <4> QED BY <2>1, <3>1, <4>1
    <3>3. ASSUME f[k] < f[j] PROVE FALSE
      <4>1. r[k] < r[j]
        BY <1>4, <3>3
      <4> QED BY <2>1, <3>1, <4>1
    <3> QED BY <3>1, <3>2, <3>3
  <2> QED BY <2>1
<1>6. r \in [1 .. n -> 1 .. n] /\ DOMAIN r = 1 .. n
  <2>1. \A k \in 1 .. n : r[k] \in 1 .. n
    BY <1>3
  <2> QED BY <2>1
<1>7. \A x \in 1 .. n : \E k \in 1 .. n : r[k] = x
  <2>1. r \in Injection(1 .. n, 1 .. n)
    BY <1>5, <1>6 DEF Injection, IsInjective
  <2>2. r \in Surjection(1 .. n, 1 .. n)
    BY <1>1, <2>1, FS_Injection
  <2> QED BY <2>2 DEF Surjection
<1>8. PICK s : s = r
  OBVIOUS
<1>9. s \in Seq(1 .. n) /\ Len(s) = n
  BY <1>6, <1>8
<1>10. Stack(s, n)
  <2>1. \A j, k \in 1 .. n : s[j] = s[k] => j = k
    BY <1>5, <1>8, Zenon
  <2>2. \A j, k \in 1 .. Len(s) : s[j] = s[k] => j = k
    BY <1>9, <2>1
  <2> QED BY <1>9, <2>2 DEF Stack
<1>11. Elements(s) = 1 .. n
  <2>1. \A x \in Elements(s) : x \in 1 .. n
    BY <1>6, <1>8, <1>9 DEF Elements
  <2>2. \A x \in 1 .. n : x \in Elements(s)
    BY <1>7, <1>8, <1>9 DEF Elements
  <2> QED BY <2>1, <2>2
<1>12. PICK e : e = <<>>
  OBVIOUS
<1>13. e \in Seq(1 .. n) /\ Len(e) = 0
  BY <1>12
<1>14. Stack(e, n) /\ Elements(e) = {}
  BY <1>13 DEF Stack, Elements
<1>15. Len(s) + Len(e) = n
  BY <1>9, <1>13
<1>16. Elements(s) \cap Elements(e) = {} /\ Elements(s) \cup Elements(e) = 1 .. n
  BY <1>11, <1>14
<1>17. Shared(s, e, n)
  BY <1>10, <1>14, <1>15, <1>16 DEF Shared
<1> QED BY <1>8, <1>9, <1>12, <1>17

\* The least of some numbers.
LEMMA LeastOfIs ==
  ASSUME NEW S \in SUBSET Nat, S # {}
  PROVE  P!LeastOf(S) \in S /\ \A x \in S : P!LeastOf(S) =< x
<1>1. \E x \in S : \A y \in S : x =< y
  BY LeastOf
<1> QED BY <1>1 DEF P!LeastOf

\* The range of a stack are its elements.
LEMMA RangeIs ==
  ASSUME NEW n \in Nat, NEW s, Stack(s, n)
  PROVE  P!Range(s) = Elements(s)
BY StackIs DEF P!Range, Elements

\* get_lowest() finds the element that comes next.
LEMMA NextOfIs ==
  ASSUME NEW n \in Nat, Stack(stack_a, n), Len(stack_a) > 0, NEW x \in 1 .. n
  PROVE  IsNext(stack_a, x, P!NextOf(x))
<1>1. P!Range(stack_a) = Elements(stack_a)
  BY RangeIs
<1>2. PICK E : E = Elements(stack_a)
  OBVIOUS
<1>3. E \in SUBSET Nat /\ E # {}
  <2>1. Len(stack_a) \in Nat /\ \A k \in 1 .. Len(stack_a) : stack_a[k] \in 1 .. n
    BY StackIs
  <2> QED BY <1>2, <2>1 DEF Elements
<1>4. PICK A : A = {y \in E : y > x}
  OBVIOUS
<1>5. P!NextOf(x) = P!LeastOf(IF A # {} THEN A ELSE E)
  BY <1>1, <1>2, <1>4 DEF P!NextOf, P!Above
<1>6. CASE A # {}
  <2>1. A \in SUBSET Nat
    BY <1>3, <1>4
  <2>2. P!NextOf(x) \in A /\ \A y \in A : P!NextOf(x) =< y
    BY <1>5, <1>6, <2>1, LeastOfIs
  <2> QED BY <1>2, <1>4, <1>6, <2>2 DEF IsNext
<1>7. CASE A = {}
  <2>1. P!NextOf(x) \in E /\ \A y \in E : P!NextOf(x) =< y
    BY <1>3, <1>5, <1>7, LeastOfIs
  <2> QED BY <1>2, <1>4, <1>7, <2>1 DEF IsNext
<1> QED BY <1>6, <1>7

\* A position counts from 0.
LEMMA PositionIs ==
  ASSUME NEW n \in Nat, NEW s, Stack(s, n), NEW x \in Elements(s)
  PROVE  P!Position(s, x) \in 0 .. Len(s) - 1 /\ s[P!Position(s, x) + 1] = x
<1>1. Len(s) \in Nat
  BY StackIs
<1>2. PICK I : I = {k \in 1 .. Len(s) : s[k] = x}
  OBVIOUS
<1>3. I \in SUBSET Nat /\ I # {}
  BY <1>1, <1>2 DEF Elements
<1>4. P!SelectInSeq(s, LAMBDA y : y = x) = P!Min(I)
  BY <1>2, <1>3, Zenon DEF P!SelectInSeq
<1>5. \E k \in I : \A j \in I : k =< j
  BY <1>3, LeastOf
<1>6. P!Min(I) \in I
  BY <1>5 DEF P!Min
<1>7. P!Position(s, x) = P!Min(I) - 1
  BY <1>4 DEF P!Position
<1> QED BY <1>1, <1>2, <1>6, <1>7

\* c rotations - those in reverse when it is negative - bring x to the top.
At0(c, l) == IF c < 0 THEN c + l ELSE c
Way(s, c, x) == c \in Int /\ -Len(s) < c /\ c < Len(s) /\ s[At0(c, Len(s)) + 1] = x

\* cost(): so many rotations bring the element to the top.
LEMMA CostIs ==
  ASSUME NEW n \in Nat, NEW s, Stack(s, n), NEW x \in Elements(s)
  PROVE  Way(s, P!Cost(P!Position(s, x), Len(s)), x)
<1>1. PICK l, p : l \in Nat /\ l = Len(s) /\ p = P!Position(s, x)
  BY StackIs
<1>2. p \in 0 .. l - 1 /\ s[p + 1] = x
  BY <1>1, PositionIs
<1>3. PICK c : c = P!Cost(p, l)
  OBVIOUS
<1>4. c = IF p > l \div 2 THEN p - l ELSE p
  BY <1>3 DEF P!Cost
<1>5. l \div 2 \in Nat /\ p \in Nat /\ p < l
  BY <1>1, <1>2
<1>6. c \in Int /\ -l < c /\ c < l /\ (IF c < 0 THEN c + l ELSE c) = p
  BY <1>1, <1>4, <1>5
<1> QED BY <1>1, <1>2, <1>3, <1>6 DEF Way, At0

\* With each rotation one less is left; and there is more than one element as long as any is.
LEMMA WayOn ==
  ASSUME NEW s, NEW t, Len(s) \in Nat, NEW c, NEW x, Way(s, c, x)
  PROVE  /\ c > 0 /\ Turning(s, t) => Way(t, c - 1, x) /\ Len(s) > 1
         /\ c < 0 /\ Turning(t, s) => Way(t, c + 1, x) /\ Len(s) > 1
<1>1. PICK l \in Nat : l = Len(s)
  OBVIOUS
<1>2. c \in Int /\ -l < c /\ c < l /\ s[At0(c, l) + 1] = x
  BY <1>1 DEF Way
<1>3. ASSUME c > 0, Turning(s, t) PROVE Way(t, c - 1, x) /\ l > 1
  <2>1. Len(t) = l /\ c \in 1 .. l /\ After(c, l) = c + 1 /\ At0(c, l) = c /\ At0(c - 1, l) + 1 = c
    BY <1>1, <1>2, <1>3 DEF Turning, After, At0
  <2>2. t[c] = x
    BY <1>1, <1>2, <1>3, <2>1 DEF Turning
  <2> QED BY <1>2, <1>3, <2>1, <2>2 DEF Way
<1>4. ASSUME c < 0, Turning(t, s) PROVE Way(t, c + 1, x) /\ l > 1
  <2>1. Len(t) = l /\ c + l + 1 \in 1 .. l /\ At0(c, l) = c + l
    BY <1>1, <1>2, <1>4 DEF Turning, At0
  <2>2. t[After(c + l + 1, l)] = x
    BY <1>1, <1>2, <1>4, <2>1 DEF Turning
  <2>3. At0(c + 1, l) + 1 = After(c + l + 1, l)
    BY <1>2, <1>4, <2>1 DEF At0, After
  <2> QED BY <1>2, <1>4, <2>1, <2>2, <2>3 DEF Way
<1> QED BY <1>1, <1>3, <1>4

\* The element that is chosen is on b.
LEMMA CheapestIs ==
  ASSUME NEW n \in Nat, Shared(stack_a, stack_b, n), Len(stack_a) > 0, Len(stack_b) > 0
  PROVE  P!Cheapest \in Elements(stack_b)
<1>1. Stack(stack_a, n) /\ Stack(stack_b, n)
  BY DEF Shared
<1>2. PICK l \in Nat : l = Len(stack_b) /\ DOMAIN stack_b = 1 .. l /\ l > 0
  BY <1>1, StackIs
<1>3. ASSUME NEW k \in 1 .. l PROVE P!Sum(P!CostsOf(stack_b[k])) \in Nat
  <2>1. PICK x : x = stack_b[k]
    OBVIOUS
  <2>2. x \in 1 .. n /\ x \in Elements(stack_b)
    BY <1>1, <1>2, <2>1, StackIs
  <2>3. P!NextOf(x) \in Elements(stack_a)
    BY <1>1, <2>2, NextOfIs DEF IsNext
  <2>4. P!Cost(P!Position(stack_a, P!NextOf(x)), Len(stack_a)) \in Int /\ P!Cost(P!Position(stack_b, x), Len(stack_b)) \in Int
    BY <1>1, <2>2, <2>3, CostIs DEF Way
  <2>5. PICK c \in Int, d \in Int : P!CostsOf(x) = <<c, d>>
    BY <2>4 DEF P!CostsOf
  <2>6. P!Sum(P!CostsOf(x)) = P!my_abs(c) + P!my_abs(d)
    BY <2>5 DEF P!Sum
  <2> QED BY <2>1, <2>6 DEF P!my_abs
<1> DEFINE F(k) == P!Sum(P!CostsOf(stack_b[k]))
           K == {k \in DOMAIN stack_b : \A j \in DOMAIN stack_b : F(k) =< F(j)}
           V == {F(k) : k \in 1 .. l}
<1>4. K # {}
  <2>1. 1 \in 1 .. l
    BY <1>2
  <2>2. V \in SUBSET Nat /\ V # {}
    BY <1>3, <2>1
  <2>3. PICK v \in V : \A w \in V : v =< w
    BY <2>2, LeastOf
  <2> QED BY <1>2, <2>3
<1>5. K \in SUBSET Nat
  BY <1>2
<1>6. P!LeastOf(K) \in K
  <2> HIDE DEF K
  <2> QED BY <1>4, <1>5, LeastOfIs
<1>7. P!LeastOf(K) \in 1 .. l
  BY <1>2, <1>6
<1>8. P!Cheapest = stack_b[P!LeastOf(K)]
  BY DEF P!Cheapest
<1> QED BY <1>1, <1>2, <1>7, <1>8, StackIs

-----------------------------------------------------------------------------
(* push_swap: what an operation does, and what is printed of it.                *)

\* The stacks hold the numbers, and they are as the printed operations make them.
Fine(n) == Shared(stack_a, stack_b, n) /\ told = <<stack_a, stack_b>>

\* The two stacks may be named the other way round.
LEMMA Mirrored ==
  ASSUME NEW n \in Nat, NEW s, NEW t, Shared(s, t, n)
  PROVE  Shared(t, s, n)
<1>1. Len(s) \in Nat /\ Len(t) \in Nat
  BY StackIs DEF Shared
<1>2. Len(t) + Len(s) = n
  BY <1>1 DEF Shared
<1>3. Elements(t) \cap Elements(s) = {} /\ Elements(t) \cup Elements(s) = 1 .. n
  BY DEF Shared
<1> QED BY <1>2, <1>3 DEF Shared

\* The two stacks hold all the numbers when one is rotated,
LEMMA SharedTurns ==
  ASSUME NEW n \in Nat, NEW s, NEW t, Shared(s, t, n), NEW u \in Seq(1 .. n), Turning(s, u) \/ Turning(u, s)
  PROVE  Shared(u, t, n) /\ Elements(u) = Elements(s) /\ Len(u) = Len(s)
<1>1. Stack(s, n) /\ s \in Seq(1 .. n)
  BY DEF Shared, Stack
<1>2. (Stack(s, n) <=> Stack(u, n)) /\ Elements(u) = Elements(s) /\ Len(u) = Len(s)
  BY <1>1, TurningKeeps DEF Turning
<1> QED BY <1>1, <1>2 DEF Shared

\* or swapped.
LEMMA SharedSwaps ==
  ASSUME NEW n \in Nat, NEW s, NEW t, Shared(s, t, n), NEW u \in Seq(1 .. n), Swapped(s, u), Len(s) > 1
  PROVE  Shared(u, t, n) /\ Len(u) = Len(s)
<1>1. Stack(s, n) /\ s \in Seq(1 .. n)
  BY DEF Shared, Stack
<1>2. Stack(u, n) /\ Elements(u) = Elements(s) /\ Len(u) = Len(s)
  BY <1>1, SwappedKeeps DEF Swapped
<1> QED BY <1>2 DEF Shared

\* A rotation of one element, which is not printed, changes nothing.
LEMMA DoTurnsA ==
  ASSUME NEW n \in Nat, Fine(n), NEW op \in {"ra", "rra"}, P!Do(op)
  PROVE  /\ Fine(n)' /\ stack_b' = stack_b /\ Elements(stack_a') = Elements(stack_a) /\ Len(stack_a') = Len(stack_a)
         /\ IF op = "ra" THEN Turning(stack_a, stack_a') ELSE Turning(stack_a', stack_a)
<1>1. PICK s, t : s = stack_a /\ t = stack_b
  OBVIOUS
<1>2. Shared(s, t, n) /\ told = <<s, t>> /\ s \in Seq(1 .. n) /\ told[1] = s /\ told[2] = t
  BY <1>1 DEF Fine, Shared, Stack
<1>3. PICK u : u = IF op = "ra" THEN P!Rotate(s) ELSE P!Reverse1(s)
  OBVIOUS
<1>4. u \in Seq(1 .. n) /\ IF op = "ra" THEN Turning(s, u) ELSE Turning(u, s)
  BY <1>2, <1>3, RotateIs, ReverseIs
<1>5. stack_a' = u /\ stack_b' = t
  BY <1>1, <1>3 DEF P!Do, P!Op
<1>6. told' = <<u, t>>
  <2>1. CASE Len(s) > 1
    BY <1>1, <1>2, <1>3, <2>1 DEF P!Do, P!IsPrinted, P!Meant
  <2>2. CASE ~(Len(s) > 1)
    <3>1. u = s /\ told' = told
      BY <1>1, <1>3, <2>2 DEF P!Do, P!IsPrinted, P!Rotate, P!Reverse1
    <3> QED BY <1>2, <3>1
  <2> QED BY <2>1, <2>2
<1>7. Shared(u, t, n) /\ Elements(u) = Elements(s) /\ Len(u) = Len(s)
  BY <1>2, <1>4, SharedTurns
<1> QED BY <1>1, <1>4, <1>5, <1>6, <1>7 DEF Fine

\* The same for b.
LEMMA DoTurnsB ==
  ASSUME NEW n \in Nat, Fine(n), NEW op \in {"rb", "rrb"}, P!Do(op)
  PROVE  /\ Fine(n)' /\ stack_a' = stack_a /\ Elements(stack_b') = Elements(stack_b) /\ Len(stack_b') = Len(stack_b)
         /\ IF op = "rb" THEN Turning(stack_b, stack_b') ELSE Turning(stack_b', stack_b)
<1>1. PICK s, t : s = stack_b /\ t = stack_a
  OBVIOUS
<1>2. Shared(s, t, n) /\ told = <<t, s>> /\ s \in Seq(1 .. n) /\ told[1] = t /\ told[2] = s
  <2>1. Shared(t, s, n)
    BY <1>1 DEF Fine
  <2>2. Shared(s, t, n)
    BY <2>1, Mirrored
  <2> QED BY <1>1, <2>2 DEF Fine, Shared, Stack
<1>3. PICK u : u = IF op = "rb" THEN P!Rotate(s) ELSE P!Reverse1(s)
  OBVIOUS
<1>4. u \in Seq(1 .. n) /\ IF op = "rb" THEN Turning(s, u) ELSE Turning(u, s)
  BY <1>2, <1>3, RotateIs, ReverseIs
<1>5. stack_b' = u /\ stack_a' = t
  BY <1>1, <1>3 DEF P!Do, P!Op
<1>6. told' = <<t, u>>
  <2>1. CASE Len(s) > 1
    BY <1>1, <1>2, <1>3, <2>1 DEF P!Do, P!IsPrinted, P!Meant
  <2>2. CASE ~(Len(s) > 1)
    <3>1. u = s /\ told' = told
      BY <1>1, <1>3, <2>2 DEF P!Do, P!IsPrinted, P!Rotate, P!Reverse1
    <3> QED BY <1>2, <3>1
  <2> QED BY <2>1, <2>2
<1>7. Shared(u, t, n) /\ Elements(u) = Elements(s) /\ Len(u) = Len(s)
  BY <1>2, <1>4, SharedTurns
<1>8. Shared(t, u, n)
  BY <1>7, Mirrored
<1> QED BY <1>1, <1>4, <1>5, <1>6, <1>7, <1>8 DEF Fine

\* A rotation of both is printed when b turns.
LEMMA DoTurnsBoth ==
  ASSUME NEW n \in Nat, Fine(n), NEW op \in {"rr", "rrr"}, P!Do(op), Len(stack_b) > 1
  PROVE  /\ Fine(n)'
         /\ Elements(stack_a') = Elements(stack_a) /\ Len(stack_a') = Len(stack_a)
         /\ Elements(stack_b') = Elements(stack_b) /\ Len(stack_b') = Len(stack_b)
         /\ IF op = "rr" THEN Turning(stack_a, stack_a') /\ Turning(stack_b, stack_b') ELSE Turning(stack_a', stack_a) /\ Turning(stack_b', stack_b)
<1>1. PICK s, t : s = stack_a /\ t = stack_b
  OBVIOUS
<1>2. Shared(s, t, n) /\ told = <<s, t>> /\ s \in Seq(1 .. n) /\ t \in Seq(1 .. n) /\ told[1] = s /\ told[2] = t
  BY <1>1 DEF Fine, Shared, Stack
<1>3. PICK u, v : u = (IF op = "rr" THEN P!Rotate(s) ELSE P!Reverse1(s)) /\ v = (IF op = "rr" THEN P!Rotate(t) ELSE P!Reverse1(t))
  OBVIOUS
<1>4. u \in Seq(1 .. n) /\ IF op = "rr" THEN Turning(s, u) ELSE Turning(u, s)
  BY <1>2, <1>3, RotateIs, ReverseIs
<1>5. v \in Seq(1 .. n) /\ IF op = "rr" THEN Turning(t, v) ELSE Turning(v, t)
  BY <1>2, <1>3, RotateIs, ReverseIs
<1>6. stack_a' = u /\ stack_b' = v
  BY <1>1, <1>3 DEF P!Do, P!Op
<1>7. told' = <<u, v>>
  BY <1>1, <1>2, <1>3 DEF P!Do, P!IsPrinted, P!Meant
<1>8. Shared(u, t, n) /\ Elements(u) = Elements(s) /\ Len(u) = Len(s)
  BY <1>2, <1>4, SharedTurns
<1>9. Shared(t, u, n)
  BY <1>8, Mirrored
<1>10. Shared(v, u, n) /\ Elements(v) = Elements(t) /\ Len(v) = Len(t)
  BY <1>5, <1>9, SharedTurns
<1>11. Shared(u, v, n)
  BY <1>10, Mirrored
<1> QED BY <1>1, <1>4, <1>5, <1>6, <1>7, <1>8, <1>10, <1>11 DEF Fine

\* sa is printed, since there are two at least.
LEMMA DoSwaps ==
  ASSUME NEW n \in Nat, Fine(n), P!Do("sa"), Len(stack_a) > 1
  PROVE  Fine(n)' /\ stack_b' = stack_b /\ Len(stack_a') = Len(stack_a) /\ Swapped(stack_a, stack_a')
<1>1. PICK s, t : s = stack_a /\ t = stack_b
  OBVIOUS
<1>2. Shared(s, t, n) /\ told = <<s, t>> /\ s \in Seq(1 .. n) /\ told[1] = s /\ told[2] = t /\ Len(s) > 1
  BY <1>1 DEF Fine, Shared, Stack
<1>3. PICK u : u = P!Swap(s)
  OBVIOUS
<1>4. u \in Seq(1 .. n) /\ Swapped(s, u)
  BY <1>2, <1>3, SwapIs
<1>5. stack_a' = u /\ stack_b' = t
  BY <1>1, <1>3 DEF P!Do, P!Op
<1>6. told' = <<u, t>>
  BY <1>1, <1>2, <1>3 DEF P!Do, P!IsPrinted, P!Meant
<1>7. Shared(u, t, n) /\ Len(u) = Len(s)
  BY <1>2, <1>4, SharedSwaps
<1> QED BY <1>1, <1>4, <1>5, <1>6, <1>7 DEF Fine

\* pb: the top of a is put on b.
LEMMA DoPushesB ==
  ASSUME NEW n \in Nat, Fine(n), P!Do("pb"), Len(stack_a) > 0
  PROVE  Fine(n)' /\ Pushed(stack_a, stack_b, stack_a', stack_b')
<1>1. PICK s, t : s = stack_a /\ t = stack_b
  OBVIOUS
<1>2. Shared(s, t, n) /\ told = <<s, t>> /\ s \in Seq(1 .. n) /\ t \in Seq(1 .. n) /\ told[1] = s /\ told[2] = t /\ Len(s) > 0
  BY <1>1 DEF Fine, Shared, Stack
<1>3. PICK u, v : u = Tail(s) /\ v = <<Head(s)>> \o t
  OBVIOUS
<1>4. u \in Seq(1 .. n) /\ v \in Seq(1 .. n) /\ Pushed(s, t, u, v)
  BY <1>2, <1>3, PushIs
<1>5. stack_a' = u /\ stack_b' = v
  BY <1>1, <1>3 DEF P!Do, P!Op
<1>6. told' = <<u, v>>
  BY <1>1, <1>2, <1>3 DEF P!Do, P!IsPrinted, P!Meant
<1>7. Shared(u, v, n)
  BY <1>2, <1>4, PushedKeeps
<1> QED BY <1>1, <1>4, <1>5, <1>6, <1>7 DEF Fine

\* pa: the top of b is put on a.
LEMMA DoPushesA ==
  ASSUME NEW n \in Nat, Fine(n), P!Do("pa"), Len(stack_b) > 0
  PROVE  Fine(n)' /\ Pushed(stack_b, stack_a, stack_b', stack_a')
<1>1. PICK s, t : s = stack_b /\ t = stack_a
  OBVIOUS
<1>2. Shared(s, t, n) /\ told = <<t, s>> /\ s \in Seq(1 .. n) /\ t \in Seq(1 .. n) /\ told[1] = t /\ told[2] = s /\ Len(s) > 0
  <2>1. Shared(t, s, n)
    BY <1>1 DEF Fine
  <2>2. Shared(s, t, n)
    BY <2>1, Mirrored
  <2> QED BY <1>1, <2>2 DEF Fine, Shared, Stack
<1>3. PICK u, v : u = Tail(s) /\ v = <<Head(s)>> \o t
  OBVIOUS
<1>4. u \in Seq(1 .. n) /\ v \in Seq(1 .. n) /\ Pushed(s, t, u, v)
  BY <1>2, <1>3, PushIs
<1>5. stack_b' = u /\ stack_a' = v
  BY <1>1, <1>3 DEF P!Do, P!Op
<1>6. told' = <<v, u>>
  BY <1>1, <1>2, <1>3 DEF P!Do, P!IsPrinted, P!Meant
<1>7. Shared(u, v, n)
  BY <1>2, <1>4, PushedKeeps
<1>8. Shared(v, u, n)
  BY <1>7, Mirrored
<1> QED BY <1>1, <1>4, <1>5, <1>6, <1>8 DEF Fine

-----------------------------------------------------------------------------
(* push_swap: the invariant, and the steps of two and three numbers.            *)

\* What each part of the sort relies on, when there are n numbers.
Few(n)  == /\ pc = "two"   => Len(stack_a) = 2 /\ Len(stack_b) = 0 /\ ~P!Sorted(stack_a)
           /\ pc = "three" => Len(stack_a) = 3
           /\ pc = "swap"  => Len(stack_a) = 3 /\ stack_a[3] > stack_a[1] /\ stack_a[3] > stack_a[2]
           /\ pc \in {"half", "rest"} => n > 3 /\ Len(stack_b) =< n - 3
Many(n) == /\ pc \in {"target", "move", "adjust", "turn"} => Circle(stack_a) /\ Len(stack_a) > 0
           /\ pc \in {"adjust", "turn", "done"} => Len(stack_b) = 0
           /\ pc = "move" => \E c, d \in Int, x \in Elements(stack_b), y \in Elements(stack_a) :
                               costs = <<c, d>> /\ IsNext(stack_a, x, y) /\ Way(stack_a, c, y) /\ Way(stack_b, d, x)
           /\ pc = "turn" => Way(stack_a, turns, 1)
           /\ pc = "done" => P!Sorted(stack_a)
Places == {"two", "three", "swap", "half", "rest", "target", "move", "adjust", "turn", "done"}
Sorting(n) == pc \in Places /\ Fine(n) /\ Few(n) /\ Many(n)

\* What is on the two stacks, when they are as printed.
LEMMA FineIs ==
  ASSUME NEW n \in Nat, Fine(n)
  PROVE  /\ Len(stack_a) \in Nat /\ Len(stack_b) \in Nat /\ Len(stack_a) + Len(stack_b) = n
         /\ Stack(stack_a, n) /\ Stack(stack_b, n) /\ Shared(stack_a, stack_b, n)
BY StackIs DEF Fine, Shared

\* Two numbers that are not sorted are sorted when they are swapped.
LEMMA TwoKeeps ==
  ASSUME NEW n \in Nat, Sorting(n), P!Two
  PROVE  Sorting(n)'
<1>1. pc = "two" /\ P!Do("sa") /\ pc' = "adjust" /\ Fine(n) /\ Len(stack_a) = 2 /\ Len(stack_b) = 0 /\ ~P!Sorted(stack_a)
  BY DEF P!Two, Sorting, Few
<1>2. Fine(n)' /\ stack_b' = stack_b /\ Len(stack_a') = 2 /\ Swapped(stack_a, stack_a')
  BY <1>1, DoSwaps
<1>3. PICK s, t : s = stack_a /\ t = stack_a'
  OBVIOUS
<1>4. Stack(s, n) /\ Stack(t, n)
  BY <1>1, <1>2, <1>3 DEF Fine, Shared
<1>5. t[1] = s[2] /\ t[2] = s[1] /\ s[1] \in Int /\ s[2] \in Int
  <2>1. Len(s) = 2
    BY <1>1, <1>3, Zenon
  <2>2. 1 \in 1 .. Len(s) /\ 2 \in 1 .. Len(s)
    BY <2>1
  <2> QED BY <1>2, <1>3, <1>4, <2>2, StackIs DEF Swapped
<1>6. P!Sorted(t)
  <2>1. Len(s) = 2 /\ Len(t) = 2 /\ ~P!Sorted(s)
    BY <1>1, <1>2, <1>3
  <2>2. \A k \in 1 .. 2 - 1 : k = 1
    OBVIOUS
  <2>3. ~(s[1] =< s[1 + 1])
    BY <2>1, <2>2 DEF P!Sorted
  <2>4. t[1] =< t[1 + 1]
    BY <1>5, <2>3
  <2> QED BY <2>1, <2>2, <2>4 DEF P!Sorted
<1>7. Circle(t)
  BY <1>2, <1>3, <1>4, <1>6, FewSorted
<1> QED BY <1>1, <1>2, <1>3, <1>7 DEF Sorting, Few, Many, Places

\* One turn at most brings the largest of three to the bottom.
LEMMA ThreeKeeps ==
  ASSUME NEW n \in Nat, Sorting(n), P!Three
  PROVE  Sorting(n)'
<1>1. pc = "three" /\ Fine(n) /\ Len(stack_a) = 3
  BY DEF P!Three, Sorting, Few
<1>2. PICK s, t : s = stack_a /\ t = stack_a'
  OBVIOUS
<1>3. Stack(s, n) /\ Len(s) = 3
  BY <1>1, <1>2 DEF Fine, Shared
<1>4. s[1] \in Int /\ s[2] \in Int /\ s[3] \in Int /\ s[1] # s[2] /\ s[2] # s[3] /\ s[1] # s[3]
  <2>1. 1 \in 1 .. Len(s) /\ 2 \in 1 .. Len(s) /\ 3 \in 1 .. Len(s)
    BY <1>3
  <2>2. \A k \in 1 .. Len(s) : s[k] \in Int
    BY <1>3, StackIs
  <2>3. (s[1] = s[2] => 1 = 2) /\ (s[2] = s[3] => 2 = 3) /\ (s[1] = s[3] => 1 = 3)
    BY <1>3, <2>1 DEF Stack
  <2> QED BY <2>1, <2>2, <2>3
<1>5. CASE P!Sorted(stack_a)
  <2>1. UNCHANGED <<stack_a, stack_b, told>> /\ pc' = "target"
    BY <1>5 DEF P!Three
  <2>2. Circle(s)
    BY <1>2, <1>3, <1>5, FewSorted
  <2>3. Fine(n)'
    BY <1>1, <2>1 DEF Fine
  <2> QED BY <1>2, <1>3, <2>1, <2>2, <2>3 DEF Sorting, Few, Many, Places
<1>6. CASE ~P!Sorted(stack_a)
  <2>1. pc' = "swap"
    BY <1>6 DEF P!Three
  <2>2. ~(s[1] < s[2] /\ s[2] < s[3])
    <3>1. \A k \in 1 .. 3 - 1 : k = 1 \/ k = 2
      OBVIOUS
    <3>2. ~(s[1] =< s[1 + 1]) \/ ~(s[2] =< s[2 + 1])
      BY <1>2, <1>3, <1>6, <3>1 DEF P!Sorted
    <3> QED BY <1>4, <3>2
  <2>3. CASE P!Turn = "none"
    <3>1. UNCHANGED <<stack_a, stack_b, told>>
      BY <1>6, <2>3 DEF P!Three
    <3>2. ~(s[1] > s[2] /\ s[1] > s[3]) /\ ~(s[2] > s[1])
      BY <1>2, <2>3 DEF P!Turn
    <3>3. s[3] > s[1] /\ s[3] > s[2]
      BY <1>4, <3>2
    <3>4. Fine(n)'
      BY <1>1, <3>1 DEF Fine
    <3> QED BY <1>2, <1>3, <2>1, <3>1, <3>3, <3>4 DEF Sorting, Few, Many, Places
  <2>4. CASE P!Turn = "ra"
    <3>1. P!Do("ra")
      BY <1>6, <2>4 DEF P!Three
    <3>2. Fine(n)' /\ Len(t) = 3 /\ Turning(s, t)
      BY <1>1, <1>2, <3>1, DoTurnsA
    <3>3. s[1] > s[2] /\ s[1] > s[3]
      BY <1>2, <2>4 DEF P!Turn
    <3>4. t[1] = s[2] /\ t[2] = s[3] /\ t[3] = s[1]
      <4>1. 1 \in 1 .. 3 /\ 2 \in 1 .. 3 /\ 3 \in 1 .. 3 /\ After(1, 3) = 2 /\ After(2, 3) = 3 /\ After(3, 3) = 1
        BY DEF After
      <4> QED BY <1>3, <3>2, <4>1 DEF Turning
    <3> QED BY <1>2, <2>1, <3>2, <3>3, <3>4 DEF Sorting, Few, Many, Places
  <2>5. CASE P!Turn = "rra"
    <3>1. P!Do("rra")
      BY <1>6, <2>5 DEF P!Three
    <3>2. Fine(n)' /\ Len(t) = 3 /\ Turning(t, s)
      BY <1>1, <1>2, <3>1, DoTurnsA
    <3>3. s[2] > s[1] /\ s[2] > s[3]
      <4>1. s[2] > s[1]
        BY <1>2, <2>5 DEF P!Turn
      <4> QED BY <1>4, <2>2, <4>1
    <3>4. s[1] = t[2] /\ s[2] = t[3] /\ s[3] = t[1]
      <4>1. 1 \in 1 .. 3 /\ 2 \in 1 .. 3 /\ 3 \in 1 .. 3 /\ After(1, 3) = 2 /\ After(2, 3) = 3 /\ After(3, 3) = 1
        BY DEF After
      <4> QED BY <1>3, <3>2, <4>1 DEF Turning
    <3> QED BY <1>2, <2>1, <3>2, <3>3, <3>4 DEF Sorting, Few, Many, Places
  <2>6. P!Turn \in {"none", "ra", "rra"}
    BY DEF P!Turn
  <2> QED BY <2>3, <2>4, <2>5, <2>6
<1> QED BY <1>5, <1>6

\* With the largest of three at the bottom, a swap at most sorts them.
LEMMA SwapThreeKeeps ==
  ASSUME NEW n \in Nat, Sorting(n), P!SwapThree
  PROVE  Sorting(n)'
<1>1. pc = "swap" /\ Fine(n) /\ Len(stack_a) = 3 /\ stack_a[3] > stack_a[1] /\ stack_a[3] > stack_a[2]
  BY DEF P!SwapThree, Sorting, Few
<1>2. PICK s, t : s = stack_a /\ t = stack_a'
  OBVIOUS
<1>3. Stack(s, n) /\ Len(s) = 3 /\ Len(stack_b) \in Nat
  BY <1>1, <1>2, StackIs DEF Fine, Shared
<1>4. s[1] \in Int /\ s[2] \in Int /\ s[3] \in Int
  <2>1. 1 \in 1 .. Len(s) /\ 2 \in 1 .. Len(s) /\ 3 \in 1 .. Len(s)
    BY <1>3
  <2> QED BY <1>3, <2>1, StackIs
<1>5. Fine(n)' /\ stack_b' = stack_b /\ Len(t) = 3 /\ t[1] =< t[2] /\ t[2] =< t[3]
  <2>1. CASE s[1] > s[2]
    <3>1. P!Do("sa")
      BY <1>2, <2>1 DEF P!SwapThree
    <3>2. Fine(n)' /\ stack_b' = stack_b /\ Len(t) = 3 /\ Swapped(s, t)
      BY <1>1, <1>2, <3>1, DoSwaps
    <3>3. t[1] = s[2] /\ t[2] = s[1] /\ t[3] = s[3]
      <4>1. 3 \in 3 .. Len(s)
        BY <1>3
      <4> QED BY <3>2, <4>1 DEF Swapped
    <3> QED BY <1>1, <1>2, <1>4, <2>1, <3>2, <3>3
  <2>2. CASE ~(s[1] > s[2])
    <3>1. UNCHANGED <<stack_a, stack_b, told>>
      BY <1>2, <2>2 DEF P!SwapThree
    <3>2. Fine(n)'
      BY <1>1, <3>1 DEF Fine
    <3> QED BY <1>1, <1>2, <1>3, <1>4, <2>2, <3>1, <3>2
  <2> QED BY <2>1, <2>2
<1>6. P!Sorted(t)
  <2>1. \A k \in 1 .. 3 - 1 : k = 1 \/ k = 2
    OBVIOUS
  <2>2. t[1] =< t[1 + 1] /\ t[2] =< t[2 + 1]
    BY <1>5
  <2> QED BY <1>5, <2>1, <2>2 DEF P!Sorted
<1>7. Stack(t, n)
  BY <1>2, <1>5 DEF Fine, Shared
<1>8. Circle(t)
  BY <1>5, <1>6, <1>7, FewSorted
<1>9. pc' = (IF stack_b = <<>> THEN "adjust" ELSE "target")
  BY DEF P!SwapThree
<1>10. stack_b = <<>> => Len(stack_b) = 0
  OBVIOUS
<1> QED BY <1>2, <1>5, <1>8, <1>9, <1>10 DEF Sorting, Few, Many, Places

-----------------------------------------------------------------------------
(* push_swap: the steps of more numbers.                                        *)

\* The lower half is put on b, and three at least stay on a.
LEMMA HalfKeeps ==
  ASSUME NEW n \in Nat, P!len = n, Sorting(n), P!Half
  PROVE  Sorting(n)'
<1>1. pc = "half" /\ Fine(n) /\ n > 3 /\ Len(stack_b) =< n - 3 /\ Len(stack_a) \in Nat /\ Len(stack_b) \in Nat /\ Len(stack_a) + Len(stack_b) = n
  BY FineIs DEF P!Half, Sorting, Few
<1>2. CASE n > 6 /\ turns < n /\ Len(stack_b) < n \div 2
  <2>1. pc' = "half" /\ P!Do(IF stack_a[1] =< n \div 2 THEN "pb" ELSE "ra")
    BY <1>1, <1>2 DEF P!Half
  <2>2. n \div 2 =< n - 3 /\ n \div 2 \in Nat
    BY <1>2
  <2>3. CASE stack_a[1] =< n \div 2
    <3>1. P!Do("pb") /\ Len(stack_a) > 0
      BY <1>1, <1>2, <2>1, <2>2, <2>3
    <3>2. Fine(n)' /\ Len(stack_b') = Len(stack_b) + 1
      BY <1>1, <3>1, DoPushesB DEF Pushed
    <3>3. Len(stack_b') =< n - 3
      BY <1>1, <1>2, <2>2, <3>2
    <3> QED BY <1>1, <2>1, <3>2, <3>3 DEF Sorting, Few, Many, Places
  <2>4. CASE ~(stack_a[1] =< n \div 2)
    <3>1. P!Do("ra")
      BY <2>1, <2>4
    <3>2. Fine(n)' /\ stack_b' = stack_b
      BY <1>1, <3>1, DoTurnsA
    <3> QED BY <1>1, <2>1, <3>2 DEF Sorting, Few, Many, Places
  <2> QED BY <2>3, <2>4
<1>3. CASE ~(n > 6 /\ turns < n /\ Len(stack_b) < n \div 2)
  <2>1. pc' = "rest" /\ UNCHANGED <<stack_a, stack_b, told>>
    BY <1>3 DEF P!Half
  <2>2. Fine(n)'
    BY <1>1, <2>1 DEF Fine
  <2> QED BY <1>1, <2>1, <2>2 DEF Sorting, Few, Many, Places
<1> QED BY <1>2, <1>3

\* All but three are put on b.
LEMMA RestKeeps ==
  ASSUME NEW n \in Nat, P!len = n, Sorting(n), P!Rest
  PROVE  Sorting(n)'
<1>1. pc = "rest" /\ Fine(n) /\ n > 3 /\ Len(stack_b) =< n - 3 /\ Len(stack_a) \in Nat /\ Len(stack_b) \in Nat /\ Len(stack_a) + Len(stack_b) = n
  BY FineIs DEF P!Rest, Sorting, Few
<1>2. CASE Len(stack_b) < n - 3
  <2>1. P!Do("pb") /\ pc' = "rest" /\ Len(stack_a) > 0
    BY <1>1, <1>2 DEF P!Rest
  <2>2. Fine(n)' /\ Len(stack_b') = Len(stack_b) + 1
    BY <1>1, <2>1, DoPushesB DEF Pushed
  <2>3. Len(stack_b') =< n - 3
    BY <1>1, <1>2, <2>2
  <2> QED BY <1>1, <2>1, <2>2, <2>3 DEF Sorting, Few, Many, Places
<1>3. CASE ~(Len(stack_b) < n - 3)
  <2>1. pc' = "three" /\ UNCHANGED <<stack_a, stack_b, told>>
    BY <1>3 DEF P!Rest
  <2>2. Fine(n)'
    BY <1>1, <2>1 DEF Fine
  <2>3. stack_a' = stack_a
    BY <2>1
  <2>4. PICK p, q : p = Len(stack_a) /\ q = Len(stack_b)
    OBVIOUS
  <2>5. p \in Nat /\ q \in Nat /\ p + q = n /\ q =< n - 3 /\ ~(q < n - 3)
    BY <1>1, <1>3, <2>4
  <2>6. p = 3
    BY <2>5
  <2> QED BY <2>1, <2>2, <2>3, <2>4, <2>6 DEF Sorting, Few, Many, Places
<1> QED BY <1>2, <1>3

\* The element that is chosen can be brought to the top of b, and the one next to it to the top of a.
LEMMA TargetKeeps ==
  ASSUME NEW n \in Nat, Sorting(n), P!Target
  PROVE  Sorting(n)'
<1>1. pc = "target" /\ Fine(n) /\ Circle(stack_a) /\ Len(stack_a) > 0 /\ UNCHANGED <<stack_a, stack_b, told>>
  BY DEF P!Target, Sorting, Many
<1>2. Fine(n)'
  BY <1>1 DEF Fine
<1>3. Stack(stack_a, n) /\ Stack(stack_b, n) /\ Shared(stack_a, stack_b, n) /\ Len(stack_b) \in Nat
  BY <1>1, FineIs
<1>4. CASE stack_b = <<>>
  <2>1. Len(stack_b) = 0 /\ pc' = "adjust"
    BY <1>4 DEF P!Target
  <2> QED BY <1>1, <1>2, <2>1 DEF Sorting, Few, Many, Places
<1>5. CASE stack_b # <<>>
  <2>1. Len(stack_b) > 0
    <3>1. stack_b \in Seq(1 .. n)
      BY <1>3 DEF Stack
    <3> QED BY <1>5, <3>1
  <2>2. PICK x : x = P!Cheapest
    OBVIOUS
  <2>3. x \in Elements(stack_b)
    BY <1>1, <1>3, <2>1, <2>2, CheapestIs
  <2>4. x \in 1 .. n
    BY <1>3, <2>3 DEF Shared
  <2>5. PICK y : y = P!NextOf(x)
    OBVIOUS
  <2>6. IsNext(stack_a, x, y)
    BY <1>1, <1>3, <2>4, <2>5, NextOfIs
  <2>7. y \in Elements(stack_a)
    BY <2>6 DEF IsNext
  <2>8. PICK c, d : c = P!Cost(P!Position(stack_a, y), Len(stack_a)) /\ d = P!Cost(P!Position(stack_b, x), Len(stack_b))
    OBVIOUS
  <2>9. Way(stack_a, c, y) /\ Way(stack_b, d, x)
    BY <1>3, <2>3, <2>7, <2>8, CostIs
  <2>10. costs' = <<c, d>> /\ pc' = "move"
    BY <1>5, <2>2, <2>5, <2>8 DEF P!Target, P!CostsOf
  <2>11. c \in Int /\ d \in Int
    BY <2>9 DEF Way
  <2> QED BY <1>1, <1>2, <2>3, <2>6, <2>7, <2>9, <2>10, <2>11 DEF Sorting, Few, Many, Places
<1> QED BY <1>4, <1>5

\* What comes next to an element depends on what is there, not on its order.
LEMMA NextStays ==
  ASSUME NEW s, NEW t, Elements(s) = Elements(t), NEW x, NEW y, IsNext(s, x, y)
  PROVE  IsNext(t, x, y)
BY DEF IsNext

\* Two ways to go are in the same direction, or the first is to be gone alone, or the second, or both are at their end.
LEMMA Ways ==
  ASSUME NEW c \in Int, NEW d \in Int
  PROVE  \/ c > 0 /\ d > 0
         \/ c < 0 /\ d < 0
         \/ ~(c > 0 /\ d > 0) /\ ~(c < 0 /\ d < 0) /\ c * d =< 0 /\ c # 0
         \/ c = 0 /\ d # 0
         \/ c = 0 /\ d = 0
<1>1. c > 0 /\ ~(d > 0) => c * d =< 0
  OBVIOUS
<1>2. c < 0 /\ ~(d < 0) => c * d =< 0
  OBVIOUS
<1> QED BY <1>1, <1>2

\* do_move(): each rotation shortens the ways, and at their end the element is put before the next.
LEMMA MoveKeeps ==
  ASSUME NEW n \in Nat, Sorting(n), P!Move
  PROVE  Sorting(n)'
<1>1. pc = "move" /\ Fine(n) /\ Circle(stack_a) /\ Len(stack_a) > 0
  BY DEF P!Move, Sorting, Many
<1>2. PICK c \in Int, d \in Int, x \in Elements(stack_b), y \in Elements(stack_a) :
        costs = <<c, d>> /\ IsNext(stack_a, x, y) /\ Way(stack_a, c, y) /\ Way(stack_b, d, x)
  BY <1>1 DEF Sorting, Many
<1>3. costs[1] = c /\ costs[2] = d
  BY <1>2
<1>4. Len(stack_a) \in Nat /\ Len(stack_b) \in Nat /\ Stack(stack_a, n) /\ Stack(stack_b, n) /\ Shared(stack_a, stack_b, n)
  BY <1>1, FineIs
\* The ways are gone on.
<1>5. ASSUME Fine(n)', pc' = pc, Len(stack_a') = Len(stack_a), Elements(stack_a') = Elements(stack_a), Elements(stack_b') = Elements(stack_b),
             Circle(stack_a'), NEW e \in Int, NEW f \in Int, costs' = <<e, f>>, Way(stack_a', e, y), Way(stack_b', f, x)
      PROVE  Sorting(n)'
  <2>1. IsNext(stack_a', x, y)
    BY <1>2, <1>5, NextStays
  <2>2. x \in Elements(stack_b') /\ y \in Elements(stack_a')
    BY <1>5
  <2> QED BY <1>1, <1>5, <2>1, <2>2 DEF Sorting, Few, Many, Places
<1>6. CASE c > 0 /\ d > 0
  <2>1. P!Do("rr") /\ costs' = <<P!Toward(c), P!Toward(d)>> /\ pc' = pc
    BY <1>3, <1>6 DEF P!Move
  <2>2. P!Toward(c) = c - 1 /\ P!Toward(d) = d - 1
    BY <1>6 DEF P!Toward
  <2>3. Len(stack_b) > 1
    BY <1>2, <1>6 DEF Way
  <2>4. /\ Fine(n)' /\ Elements(stack_a') = Elements(stack_a) /\ Len(stack_a') = Len(stack_a) /\ Elements(stack_b') = Elements(stack_b)
        /\ Turning(stack_a, stack_a') /\ Turning(stack_b, stack_b')
    BY <1>1, <2>1, <2>3, DoTurnsBoth
  <2>5. Circle(stack_a') /\ Way(stack_a', c - 1, y) /\ Way(stack_b', d - 1, x)
    BY <1>1, <1>2, <1>4, <1>6, <2>4, CircleTurns, WayOn
  <2> QED BY <1>5, <2>1, <2>2, <2>4, <2>5
<1>7. CASE c < 0 /\ d < 0
  <2>1. P!Do("rrr") /\ costs' = <<P!Toward(c), P!Toward(d)>> /\ pc' = pc
    BY <1>3, <1>7 DEF P!Move
  <2>2. P!Toward(c) = c + 1 /\ P!Toward(d) = d + 1
    BY <1>7 DEF P!Toward
  <2>3. Len(stack_b) > 1
    BY <1>2, <1>4, <1>7 DEF Way
  <2>4. /\ Fine(n)' /\ Elements(stack_a') = Elements(stack_a) /\ Len(stack_a') = Len(stack_a) /\ Elements(stack_b') = Elements(stack_b)
        /\ Turning(stack_a', stack_a) /\ Turning(stack_b', stack_b)
    BY <1>1, <2>1, <2>3, DoTurnsBoth
  <2>5. Circle(stack_a') /\ Way(stack_a', c + 1, y) /\ Way(stack_b', d + 1, x)
    BY <1>1, <1>2, <1>4, <1>7, <2>4, CircleTurns, WayOn
  <2> QED BY <1>5, <2>1, <2>2, <2>4, <2>5
<1>8. CASE ~(c > 0 /\ d > 0) /\ ~(c < 0 /\ d < 0) /\ c * d =< 0 /\ c # 0
  <2>1. P!Do(IF c > 0 THEN "ra" ELSE "rra") /\ costs' = <<P!Toward(c), d>> /\ pc' = pc
    BY <1>3, <1>8 DEF P!Move
  <2>2. P!Toward(c) = IF c > 0 THEN c - 1 ELSE c + 1
    BY <1>8 DEF P!Toward
  <2>3. PICK op \in {"ra", "rra"} : op = (IF c > 0 THEN "ra" ELSE "rra")
    OBVIOUS
  <2>4. /\ Fine(n)' /\ stack_b' = stack_b /\ Elements(stack_a') = Elements(stack_a) /\ Len(stack_a') = Len(stack_a)
        /\ IF op = "ra" THEN Turning(stack_a, stack_a') ELSE Turning(stack_a', stack_a)
    BY <1>1, <2>1, <2>3, DoTurnsA
  <2>5. CASE c > 0
    <3>1. Turning(stack_a, stack_a')
      BY <2>3, <2>4, <2>5
    <3>2. Circle(stack_a') /\ Way(stack_a', c - 1, y)
      BY <1>1, <1>2, <1>4, <2>5, <3>1, CircleTurns, WayOn
    <3>3. Way(stack_b', d, x) /\ costs' = <<c - 1, d>> /\ Elements(stack_b') = Elements(stack_b)
      BY <1>2, <2>1, <2>2, <2>4, <2>5
    <3> QED BY <1>5, <2>1, <2>4, <3>2, <3>3
  <2>6. CASE c < 0
    <3>1. Turning(stack_a', stack_a)
      BY <2>3, <2>4, <2>6
    <3>2. Circle(stack_a') /\ Way(stack_a', c + 1, y)
      BY <1>1, <1>2, <1>4, <2>4, <2>6, <3>1, CircleTurns, WayOn
    <3>3. Way(stack_b', d, x) /\ costs' = <<c + 1, d>> /\ Elements(stack_b') = Elements(stack_b)
      BY <1>2, <2>1, <2>2, <2>4, <2>6
    <3> QED BY <1>5, <2>1, <2>4, <3>2, <3>3
  <2> QED BY <1>8, <2>5, <2>6
<1>9. CASE c = 0 /\ d # 0
  <2>1. P!Do(IF d > 0 THEN "rb" ELSE "rrb") /\ costs' = <<c, P!Toward(d)>> /\ pc' = pc
    BY <1>3, <1>9 DEF P!Move
  <2>2. P!Toward(d) = IF d > 0 THEN d - 1 ELSE d + 1
    BY <1>9 DEF P!Toward
  <2>3. PICK op \in {"rb", "rrb"} : op = (IF d > 0 THEN "rb" ELSE "rrb")
    OBVIOUS
  <2>4. /\ Fine(n)' /\ stack_a' = stack_a /\ Elements(stack_b') = Elements(stack_b) /\ Len(stack_b') = Len(stack_b)
        /\ IF op = "rb" THEN Turning(stack_b, stack_b') ELSE Turning(stack_b', stack_b)
    BY <1>1, <2>1, <2>3, DoTurnsB
  <2>5. Circle(stack_a') /\ Way(stack_a', c, y) /\ Elements(stack_a') = Elements(stack_a) /\ Len(stack_a') = Len(stack_a)
    BY <1>1, <1>2, <2>4
  <2>6. CASE d > 0
    <3>1. Turning(stack_b, stack_b')
      BY <2>3, <2>4, <2>6
    <3>2. Way(stack_b', d - 1, x) /\ costs' = <<c, d - 1>>
      BY <1>2, <1>4, <2>1, <2>2, <2>6, <3>1, WayOn
    <3> QED BY <1>5, <2>1, <2>4, <2>5, <3>2
  <2>7. CASE d < 0
    <3>1. Turning(stack_b', stack_b)
      BY <2>3, <2>4, <2>7
    <3>2. Way(stack_b', d + 1, x) /\ costs' = <<c, d + 1>>
      BY <1>2, <1>4, <2>1, <2>2, <2>7, <3>1, WayOn
    <3> QED BY <1>5, <2>1, <2>4, <2>5, <3>2
  <2> QED BY <1>9, <2>6, <2>7
<1>10. CASE c = 0 /\ d = 0
  <2>1. P!Do("pa") /\ pc' = "target"
    BY <1>3, <1>10 DEF P!Move
  <2>2. Len(stack_b) > 0 /\ stack_a[1] = y /\ stack_b[1] = x
    BY <1>2, <1>4, <1>10 DEF Way, At0
  <2>3. Fine(n)' /\ Pushed(stack_b, stack_a, stack_b', stack_a')
    BY <1>1, <2>1, <2>2, DoPushesA
  <2>4. x \in 1 .. n /\ x \notin Elements(stack_a)
    BY <1>2, <1>4 DEF Shared
  <2>5. Len(stack_a') = Len(stack_a) + 1 /\ stack_a'[1] = x /\ \A k \in 1 .. Len(stack_a) : stack_a'[k + 1] = stack_a[k]
    BY <2>2, <2>3 DEF Pushed
  <2>6. PICK s, t : s = stack_a /\ t = stack_a'
    OBVIOUS
  <2>7. Stack(s, n) /\ Len(s) > 0 /\ Circle(s) /\ x \notin Elements(s) /\ IsNext(s, x, s[1])
    BY <1>1, <1>2, <1>4, <2>2, <2>4, <2>6
  <2>8. Len(t) = Len(s) + 1 /\ t[1] = x /\ \A k \in 1 .. Len(s) : t[k + 1] = s[k]
    BY <2>5, <2>6
  <2>9. Circle(t)
    BY <2>4, <2>7, <2>8, CircleGrows
  <2>10. Len(t) > 0
    BY <1>4, <2>6, <2>8
  <2> QED BY <2>1, <2>3, <2>6, <2>9, <2>10 DEF Sorting, Few, Many, Places
<1> QED BY <1>6, <1>7, <1>8, <1>9, <1>10, Ways

\* The least is on a, and can be brought to the top.
LEMMA AdjustKeeps ==
  ASSUME NEW n \in Nat, P!len = n, Sorting(n), P!Adjust
  PROVE  Sorting(n)'
<1>1. pc = "adjust" /\ Fine(n) /\ Circle(stack_a) /\ Len(stack_a) > 0 /\ Len(stack_b) = 0 /\ UNCHANGED <<stack_a, stack_b, told>>
  BY DEF P!Adjust, Sorting, Many
<1>2. Fine(n)'
  BY <1>1 DEF Fine
<1>3. Len(stack_a) = n /\ Stack(stack_a, n) /\ Shared(stack_a, stack_b, n)
  BY <1>1, FineIs
<1>4. CASE P!Sorted(stack_a)
  <2>1. pc' = "done"
    BY <1>4 DEF P!Adjust
  <2> QED BY <1>1, <1>2, <1>4, <2>1 DEF Sorting, Few, Many, Places
<1>5. CASE ~P!Sorted(stack_a)
  <2>1. pc' = "turn" /\ turns' = P!Cost(P!Position(stack_a, 1), Len(stack_a))
    BY <1>3, <1>5 DEF P!Adjust
  <2>2. 1 \in Elements(stack_a)
    <3>1. 1 \in 1 .. n
      BY <1>1, <1>3
    <3>2. Elements(stack_b) = {}
      BY <1>1 DEF Elements
    <3> QED BY <1>3, <3>1, <3>2 DEF Shared
  <2>3. Way(stack_a, turns', 1)
    BY <1>3, <2>1, <2>2, CostIs
  <2> QED BY <1>1, <1>2, <2>1, <2>3 DEF Sorting, Few, Many, Places
<1> QED BY <1>4, <1>5

\* With the least on top, a is sorted.
LEMMA TurnBackKeeps ==
  ASSUME NEW n \in Nat, Sorting(n), P!TurnBack
  PROVE  Sorting(n)'
<1>1. pc = "turn" /\ Fine(n) /\ Circle(stack_a) /\ Len(stack_a) > 0 /\ Len(stack_b) = 0 /\ Way(stack_a, turns, 1)
  BY DEF P!TurnBack, Sorting, Many
<1>2. Len(stack_a) \in Nat /\ Stack(stack_a, n)
  BY <1>1, FineIs
<1>3. PICK c \in Int : c = turns
  BY <1>1 DEF Way
<1>4. CASE c = 0
  <2>1. pc' = "done" /\ UNCHANGED <<stack_a, stack_b, told>>
    BY <1>3, <1>4 DEF P!TurnBack
  <2>2. stack_a[1] = 1
    BY <1>1, <1>2, <1>3, <1>4 DEF Way, At0
  <2>3. P!Sorted(stack_a)
    BY <1>1, <1>2, <2>2, LeastFirst
  <2>4. Fine(n)'
    BY <1>1, <2>1 DEF Fine
  <2> QED BY <1>1, <2>1, <2>3, <2>4 DEF Sorting, Few, Many, Places
<1>5. CASE c # 0
  <2>1. P!Do(IF c > 0 THEN "ra" ELSE "rra") /\ pc' = pc /\ turns' = IF c > 0 THEN c - 1 ELSE c + 1
    BY <1>3, <1>5 DEF P!TurnBack, P!Toward
  <2>2. PICK op \in {"ra", "rra"} : op = (IF c > 0 THEN "ra" ELSE "rra")
    OBVIOUS
  <2>3. /\ Fine(n)' /\ stack_b' = stack_b /\ Len(stack_a') = Len(stack_a)
        /\ IF op = "ra" THEN Turning(stack_a, stack_a') ELSE Turning(stack_a', stack_a)
    BY <1>1, <2>1, <2>2, DoTurnsA
  <2>4. CASE c > 0
    <3>1. Turning(stack_a, stack_a')
      BY <2>2, <2>3, <2>4
    <3>2. Circle(stack_a') /\ Way(stack_a', c - 1, 1)
      BY <1>1, <1>2, <1>3, <2>4, <3>1, CircleTurns, WayOn
    <3> QED BY <1>1, <2>1, <2>3, <2>4, <3>2 DEF Sorting, Few, Many, Places
  <2>5. CASE c < 0
    <3>1. Turning(stack_a', stack_a)
      BY <2>2, <2>3, <2>5
    <3>2. Circle(stack_a') /\ Way(stack_a', c + 1, 1)
      BY <1>1, <1>2, <1>3, <2>3, <2>5, <3>1, CircleTurns, WayOn
    <3> QED BY <1>1, <2>1, <2>3, <2>5, <3>2 DEF Sorting, Few, Many, Places
  <2> QED BY <1>5, <2>4, <2>5
<1> QED BY <1>4, <1>5

-----------------------------------------------------------------------------
(* push_swap: the value of a text of digits.                                    *)

Folded(g, d, S) == g = [s \in SUBSET S |-> IF s = {} THEN 0 ELSE g[s \ {P!Max(s)}] * 10 + Digits[d[P!Max(s)]]]

\* The value of a text is a fold over its places, from the last on.
LEMMA NumeralFolds ==
  ASSUME NEW d
  PROVE  P!Numeral(d) = (CHOOSE g : Folded(g, d, DOMAIN d))[DOMAIN d]
<1>1. P!Numeral(d) = (CHOOSE g : g = [s \in SUBSET (DOMAIN d) |-> IF s = {} THEN 0 ELSE g[s \ {P!Max(s)}] * 10 + Digits[d[P!Max(s)]]])[DOMAIN d]
  BY Zenon DEF P!Numeral, P!FoldLeft, P!MapThenFoldSet
<1> QED BY <1>1, Zenon DEF Folded

\* The largest of some numbers.
LEMMA MaxIs ==
  ASSUME NEW m \in Nat, NEW S \in SUBSET (1 .. m), S # {}
  PROVE  P!Max(S) \in S /\ (m \in S => P!Max(S) = m)
<1> DEFINE T == {m - x : x \in S}
<1>1. T \in SUBSET Nat /\ T # {}
  <2>1. \A x \in S : m - x \in Nat
    OBVIOUS
  <2> QED BY <2>1
<1> HIDE DEF T
<1>2. PICK z \in T : \A y \in T : z =< y
  BY <1>1, LeastOf
<1>3. PICK x \in S : \A y \in S : x >= y
  <2>1. PICK x \in S : z = m - x
    BY <1>2 DEF T
  <2>2. ASSUME NEW y \in S PROVE x >= y
    <3>1. m - x =< m - y
      BY <1>2, <2>1 DEF T
    <3>2. x \in Int /\ y \in Int
      OBVIOUS
    <3> QED BY <3>1, <3>2
  <2> QED BY <2>2
<1>4. PICK w : w = P!Max(S)
  OBVIOUS
<1>5. w \in S /\ \A y \in S : w >= y
  BY <1>3, <1>4, Zenon DEF P!Max
<1>6. w \in 1 .. m
  BY <1>5
<1>7. m \in S => w = m
  BY <1>5, <1>6
<1> QED BY <1>4, <1>5, <1>7

\* The recursion of the fold has a solution.
LEMMA FoldExists ==
  ASSUME NEW d
  PROVE  \A m \in Nat : \E g : Folded(g, d, 1 .. m)
<1> DEFINE T == {m \in Nat : \E g : Folded(g, d, 1 .. m)}
<1>1. 0 \in T
  <2>1. PICK g : g = [s \in SUBSET (1 .. 0) |-> 0]
    OBVIOUS
  <2>2. \A s \in SUBSET (1 .. 0) : s = {}
    OBVIOUS
  <2>3. g = [s \in SUBSET (1 .. 0) |-> IF s = {} THEN 0 ELSE g[s \ {P!Max(s)}] * 10 + Digits[d[P!Max(s)]]]
    BY <2>1, <2>2
  <2>4. Folded(g, d, 1 .. 0)
    BY <2>3 DEF Folded
  <2> QED BY <2>4
<1>2. ASSUME NEW m \in Nat, m \in T PROVE m + 1 \in T
  <2>1. PICK f : Folded(f, d, 1 .. m)
    BY <1>2
  <2>2. PICK q : q = m + 1 /\ q \in Nat /\ q \notin 1 .. m /\ 1 .. q = (1 .. m) \cup {q}
    OBVIOUS
  <2>3. PICK g : g = [s \in SUBSET (1 .. q) |-> IF q \in s THEN f[s \ {q}] * 10 + Digits[d[q]] ELSE f[s]]
    OBVIOUS
  <2>4. ASSUME NEW s \in SUBSET (1 .. q)
        PROVE  g[s] = IF s = {} THEN 0 ELSE g[s \ {P!Max(s)}] * 10 + Digits[d[P!Max(s)]]
    <3>1. CASE q \in s
      <4>1. P!Max(s) = q /\ s # {}
        BY <2>2, <3>1, MaxIs
      <4>2. PICK r : r = s \ {q}
        OBVIOUS
      <4>3. r \in SUBSET (1 .. q) /\ q \notin r
        BY <4>2
      <4>4. g[r] = f[r] /\ g[s] = f[s \ {q}] * 10 + Digits[d[q]]
        BY <2>3, <3>1, <4>3
      <4> QED BY <4>1, <4>2, <4>4
    <3>2. CASE q \notin s /\ s = {}
      <4>1. g[s] = f[s]
        BY <2>3, <3>2
      <4>2. s \in SUBSET (1 .. m)
        BY <3>2
      <4>3. f[s] = 0
        BY <2>1, <3>2, <4>2 DEF Folded
      <4> QED BY <3>2, <4>1, <4>3
    <3>3. CASE q \notin s /\ s # {}
      <4>1. s \in SUBSET (1 .. m)
        BY <2>2, <3>3
      <4>2. PICK w : w = P!Max(s)
        OBVIOUS
      <4>3. PICK r : r = s \ {w}
        OBVIOUS
      <4>4. r \in SUBSET (1 .. m) /\ q \notin r /\ r \in SUBSET (1 .. q)
        BY <2>2, <3>3, <4>1, <4>3
      <4>5. g[r] = f[r] /\ g[s] = f[s]
        BY <2>3, <3>3, <4>4
      <4>6. f[s] = f[r] * 10 + Digits[d[w]]
        BY <2>1, <3>3, <4>1, <4>2, <4>3 DEF Folded
      <4> QED BY <3>3, <4>2, <4>3, <4>5, <4>6
    <3> QED BY <3>1, <3>2, <3>3
  <2>5. g = [s \in SUBSET (1 .. q) |-> IF s = {} THEN 0 ELSE g[s \ {P!Max(s)}] * 10 + Digits[d[P!Max(s)]]]
    <3>1. PICK h : h = [s \in SUBSET (1 .. q) |-> IF s = {} THEN 0 ELSE g[s \ {P!Max(s)}] * 10 + Digits[d[P!Max(s)]]]
      OBVIOUS
    <3>2. \A s \in SUBSET (1 .. q) : g[s] = h[s]
      BY <2>4, <3>1
    <3>3. DOMAIN g = SUBSET (1 .. q) /\ DOMAIN h = SUBSET (1 .. q) /\ g = [s \in DOMAIN g |-> g[s]] /\ h = [s \in DOMAIN h |-> h[s]]
      BY <2>3, <3>1
    <3>4. g = h
      BY <3>2, <3>3
    <3> QED BY <3>1, <3>4
  <2>6. Folded(g, d, 1 .. q)
    BY <2>5 DEF Folded
  <2> QED BY <2>2, <2>6
<1>3. Nat \subseteq T
  <2> HIDE DEF T
  <2> QED BY <1>1, <1>2, AllNumbers
<1> QED BY <1>3

\* v[k] is the value of the first k characters.
Values(v, d, n) == v[0] = 0 /\ \A k \in 1 .. n : v[k] = v[k - 1] * 10 + Digits[d[k]]

\* The value of a text, from the value of the text without its last character.
LEMMA NumeralIs ==
  ASSUME NEW d, NEW n \in Nat, DOMAIN d = 1 .. n
  PROVE  \E v : Values(v, d, n) /\ P!Numeral(d) = v[n]
<1>1. PICK g : g = CHOOSE h : Folded(h, d, 1 .. n)
  OBVIOUS
<1>2. Folded(g, d, 1 .. n)
  <2>1. \E h : Folded(h, d, 1 .. n)
    BY FoldExists
  <2> QED BY <1>1, <2>1, Zenon
<1>3. P!Numeral(d) = g[1 .. n]
  BY <1>1, NumeralFolds
<1>4. PICK v : v = [k \in 0 .. n |-> g[1 .. k]]
  OBVIOUS
<1>5. v[0] = 0
  <2>1. 1 .. 0 = {} /\ {} \in SUBSET (1 .. n) /\ 0 \in 0 .. n
    OBVIOUS
  <2>2. g[{}] = 0
    BY <1>2, <2>1 DEF Folded
  <2> QED BY <1>4, <2>1, <2>2
<1>6. ASSUME NEW k \in 1 .. n PROVE v[k] = v[k - 1] * 10 + Digits[d[k]]
  <2>1. PICK s, r : s = 1 .. k /\ r = 1 .. k - 1
    OBVIOUS
  <2>2. s \in SUBSET (1 .. n) /\ s # {} /\ k \in s /\ s \ {k} = r /\ k \in 0 .. n /\ k - 1 \in 0 .. n
    BY <2>1
  <2>3. P!Max(s) = k
    <3>1. s \in SUBSET (1 .. k) /\ k \in Nat
      BY <2>1
    <3> QED BY <2>2, <3>1, MaxIs
  <2>4. g[s] = g[r] * 10 + Digits[d[k]]
    BY <1>2, <2>2, <2>3 DEF Folded
  <2>5. v[k] = g[s] /\ v[k - 1] = g[r]
    BY <1>4, <2>1, <2>2
  <2> QED BY <2>4, <2>5
<1>7. P!Numeral(d) = v[n]
  BY <1>3, <1>4
<1>8. Values(v, d, n)
  BY <1>5, <1>6 DEF Values
<1> QED BY <1>7, <1>8

\* The end of a text.
End == ""

DigitsOK ==
  /\ Digits \in [DOMAIN Digits -> 0 .. 9] /\ \A c, e \in DOMAIN Digits : Digits[c] = Digits[e] => c = e
  /\ "0" \in DOMAIN Digits /\ Digits["0"] = 0 /\ {End, "+", "-"} \cap DOMAIN Digits = {}

\* The first n characters of d are digits.
AreDigits(d, n) == \A k \in 1 .. n : d[k] \in DOMAIN Digits

\* The values of digits are numbers, and with a first digit that is no zero they are not 0.
LEMMA ValuesAre ==
  ASSUME DigitsOK, NEW v, NEW d, NEW n \in Nat, AreDigits(d, n), Values(v, d, n)
  PROVE  /\ \A k \in 0 .. n : v[k] \in Nat
         /\ n > 0 /\ d[1] # "0" => \A k \in 1 .. n : v[k] > 0
<1> DEFINE T == {k \in Nat : k \in 0 .. n => v[k] \in Nat}
           U == {k \in Nat : k + 1 \in 1 .. n => v[k + 1] > 0}
<1>0. ASSUME NEW k \in 1 .. n PROVE v[k] = v[k - 1] * 10 + Digits[d[k]] /\ Digits[d[k]] \in 0 .. 9
  BY <1>0 DEF Values, AreDigits, DigitsOK
<1>1. 0 \in T
  BY DEF Values
<1>2. ASSUME NEW k \in Nat, k \in T PROVE k + 1 \in T
  <2>1. ASSUME k + 1 \in 0 .. n PROVE v[k + 1] \in Nat
    <3>1. k + 1 \in 1 .. n /\ k \in 0 .. n /\ (k + 1) - 1 = k
      BY <2>1
    <3>2. v[k] \in Nat
      BY <1>2, <3>1
    <3>3. v[k + 1] = v[k] * 10 + Digits[d[k + 1]] /\ Digits[d[k + 1]] \in 0 .. 9
      BY <1>0, <3>1
    <3> QED BY <3>2, <3>3
  <2> QED BY <2>1
<1>3. Nat \subseteq T
  <2> HIDE DEF T
  <2> QED BY <1>1, <1>2, AllNumbers
<1>4. \A k \in 0 .. n : v[k] \in Nat
  BY <1>3
<1>5. ASSUME n > 0, d[1] # "0" PROVE \A k \in 1 .. n : v[k] > 0
  <2>1. 0 \in U
    <3>1. 1 \in 1 .. n /\ 1 - 1 = 0
      BY <1>5
    <3>2. v[1] = v[0] * 10 + Digits[d[1]] /\ Digits[d[1]] \in 0 .. 9
      BY <1>0, <3>1
    <3>3. v[0] = 0
      BY DEF Values
    <3>4. Digits[d[1]] # 0
      BY <1>5, <3>1 DEF DigitsOK, AreDigits
    <3>5. v[0 + 1] > 0
      BY <3>2, <3>3, <3>4
    <3> QED BY <3>5
  <2>2. ASSUME NEW k \in Nat, k \in U PROVE k + 1 \in U
    <3>1. ASSUME (k + 1) + 1 \in 1 .. n PROVE v[(k + 1) + 1] > 0
      <4>1. k + 1 \in 1 .. n /\ ((k + 1) + 1) - 1 = k + 1 /\ k + 1 \in 0 .. n
        BY <3>1
      <4>2. v[k + 1] \in Nat /\ v[k + 1] > 0
        BY <1>4, <2>2, <4>1
      <4>3. v[(k + 1) + 1] = v[k + 1] * 10 + Digits[d[(k + 1) + 1]] /\ Digits[d[(k + 1) + 1]] \in 0 .. 9
        BY <1>0, <3>1, <4>1
      <4> QED BY <4>2, <4>3
    <3> QED BY <3>1
  <2>3. Nat \subseteq U
    <3> HIDE DEF U
    <3> QED BY <2>1, <2>2, AllNumbers
  <2>4. ASSUME NEW k \in 1 .. n PROVE v[k] > 0
    <3>1. k - 1 \in Nat /\ (k - 1) + 1 = k
      OBVIOUS
    <3>2. k - 1 \in U
      BY <2>3, <3>1
    <3> QED BY <3>1, <3>2
  <2> QED BY <2>4
<1> QED BY <1>4, <1>5

\* The values of a text are determined.
LEMMA ValuesUnique ==
  ASSUME NEW v, NEW w, NEW d, NEW n \in Nat, Values(v, d, n), Values(w, d, n)
  PROVE  v[n] = w[n]
<1> DEFINE T == {k \in Nat : k \in 0 .. n => v[k] = w[k]}
<1>1. 0 \in T
  BY DEF Values
<1>2. ASSUME NEW k \in Nat, k \in T PROVE k + 1 \in T
  <2>1. ASSUME k + 1 \in 0 .. n PROVE v[k + 1] = w[k + 1]
    <3>1. k + 1 \in 1 .. n /\ k \in 0 .. n /\ (k + 1) - 1 = k
      BY <2>1
    <3>2. v[k] = w[k]
      BY <1>2, <3>1
    <3>3. v[k + 1] = v[k] * 10 + Digits[d[k + 1]] /\ w[k + 1] = w[k] * 10 + Digits[d[k + 1]]
      BY <3>1 DEF Values
    <3> QED BY <3>2, <3>3
  <2> QED BY <2>1
<1>3. Nat \subseteq T
  <2> HIDE DEF T
  <2> QED BY <1>1, <1>2, AllNumbers
<1> QED BY <1>3

\* Digits without zeros before them and the end of the text: the value is x.
TrimmedTo(t, n, v, x) == n \in Nat /\ Len(t) = n + 1 /\ t[n + 1] = End /\ t[1] # "0" /\ AreDigits(t, n) /\ Values(v, t, n) /\ x = v[n]
Trim(t, x) == \E n, v : TrimmedTo(t, n, v, x)

\* Two of the same value are the same.
LEMMA TrimUnique ==
  ASSUME DigitsOK, NEW t, NEW u, NEW x, Trim(t, x), Trim(u, x)
  PROVE  Len(t) = Len(u) /\ \A k \in 1 .. Len(t) : t[k] = u[k]
<1>1. PICK n, v : n \in Nat /\ Len(t) = n + 1 /\ t[n + 1] = End /\ t[1] # "0" /\ AreDigits(t, n) /\ Values(v, t, n) /\ x = v[n]
  BY DEF Trim, TrimmedTo
<1>2. PICK m, w : m \in Nat /\ Len(u) = m + 1 /\ u[m + 1] = End /\ u[1] # "0" /\ AreDigits(u, m) /\ Values(w, u, m) /\ x = w[m]
  BY DEF Trim, TrimmedTo
<1>3. n \in Nat /\ m \in Nat
  BY <1>1, <1>2
<1>4. (\A k \in 0 .. n : v[k] \in Nat) /\ (\A k \in 1 .. n : v[k] > 0)
  <2>1. (\A k \in 0 .. n : v[k] \in Nat) /\ (n > 0 /\ t[1] # "0" => \A k \in 1 .. n : v[k] > 0)
    BY <1>1, ValuesAre, Zenon
  <2>2. ASSUME NEW k \in 1 .. n PROVE v[k] > 0
    <3>1. n > 0
      BY <1>3, <2>2
    <3> QED BY <1>1, <2>1, <3>1
  <2> QED BY <2>1, <2>2
<1>5. (\A k \in 0 .. m : w[k] \in Nat) /\ (\A k \in 1 .. m : w[k] > 0)
  <2>1. (\A k \in 0 .. m : w[k] \in Nat) /\ (m > 0 /\ u[1] # "0" => \A k \in 1 .. m : w[k] > 0)
    BY <1>2, ValuesAre, Zenon
  <2>2. ASSUME NEW k \in 1 .. m PROVE w[k] > 0
    <3>1. m > 0
      BY <1>3, <2>2
    <3> QED BY <1>2, <2>1, <3>1
  <2> QED BY <2>1, <2>2
<1>6. v[0] = 0 /\ w[0] = 0
  BY <1>1, <1>2 DEF Values
<1> DEFINE Alike(j, k) == v[j] = w[k] => j = k /\ \A i \in 1 .. j : t[i] = u[i]
           T == {j \in Nat : j \in 0 .. n => \A k \in 0 .. m : Alike(j, k)}
<1>7. 0 \in T
  <2>1. ASSUME NEW k \in 0 .. m, v[0] = w[k] PROVE k = 0
    BY <1>3, <1>5, <1>6, <2>1
  <2>2. \A i \in 1 .. 0 : t[i] = u[i]
    OBVIOUS
  <2> QED BY <2>1, <2>2
<1>8. ASSUME NEW j \in Nat, j \in T PROVE j + 1 \in T
  <2>1. ASSUME j + 1 \in 0 .. n, NEW k \in 0 .. m, v[j + 1] = w[k] PROVE j + 1 = k /\ \A i \in 1 .. j + 1 : t[i] = u[i]
    <3>1. j + 1 \in 1 .. n /\ j \in 0 .. n /\ (j + 1) - 1 = j
      BY <1>3, <2>1
    <3>2. k # 0
      BY <1>4, <1>6, <2>1, <3>1
    <3>3. k \in 1 .. m /\ k - 1 \in 0 .. m /\ (k - 1) + 1 = k
      BY <1>3, <3>2
    <3>4. v[j + 1] = v[j] * 10 + Digits[t[j + 1]] /\ w[k] = w[k - 1] * 10 + Digits[u[k]]
      BY <1>1, <1>2, <3>1, <3>3 DEF Values
    <3>5. /\ Digits[t[j + 1]] \in 0 .. 9 /\ Digits[u[k]] \in 0 .. 9 /\ t[j + 1] \in DOMAIN Digits /\ u[k] \in DOMAIN Digits
          /\ v[j] \in Nat /\ w[k - 1] \in Nat
      BY <1>1, <1>2, <1>4, <1>5, <3>1, <3>3 DEF AreDigits, DigitsOK
    <3>6. PICK p \in Nat, q \in Nat, a \in 0 .. 9, b \in 0 .. 9 : p = v[j] /\ q = w[k - 1] /\ a = Digits[t[j + 1]] /\ b = Digits[u[k]]
      BY <3>5
    <3>7. p * 10 + a = q * 10 + b
      BY <2>1, <3>4, <3>6
    <3>8. p = q /\ a = b
      BY <3>7
    <3>9. t[j + 1] = u[k]
      BY <3>5, <3>6, <3>8 DEF DigitsOK
    <3>10. j = k - 1 /\ \A i \in 1 .. j : t[i] = u[i]
      BY <1>8, <3>1, <3>3, <3>6, <3>8
    <3>11. j + 1 = k
      BY <3>10
    <3>12. \A i \in 1 .. j + 1 : i \in 1 .. j \/ i = j + 1
      OBVIOUS
    <3> QED BY <3>9, <3>10, <3>11, <3>12
  <2> QED BY <2>1
<1>9. Nat \subseteq T
  <2> HIDE DEF T
  <2> QED BY <1>7, <1>8, AllNumbers
<1>10. n = m /\ \A i \in 1 .. n : t[i] = u[i]
  <2>1. n \in T /\ n \in 0 .. n /\ m \in 0 .. m
    BY <1>3, <1>9
  <2>2. v[n] = w[m]
    BY <1>1, <1>2
  <2> QED BY <2>1, <2>2
<1>11. \A k \in 1 .. n + 1 : k \in 1 .. n \/ k = n + 1
  BY <1>3
<1> QED BY <1>1, <1>2, <1>10, <1>11

\* The same digits have the same value.
LEMMA TrimValue ==
  ASSUME NEW t, NEW x, NEW y, Trim(t, x), Trim(t, y)
  PROVE  x = y
<1>1. PICK n, v : n \in Nat /\ Len(t) = n + 1 /\ Values(v, t, n) /\ x = v[n]
  BY DEF Trim, TrimmedTo
<1>2. PICK m, w : m \in Nat /\ Len(t) = m + 1 /\ Values(w, t, m) /\ y = w[m]
  BY DEF Trim, TrimmedTo
<1>3. m = n
  BY <1>1, <1>2
<1> QED BY <1>1, <1>2, <1>3, ValuesUnique

\* A text without the zeros before it, and with its end.
Zeroless(d) == LET s == Append(d, End) IN SubSeq(s, P!SelectInSeq(s, LAMBDA c : c # "0"), Len(s))

\* e is d with its end, and z the place of the first character that is no zero; t is what is left.
Cut0(d, e, z, t) ==
  /\ z \in 1 .. Len(d) + 1
  /\ e[Len(d) + 1] = End /\ \A k \in 1 .. Len(d) : e[k] = d[k]
  /\ e[z] # "0" /\ \A k \in 1 .. z - 1 : e[k] = "0"
  /\ Len(t) = Len(d) + 2 - z /\ \A j \in 1 .. Len(t) : t[j] = e[z - 1 + j]

\* trim_zero() takes off the zeros before the first other character.
LEMMA ZerolessIs ==
  ASSUME NEW X, NEW d \in Seq(X)
  PROVE  Zeroless(d) \in Seq(X \cup {End}) /\ \E e, z : Cut0(d, e, z, Zeroless(d))
<1>0. PICK n \in Nat : n = Len(d)
  OBVIOUS
<1>1. PICK e : n = Len(d) /\ n \in Nat /\ e = Append(d, End)
  BY <1>0
<1>2. e \in Seq(X \cup {End}) /\ Len(e) = n + 1 /\ e[n + 1] = End /\ \A k \in 1 .. n : e[k] = d[k]
  <2>1. d \in Seq(X \cup {End}) /\ End \in X \cup {End}
    OBVIOUS
  <2> QED BY <1>1, <2>1, AppendProperties
<1>3. PICK I : I = {k \in 1 .. Len(e) : e[k] # "0"}
  OBVIOUS
<1>4. n + 1 \in I /\ I \in SUBSET Nat
  <2>1. End # "0"
    BY Zenon DEF End
  <2> QED BY <1>1, <1>2, <1>3, <2>1
<1>5. PICK z : z = P!Min(I)
  OBVIOUS
<1>6. \E k \in I : \A j \in I : k =< j
  BY <1>4, LeastOf
<1>7. z \in I /\ \A j \in I : z =< j
  BY <1>5, <1>6, Zenon DEF P!Min
<1>8. z \in 1 .. n + 1 /\ e[z] # "0"
  BY <1>2, <1>3, <1>7
<1>9. ASSUME NEW k \in 1 .. z - 1 PROVE e[k] = "0"
  <2>1. k \in 1 .. n + 1 /\ ~(z =< k)
    BY <1>1, <1>8
  <2>2. k \notin I
    BY <1>7, <2>1
  <2> QED BY <1>2, <1>3, <2>1, <2>2
<1>10. P!SelectInSeq(e, LAMBDA c : c # "0") = z
  <2>1. P!SelectInSeq(e, LAMBDA c : c # "0") = IF I # {} THEN P!Min(I) ELSE 0
    BY <1>3, Zenon DEF P!SelectInSeq
  <2> QED BY <1>4, <1>5, <2>1
<1>11. PICK t : t = SubSeq(e, z, Len(e))
  OBVIOUS
<1>12. Zeroless(d) = t
  BY <1>1, <1>10, <1>11 DEF Zeroless
<1>13. t \in Seq(X \cup {End}) /\ Len(t) = n + 2 - z /\ \A j \in 1 .. Len(t) : t[j] = e[z - 1 + j]
  <2>1. z \in 1 .. n + 1 /\ Len(e) = n + 1 /\ n \in Nat
    BY <1>1, <1>2, <1>8
  <2>2. \A k \in z .. Len(e) : e[k] \in X \cup {End}
    BY <1>2, <2>1
  <2>3. z \in Int /\ Len(e) \in Int
    BY <2>1
  <2>4. t \in Seq(X \cup {End}) /\ Len(t) = (IF z <= Len(e) THEN Len(e) - z + 1 ELSE 0) /\ \A i \in 1 .. Len(e) - z + 1 : t[i] = e[z + i - 1]
    BY <1>11, <2>2, <2>3, SubSeqProperties
  <2>5. Len(t) = n + 2 - z /\ Len(e) - z + 1 = n + 2 - z
    BY <2>1, <2>4
  <2>6. ASSUME NEW j \in 1 .. Len(t) PROVE t[j] = e[z - 1 + j]
    <3>1. j \in 1 .. Len(e) - z + 1 /\ z + j - 1 = z - 1 + j
      BY <2>1, <2>5
    <3> QED BY <2>4, <3>1
  <2> QED BY <2>4, <2>5, <2>6
<1>14. Cut0(d, e, z, t)
  BY <1>1, <1>2, <1>8, <1>9, <1>13 DEF Cut0
<1> QED BY <1>12, <1>13, <1>14

\* What is left of a text of digits has its value.
LEMMA ZerolessTrims ==
  ASSUME DigitsOK, NEW X, NEW d \in Seq(X), AreDigits(d, Len(d))
  PROVE  Trim(Zeroless(d), P!Numeral(d))
<1>1. PICK l : l = Len(d) /\ l \in Nat /\ DOMAIN d = 1 .. l
  OBVIOUS
<1>2. PICK v : Values(v, d, l) /\ P!Numeral(d) = v[l]
  BY <1>1, NumeralIs
<1>3. PICK t : t = Zeroless(d)
  OBVIOUS
<1>4. PICK e, z : Cut0(d, e, z, t)
  BY <1>3, ZerolessIs
<1>5. /\ z \in 1 .. l + 1 /\ e[l + 1] = End /\ (\A k \in 1 .. l : e[k] = d[k]) /\ e[z] # "0" /\ (\A k \in 1 .. z - 1 : e[k] = "0")
      /\ Len(t) = l + 2 - z /\ \A j \in 1 .. Len(t) : t[j] = e[z - 1 + j]
  BY <1>1, <1>4 DEF Cut0
\* The zeros are worth nothing.
<1> DEFINE T == {k \in Nat : k \in 0 .. z - 1 => v[k] = 0}
<1>6. v[z - 1] = 0
  <2>1. 0 \in T
    BY <1>2 DEF Values
  <2>2. ASSUME NEW k \in Nat, k \in T PROVE k + 1 \in T
    <3>1. ASSUME k + 1 \in 0 .. z - 1 PROVE v[k + 1] = 0
      <4>1. k + 1 \in 1 .. l /\ k + 1 \in 1 .. z - 1 /\ k \in 0 .. z - 1 /\ (k + 1) - 1 = k
        BY <1>1, <1>5, <3>1
      <4>2. d[k + 1] = "0"
        BY <1>5, <4>1
      <4>3. v[k + 1] = v[k] * 10 + Digits[d[k + 1]]
        BY <1>2, <4>1 DEF Values
      <4>4. v[k] = 0 /\ Digits["0"] = 0
        BY <2>2, <4>1 DEF DigitsOK
      <4> QED BY <4>2, <4>3, <4>4
    <3> QED BY <3>1
  <2>3. Nat \subseteq T
    <3> HIDE DEF T
    <3> QED BY <2>1, <2>2, AllNumbers
  <2>4. z - 1 \in Nat /\ z - 1 \in 0 .. z - 1
    BY <1>5
  <2> QED BY <2>3, <2>4
<1>7. PICK n : n = l + 1 - z /\ n \in Nat
  BY <1>1, <1>5
<1>8. PICK w : w = [k \in 0 .. n |-> v[z - 1 + k]]
  OBVIOUS
<1>9. Values(w, t, n)
  <2>1. w[0] = 0
    BY <1>5, <1>6, <1>7, <1>8
  <2>2. ASSUME NEW k \in 1 .. n PROVE w[k] = w[k - 1] * 10 + Digits[t[k]]
    <3>1. k \in 0 .. n /\ k - 1 \in 0 .. n /\ k \in 1 .. Len(t) /\ z - 1 + k \in 1 .. l /\ (z - 1 + k) - 1 = z - 1 + (k - 1)
      BY <1>1, <1>5, <1>7
    <3>2. w[k] = v[z - 1 + k] /\ w[k - 1] = v[(z - 1 + k) - 1] /\ t[k] = d[z - 1 + k]
      BY <1>5, <1>8, <3>1
    <3>3. PICK m : m = z - 1 + k
      OBVIOUS
    <3>4. v[m] = v[m - 1] * 10 + Digits[d[m]]
      BY <1>2, <3>1, <3>3 DEF Values
    <3> QED BY <3>2, <3>3, <3>4
  <2> QED BY <2>1, <2>2 DEF Values
<1>10. AreDigits(t, n)
  <2>1. ASSUME NEW k \in 1 .. n PROVE t[k] \in DOMAIN Digits
    <3>1. k \in 1 .. Len(t) /\ z - 1 + k \in 1 .. l
      BY <1>1, <1>5, <1>7
    <3> QED BY <1>1, <1>5, <3>1 DEF AreDigits
  <2> QED BY <2>1 DEF AreDigits
<1>11. Len(t) = n + 1 /\ t[n + 1] = End /\ t[1] # "0"
  <2>1. Len(t) = n + 1 /\ n + 1 \in 1 .. Len(t) /\ 1 \in 1 .. Len(t) /\ z - 1 + (n + 1) = l + 1 /\ z - 1 + 1 = z
    BY <1>1, <1>5, <1>7
  <2> QED BY <1>5, <2>1
<1>12. v[l] = w[n]
  <2>1. n \in 0 .. n /\ z - 1 + n = l
    BY <1>1, <1>5, <1>7
  <2> QED BY <1>8, <2>1
<1>13. TrimmedTo(t, n, w, v[l])
  BY <1>7, <1>9, <1>10, <1>11, <1>12 DEF TrimmedTo
<1> QED BY <1>2, <1>3, <1>13 DEF Trim

\* When what is left is digits, the text was.
LEMMA ZerolessDigits ==
  ASSUME DigitsOK, NEW X, NEW d \in Seq(X), NEW x, Trim(Zeroless(d), x)
  PROVE  AreDigits(d, Len(d))
<1>1. PICK l : l = Len(d) /\ l \in Nat
  OBVIOUS
<1>2. PICK t : t = Zeroless(d) /\ Trim(t, x)
  OBVIOUS
<1>3. PICK e, z : Cut0(d, e, z, t)
  BY <1>2, ZerolessIs
<1>4. /\ z \in 1 .. l + 1 /\ (\A k \in 1 .. l : e[k] = d[k]) /\ (\A k \in 1 .. z - 1 : e[k] = "0")
      /\ Len(t) = l + 2 - z /\ \A j \in 1 .. Len(t) : t[j] = e[z - 1 + j]
  BY <1>1, <1>3 DEF Cut0
<1>5. PICK n : n \in Nat /\ Len(t) = n + 1 /\ AreDigits(t, n)
  BY <1>2 DEF Trim, TrimmedTo
<1>6. ASSUME NEW k \in 1 .. l PROVE d[k] \in DOMAIN Digits
  <2>1. CASE k < z
    <3>1. k \in 1 .. z - 1
      BY <1>4, <2>1
    <3> QED BY <1>4, <3>1 DEF DigitsOK
  <2>2. CASE ~(k < z)
    <3>1. k - z + 1 \in 1 .. n /\ k - z + 1 \in 1 .. Len(t) /\ z - 1 + (k - z + 1) = k
      BY <1>1, <1>4, <1>5, <2>2
    <3>2. t[k - z + 1] = d[k]
      BY <1>4, <3>1
    <3> QED BY <1>5, <3>1, <3>2 DEF AreDigits
  <2> QED BY <2>1, <2>2
<1> QED BY <1>1, <1>6 DEF AreDigits

\* Two texts of digits are the same behind their zeros when their values are.
LEMMA ZerolessSame ==
  ASSUME DigitsOK, NEW X, NEW Y, NEW d \in Seq(X), NEW e \in Seq(Y), AreDigits(d, Len(d)), AreDigits(e, Len(e))
  PROVE  Zeroless(d) = Zeroless(e) <=> P!Numeral(d) = P!Numeral(e)
<1>1. PICK t, u, x, y : t = Zeroless(d) /\ u = Zeroless(e) /\ x = P!Numeral(d) /\ y = P!Numeral(e)
  OBVIOUS
<1>2. Trim(t, x) /\ Trim(u, y)
  BY <1>1, ZerolessTrims
<1>3. t = u => x = y
  BY <1>2, TrimValue
<1>4. ASSUME x = y PROVE t = u
  <2>1. Len(t) = Len(u) /\ \A k \in 1 .. Len(t) : t[k] = u[k]
    BY <1>2, <1>4, TrimUnique
  <2>2. t \in Seq(X \cup {End}) /\ u \in Seq(Y \cup {End})
    BY <1>1, ZerolessIs
  <2>3. DOMAIN t = 1 .. Len(t) /\ DOMAIN u = 1 .. Len(u) /\ t = [k \in DOMAIN t |-> t[k]] /\ u = [k \in DOMAIN u |-> u[k]]
    BY <2>2
  <2> QED BY <2>1, <2>3
<1> QED BY <1>1, <1>3, <1>4

\* A value is a number.
LEMMA NumeralNat ==
  ASSUME DigitsOK, NEW X, NEW d \in Seq(X), AreDigits(d, Len(d))
  PROVE  P!Numeral(d) \in Nat
<1>1. PICK l : l = Len(d) /\ l \in Nat /\ DOMAIN d = 1 .. l
  OBVIOUS
<1>2. PICK v : Values(v, d, l) /\ P!Numeral(d) = v[l]
  BY <1>1, NumeralIs
<1>3. v[l] \in Nat
  <2>1. \A k \in 0 .. l : v[k] \in Nat
    BY <1>1, <1>2, ValuesAre
  <2> QED BY <1>1, <2>1
<1> QED BY <1>2, <1>3

-----------------------------------------------------------------------------
(* push_swap: the arguments.                                                    *)

ArgumentsOK == \A w \in Arguments : w \in Seq(P!Range(w)) /\ \A t \in P!Range(w) : t \in Seq(P!Range(t))
LowestOK ==
  /\ INT_MAX \in Nat /\ LowestText \in Seq(P!Range(LowestText)) /\ P!Range(P!Body(LowestText)) \subseteq DOMAIN Digits
  /\ P!Negative(LowestText) /\ P!Numeral(P!Body(LowestText)) = INT_MAX + 1

\* The assumption on the constants, in parts.
LEMMA AssumptionIs ==
  ASSUME P!ConstantsAssumption
  PROVE  ArgumentsOK /\ DigitsOK /\ LowestOK
<1>1. ArgumentsOK
  BY Zenon DEF P!ConstantsAssumption, ArgumentsOK
<1>2. DigitsOK
  BY Zenon DEF P!ConstantsAssumption, P!IsInjective, DigitsOK, End
<1>3. LowestOK
  BY Zenon DEF P!ConstantsAssumption, LowestOK
<1> QED BY <1>1, <1>2, <1>3

\* What is behind the sign.
LEMMA BodyIs ==
  ASSUME NEW X, NEW t \in Seq(X)
  PROVE  /\ P!Body(t) \in Seq(X) /\ P!Range(P!Body(t)) = {P!Body(t)[k] : k \in 1 .. Len(P!Body(t))}
         /\ P!Body(t) # <<>> <=> t # <<>> /\ t # <<"+">> /\ t # <<"-">>
<1>1. P!Body(t) \in Seq(X)
  BY DEF P!Body
<1>2. PICK d \in Seq(X) : d = P!Body(t)
  BY <1>1
<1>3. P!Range(d) = {d[k] : k \in 1 .. Len(d)}
  BY DEF P!Range
<1>4. CASE t = <<>>
  <2>1. P!Body(t) = t
    BY <1>4 DEF P!Body
  <2> QED BY <1>2, <1>3, <1>4, <2>1
<1>5. CASE t # <<>> /\ t[1] \notin {"+", "-"}
  <2>1. P!Body(t) = t /\ t # <<"+">> /\ t # <<"-">>
    BY <1>5 DEF P!Body
  <2> QED BY <1>2, <1>3, <1>5, <2>1
<1>6. CASE t # <<>> /\ t[1] \in {"+", "-"}
  <2>1. d = Tail(t)
    BY <1>2, <1>6 DEF P!Body
  <2>2. Len(t) \in Nat /\ Len(t) > 0 /\ Len(d) = Len(t) - 1
    BY <1>6, <2>1
  <2>3. Len(t) = 1 => t = <<t[1]>>
    OBVIOUS
  <2>4. t = <<"+">> \/ t = <<"-">> => Len(t) = 1
    OBVIOUS
  <2>5. d # <<>> <=> Len(d) # 0
    BY <1>2, EmptySeq
  <2> QED BY <1>2, <1>3, <1>6, <2>2, <2>3, <2>4, <2>5
<1> QED BY <1>2, <1>3, <1>4, <1>5, <1>6

\* A text whose characters behind the sign are digits.
Written(t) == AreDigits(P!Body(t), Len(P!Body(t)))

\* A text of digits is one whose characters are among them.
LEMMA WrittenIs ==
  ASSUME NEW X, NEW t \in Seq(X)
  PROVE  /\ Written(t) <=> P!Range(P!Body(t)) \subseteq DOMAIN Digits
         /\ Written(t) <=> \A k \in DOMAIN P!Body(t) : P!Body(t)[k] \in DOMAIN Digits
<1>1. PICK d \in Seq(X) : d = P!Body(t) /\ P!Range(d) = {d[k] : k \in 1 .. Len(d)}
  BY BodyIs
<1>2. DOMAIN d = 1 .. Len(d)
  OBVIOUS
<1> QED BY <1>1, <1>2 DEF Written, AreDigits

\* trim_zero() works on what is behind the sign.
LEMMA TrimIs ==
  ASSUME NEW t
  PROVE  P!trim_zero(t) = Zeroless(P!Body(t))
BY Zenon DEF P!trim_zero, Zeroless, End

\* The number of a text is the value of its digits, and its sign.
LEMMA NumberIs ==
  ASSUME DigitsOK, NEW X, NEW t \in Seq(X), Written(t)
  PROVE  P!Numeral(P!Body(t)) \in Nat /\ P!Number(t) = IF P!Negative(t) THEN -P!Numeral(P!Body(t)) ELSE P!Numeral(P!Body(t))
<1>1. P!Body(t) \in Seq(X)
  BY BodyIs
<1>2. P!Numeral(P!Body(t)) \in Nat
  BY <1>1, NumeralNat DEF Written
<1> QED BY <1>2 DEF P!Number

\* ft_atoi_check() accepts the numbers.
LEMMA AcceptedIs ==
  ASSUME DigitsOK, LowestOK, NEW X, NEW t \in Seq(X)
  PROVE  P!ft_atoi_check(t) <=> P!IsNumber(t)
<1>1. PICK d : d = P!Body(t)
  OBVIOUS
<1>2. /\ d \in Seq(X) /\ (d # <<>> <=> t # <<>> /\ t # <<"+">> /\ t # <<"-">>)
      /\ (Written(t) <=> P!Range(d) \subseteq DOMAIN Digits)
      /\ (Written(t) <=> \A k \in DOMAIN d : d[k] \in DOMAIN Digits)
  BY <1>1, BodyIs, WrittenIs
<1>3. PICK Y, low : Y = P!Range(LowestText) /\ low = P!Body(LowestText)
  OBVIOUS
<1>4. low \in Seq(Y) /\ AreDigits(low, Len(low)) /\ P!Numeral(low) = INT_MAX + 1
  <2>1. LowestText \in Seq(Y)
    BY <1>3 DEF LowestOK
  <2>2. low \in Seq(Y)
    BY <1>3, <2>1, BodyIs
  <2>3. Written(LowestText)
    BY <2>1, WrittenIs DEF LowestOK
  <2> QED BY <1>3, <2>2, <2>3 DEF Written, LowestOK
\* The lowest number, with any zeros.
<1>5. P!ft_same(LowestText, t) <=> P!Negative(t) /\ Written(t) /\ P!Numeral(d) = INT_MAX + 1
  <2>1. P!ft_same(LowestText, t) <=> P!Negative(t) /\ Zeroless(low) = Zeroless(d)
    BY <1>1, <1>3, TrimIs DEF P!ft_same, LowestOK
  <2>2. ASSUME Zeroless(low) = Zeroless(d) PROVE Written(t)
    <3>1. Trim(Zeroless(low), P!Numeral(low))
      BY <1>4, ZerolessTrims
    <3>2. Trim(Zeroless(d), P!Numeral(low))
      BY <2>2, <3>1
    <3>3. AreDigits(d, Len(d))
      BY <1>2, <3>2, ZerolessDigits
    <3> QED BY <1>1, <3>3 DEF Written
  <2>3. Written(t) => (Zeroless(low) = Zeroless(d) <=> P!Numeral(low) = P!Numeral(d))
    BY <1>1, <1>2, <1>4, ZerolessSame DEF Written
  <2> QED BY <1>4, <2>1, <2>2, <2>3
<1>6. INT_MAX \in Nat
  BY DEF LowestOK
<1>7. CASE ~Written(t)
  <2>1. ~P!IsNumber(t)
    BY <1>1, <1>2, <1>7 DEF P!IsNumber
  <2>2. ~P!ft_atoi_check(t)
    BY <1>1, <1>2, <1>5, <1>7 DEF P!ft_atoi_check
  <2> QED BY <2>1, <2>2
<1>8. CASE Written(t)
  <2>1. PICK x \in Nat : x = P!Numeral(d) /\ P!Number(t) = IF P!Negative(t) THEN -x ELSE x
    BY <1>1, <1>8, NumberIs
  <2>2. P!ft_atoi_check(t) <=> \/ P!Negative(t) /\ x = INT_MAX + 1
                               \/ t # <<>> /\ t # <<"+">> /\ x =< INT_MAX /\ (P!Negative(t) => x # 0)
    BY <1>1, <1>2, <1>5, <1>8, <2>1 DEF P!ft_atoi_check
  <2>3. P!IsNumber(t) <=> d # <<>> /\ P!Number(t) \in -(INT_MAX + 1) .. INT_MAX /\ (P!Negative(t) => P!Number(t) # 0)
    BY <1>1, <1>2, <1>8 DEF P!IsNumber
  <2>4. d = <<>> => x = 0
    <3>1. ASSUME d = <<>> PROVE x = 0
      <4>1. Len(d) = 0 /\ DOMAIN d = 1 .. 0
        BY <3>1
      <4>2. PICK v : Values(v, d, 0) /\ P!Numeral(d) = v[0]
        BY <4>1, NumeralIs
      <4> QED BY <2>1, <4>2 DEF Values
    <3> QED BY <3>1
  <2>5. P!Negative(t) => t # <<>> /\ t # <<"+">>
    BY DEF P!Negative
  <2>6. ~P!Negative(t) => t # <<"-">>
    BY DEF P!Negative
  <2>7. CASE P!Negative(t)
    <3>1. P!Number(t) = -x
      BY <2>1, <2>7
    <3>2. P!ft_atoi_check(t) <=> x =< INT_MAX + 1 /\ x # 0
      BY <1>6, <2>2, <2>5, <2>7
    <3>3. P!IsNumber(t) <=> d # <<>> /\ x =< INT_MAX + 1 /\ x # 0
      BY <1>6, <2>3, <2>7, <3>1
    <3> QED BY <2>4, <3>2, <3>3
  <2>8. CASE ~P!Negative(t)
    <3>1. P!Number(t) = x
      BY <2>1, <2>8
    <3>2. P!ft_atoi_check(t) <=> t # <<>> /\ t # <<"+">> /\ x =< INT_MAX
      BY <2>2, <2>8
    <3>3. P!IsNumber(t) <=> d # <<>> /\ x =< INT_MAX
      BY <1>6, <2>3, <2>8, <3>1
    <3> QED BY <1>2, <2>6, <2>8, <3>2, <3>3
  <2> QED BY <2>7, <2>8
<1> QED BY <1>7, <1>8

\* ft_same() tells equal numbers, however they are written.
LEMMA SameIs ==
  ASSUME DigitsOK, NEW X, NEW Y, NEW t \in Seq(X), NEW u \in Seq(Y), P!IsNumber(t), P!IsNumber(u)
  PROVE  P!ft_same(t, u) <=> P!Number(t) = P!Number(u)
<1>1. Written(t) /\ Written(u)
  BY WrittenIs DEF P!IsNumber
<1>2. PICK x \in Nat : x = P!Numeral(P!Body(t)) /\ P!Number(t) = IF P!Negative(t) THEN -x ELSE x
  BY <1>1, NumberIs
<1>3. PICK y \in Nat : y = P!Numeral(P!Body(u)) /\ P!Number(u) = IF P!Negative(u) THEN -y ELSE y
  BY <1>1, NumberIs
<1>4. PICK d \in Seq(X), e \in Seq(Y) : d = P!Body(t) /\ e = P!Body(u)
  BY BodyIs
<1>5. Zeroless(d) = Zeroless(e) <=> x = y
  BY <1>1, <1>2, <1>3, <1>4, ZerolessSame DEF Written
<1>6. P!ft_same(t, u) <=> P!Negative(t) = P!Negative(u) /\ x = y
  BY <1>4, <1>5, TrimIs DEF P!ft_same
<1>7. (P!Negative(t) => P!Number(t) # 0) /\ (P!Negative(u) => P!Number(u) # 0)
  BY DEF P!IsNumber
<1>8. P!Negative(t) \in BOOLEAN /\ P!Negative(u) \in BOOLEAN
  BY DEF P!Negative
<1>9. CASE P!Negative(t)
  <2>1. CASE P!Negative(u)
    <3>1. P!Number(t) = -x /\ P!Number(u) = -y /\ (-x = -y <=> x = y)
      BY <1>2, <1>3, <1>9, <2>1
    <3> QED BY <1>6, <1>8, <1>9, <2>1, <3>1
  <2>2. CASE ~P!Negative(u)
    <3>1. P!Number(t) = -x /\ P!Number(u) = y /\ x # 0
      BY <1>2, <1>3, <1>7, <1>9, <2>2
    <3>2. -x # y
      BY <3>1
    <3> QED BY <1>6, <1>8, <1>9, <2>2, <3>1, <3>2
  <2> QED BY <2>1, <2>2
<1>10. CASE ~P!Negative(t)
  <2>1. CASE P!Negative(u)
    <3>1. P!Number(t) = x /\ P!Number(u) = -y /\ y # 0
      BY <1>2, <1>3, <1>7, <1>10, <2>1
    <3>2. x # -y
      BY <3>1
    <3> QED BY <1>6, <1>8, <1>10, <2>1, <3>1, <3>2
  <2>2. CASE ~P!Negative(u)
    <3>1. P!Number(t) = x /\ P!Number(u) = y
      BY <1>2, <1>3, <1>10, <2>2
    <3> QED BY <1>6, <1>8, <1>10, <2>2, <3>1
  <2> QED BY <2>1, <2>2
<1> QED BY <1>9, <1>10

-----------------------------------------------------------------------------
(* push_swap: the theorem.                                                      *)

ArgsOK == args \in Seq(P!Range(args)) /\ \A k \in 1 .. Len(args) : args[k] \in Seq(P!Range(args[k]))

\* The arguments are distinct numbers.
Given == /\ \A k \in 1 .. P!len : P!IsNumber(args[k])
         /\ \A j, k \in 1 .. P!len : P!Number(args[j]) = P!Number(args[k]) => j = k

\* Places of a text are counted by a natural number.
LEMMA PlacesCounted ==
  ASSUME NEW n \in Nat, NEW S \in SUBSET (1 .. n)
  PROVE  P!Cardinality(S) \in Nat
<1>0. IsFiniteSet(1 .. n)
  BY FS_Interval
<1>1. IsFiniteSet(S)
  BY <1>0, FS_Subset
<1>2. Cardinality(S) \in Nat
  BY <1>1, FS_CardinalityType
<1>3. P!Cardinality(S) = Cardinality(S)
  BY DEF P!Cardinality, Cardinality, P!IsFiniteSet, IsFiniteSet
<1> QED BY <1>2, <1>3

\* The words of a text are texts.
LEMMA WordsAre ==
  ASSUME NEW t, Len(t) \in Nat
  PROVE  /\ P!Words(t) \in Seq(P!Range(P!Words(t)))
         /\ \A k \in 1 .. Len(P!Words(t)) : P!Words(t)[k] \in Seq(P!Range(P!Words(t)[k]))
<1> DEFINE W(n)    == {k \in 1 .. Len(t) : ~P!IsBlank(t[k]) /\ P!Begun(t, k) = n}
           word(n) == [j \in 1 .. P!Cardinality(W(n)) |-> t[P!LeastOf(W(n)) + j - 1]]
<1>1. P!Begun(t, Len(t)) \in Nat
  <2>1. {j \in 1 .. Len(t) : P!BeginsAt(t, j)} \in SUBSET (1 .. Len(t))
    OBVIOUS
  <2> QED BY <2>1, PlacesCounted DEF P!Begun
<1>2. ASSUME NEW n PROVE word(n) \in Seq(P!Range(word(n)))
  <2>1. W(n) \in SUBSET (1 .. Len(t))
    OBVIOUS
  <2>2. P!Cardinality(W(n)) \in Nat
    BY <2>1, PlacesCounted
  <2>3. PICK w, c : w = word(n) /\ c = P!Cardinality(W(n)) /\ c \in Nat
    BY <2>2
  <2>4. w = [j \in 1 .. c |-> t[P!LeastOf(W(n)) + j - 1]]
    BY <2>3
  <2>5. DOMAIN w = 1 .. c /\ w = [j \in 1 .. c |-> w[j]]
    BY <2>4
  <2>6. \A j \in 1 .. c : w[j] \in P!Range(w)
    BY <2>5 DEF P!Range
  <2>7. c \in Nat /\ w = word(n)
    BY <2>3
  <2> HIDE DEF word
  <2>8. w \in Seq(P!Range(w))
    BY <2>5, <2>6, <2>7
  <2> QED BY <2>7, <2>8
<1>3. PICK m \in Nat : m = P!Begun(t, Len(t))
  BY <1>1
<1>4. P!Words(t) = [n \in 1 .. m |-> word(n)]
  BY <1>3 DEF P!Words
<1> HIDE DEF word
<1>5. PICK ws : ws = P!Words(t)
  OBVIOUS
<1>6. DOMAIN ws = 1 .. m /\ \A k \in 1 .. m : ws[k] = word(k)
  BY <1>4, <1>5
<1>7. ws = [k \in 1 .. m |-> ws[k]] /\ Len(ws) = m
  BY <1>3, <1>4, <1>5
<1>8. ws \in Seq(P!Range(ws))
  BY <1>3, <1>6, <1>7 DEF P!Range
<1> QED BY <1>2, <1>5, <1>6, <1>7, <1>8

\* The arguments are texts, and so are those made of one.
LEMMA ArgsAre ==
  ASSUME ArgumentsOK, NEW argv \in Arguments, args = P!Texts(argv)
  PROVE  ArgsOK
<1>1. argv \in Seq(P!Range(argv)) /\ \A t \in P!Range(argv) : t \in Seq(P!Range(t))
  BY DEF ArgumentsOK
<1>2. \A k \in 1 .. Len(argv) : argv[k] \in P!Range(argv)
  BY <1>1
<1>3. CASE args = argv
  BY <1>1, <1>2, <1>3 DEF ArgsOK
<1>4. CASE args = <<<<>>>>
  <2>1. Len(args) = 1 /\ args[1] = <<>> /\ args \in Seq({<<>>}) /\ DOMAIN args = {1}
    BY <1>4
  <2>2. P!Range(args) = {<<>>}
    BY <2>1 DEF P!Range
  <2>3. args[1] \in Seq(P!Range(args[1]))
    BY <2>1, EmptySeq
  <2>4. \A k \in 1 .. Len(args) : k = 1
    BY <2>1
  <2> QED BY <2>1, <2>2, <2>3, <2>4, Zenon DEF ArgsOK
<1>5. CASE Len(argv) = 1 /\ args = P!Words(argv[1])
  <2>1. Len(argv[1]) \in Nat
    BY <1>1, <1>2, <1>5
  <2> QED BY <1>5, <2>1, WordsAre DEF ArgsOK
<1> QED BY <1>3, <1>4, <1>5 DEF P!Texts

\* Exactly distinct numbers are accepted.
LEMMA ErrorFreeIs ==
  ASSUME DigitsOK, LowestOK, ArgsOK
  PROVE  P!error_free <=> Given
<1>1. PICK n \in Nat : n = Len(args) /\ P!len = n
  BY DEF ArgsOK, P!len
<1>2. \A k \in 1 .. n : P!ft_atoi_check(args[k]) <=> P!IsNumber(args[k])
  BY <1>1, AcceptedIs DEF ArgsOK
<1>3. ASSUME \A k \in 1 .. n : P!IsNumber(args[k])
      PROVE  (\A k \in 1 .. n : \A j \in 1 .. k - 1 : ~P!ft_same(args[k], args[j]))
             <=> \A j, k \in 1 .. n : P!Number(args[j]) = P!Number(args[k]) => j = k
  <2>1. ASSUME NEW j \in 1 .. n, NEW k \in 1 .. n PROVE P!ft_same(args[k], args[j]) <=> P!Number(args[k]) = P!Number(args[j])
    <3>1. PICK t, u, X, Y : t = args[k] /\ u = args[j] /\ X = P!Range(t) /\ Y = P!Range(u)
      OBVIOUS
    <3>2. t \in Seq(X) /\ u \in Seq(Y) /\ P!IsNumber(t) /\ P!IsNumber(u)
      BY <1>1, <1>3, <3>1 DEF ArgsOK
    <3>3. P!ft_same(t, u) <=> P!Number(t) = P!Number(u)
      BY <3>2, SameIs
    <3> QED BY <3>1, <3>3
  <2>2. ASSUME \A k \in 1 .. n : \A j \in 1 .. k - 1 : ~P!ft_same(args[k], args[j]), NEW j \in 1 .. n, NEW k \in 1 .. n,
               P!Number(args[j]) = P!Number(args[k])
        PROVE  j = k
    <3>1. CASE j < k
      <4>1. j \in 1 .. k - 1
        BY <3>1
      <4> QED BY <2>1, <2>2, <4>1
    <3>2. CASE k < j
      <4>1. k \in 1 .. j - 1
        BY <3>2
      <4> QED BY <2>1, <2>2, <4>1
    <3> QED BY <3>1, <3>2
  <2>3. ASSUME \A j, k \in 1 .. n : P!Number(args[j]) = P!Number(args[k]) => j = k, NEW k \in 1 .. n, NEW j \in 1 .. k - 1
        PROVE  ~P!ft_same(args[k], args[j])
    <3>1. j \in 1 .. n /\ j # k
      OBVIOUS
    <3> QED BY <2>1, <2>3, <3>1
  <2> QED BY <2>2, <2>3
<1> QED BY <1>1, <1>2, <1>3 DEF P!error_free, Given

\* assign_index(): the ranks are all of 1 .. n.
LEMMA IndexesAre ==
  ASSUME DigitsOK, LowestOK, ArgsOK, Given, NEW n \in Nat, P!len = n
  PROVE  P!Indexes \in Seq(1 .. n) /\ Shared(P!Indexes, <<>>, n)
<1>1. PICK f : f = [k \in 1 .. n |-> P!Number(args[k])]
  OBVIOUS
<1>2. \A k \in 1 .. n : P!Number(args[k]) \in Int
  BY DEF Given, P!IsNumber, LowestOK
<1>3. f \in [1 .. n -> Int] /\ \A j, k \in 1 .. n : f[j] = f[k] => j = k
  BY <1>1, <1>2 DEF Given
<1>4. PICK r : r = [k \in 1 .. n |-> Cardinality({j \in 1 .. n : f[j] =< f[k]})]
  OBVIOUS
<1>5. r \in Seq(1 .. n) /\ Shared(r, <<>>, n)
  BY <1>3, <1>4, RanksAre, Zenon
<1>6. P!Indexes = r
  <2>1. \A S : P!Cardinality(S) = Cardinality(S)
    BY DEF P!Cardinality, Cardinality, P!IsFiniteSet, IsFiniteSet
  <2>2. P!Indexes = [k \in 1 .. n |-> P!Cardinality({j \in 1 .. n : P!Number(args[j]) =< P!Number(args[k])})]
    BY DEF P!Indexes
  <2>3. \A k \in 1 .. n : {j \in 1 .. n : P!Number(args[j]) =< P!Number(args[k])} = {j \in 1 .. n : f[j] =< f[k]}
    BY <1>1
  <2>4. \A k \in 1 .. n : P!Cardinality({j \in 1 .. n : P!Number(args[j]) =< P!Number(args[k])}) = Cardinality({j \in 1 .. n : f[j] =< f[k]})
    BY <2>1, <2>3
  <2> QED BY <1>4, <2>2, <2>4
<1> QED BY <1>5, <1>6

\* What is accepted can be sorted.
LEMMA ParseSorts ==
  ASSUME DigitsOK, LowestOK, ArgsOK, Given, NEW n \in Nat, P!len = n, stack_b = <<>>, P!error_free, P!Parse
  PROVE  Sorting(n)'
<1>1. PICK s : s = P!Indexes
  OBVIOUS
<1>2. PICK e : e = <<>>
  OBVIOUS
<1>3. s \in Seq(1 .. n) /\ Shared(s, e, n) /\ Len(e) = 0
  BY <1>1, <1>2, IndexesAre
<1>4. stack_a' = s /\ stack_b' = e /\ told' = <<s, e>>
  BY <1>1, <1>2 DEF P!Parse
<1>5. Fine(n)'
  BY <1>3, <1>4 DEF Fine
<1>6. Len(s) = n
  <2>1. Len(s) \in Nat /\ Len(s) + Len(e) = n
    BY <1>3 DEF Shared
  <2> QED BY <1>3, <2>1
<1>7. pc' = IF P!Sorted(s) THEN "done" ELSE CASE n = 2 -> "two" [] n = 3 -> "three" [] OTHER -> "half"
  BY <1>1 DEF P!Parse
<1>8. CASE P!Sorted(s)
  <2>1. pc' = "done"
    BY <1>7, <1>8
  <2> QED BY <1>3, <1>4, <1>5, <1>8, <2>1 DEF Sorting, Few, Many, Places
<1>9. CASE ~P!Sorted(s)
  <2>1. CASE n = 2
    <3>1. pc' = "two"
      BY <1>7, <1>9, <2>1
    <3> QED BY <1>3, <1>4, <1>5, <1>6, <1>9, <2>1, <3>1 DEF Sorting, Few, Many, Places
  <2>2. CASE n = 3
    <3>1. pc' = "three"
      BY <1>7, <1>9, <2>2
    <3> QED BY <1>3, <1>4, <1>5, <1>6, <1>9, <2>2, <3>1 DEF Sorting, Few, Many, Places
  <2>3. CASE n # 2 /\ n # 3
    <3>1. pc' = "half"
      BY <1>7, <1>9, <2>3
    <3>2. n > 3
      <4>1. ASSUME n =< 1 PROVE FALSE
        <5>1. \A k \in 1 .. Len(s) - 1 : FALSE
          BY <1>6, <4>1
        <5> QED BY <1>9, <5>1 DEF P!Sorted
      <4> QED BY <2>3, <4>1
    <3>3. Len(stack_b') =< n - 3
      BY <1>3, <1>4, <3>2
    <3> QED BY <1>5, <3>1, <3>2, <3>3 DEF Sorting, Few, Many, Places
  <2> QED BY <2>1, <2>2, <2>3
<1> QED BY <1>8, <1>9

\* What holds at every step: before the parse, when it was refused, and when there are numbers to sort.
PushInv ==
  /\ ArgsOK /\ pc \in {"parse", "refused"} \cup Places
  /\ pc = "parse" => stack_b = <<>>
  /\ pc = "refused" => ~Given
  /\ pc \in Places => Given /\ Sorting(P!len)

\* Every step keeps the invariant.
LEMMA PushKept ==
  ASSUME DigitsOK, LowestOK, PushInv, P!Next
  PROVE  PushInv'
<1>1. args' = args
  BY DEF P!Next, P!Parse, P!Two, P!Three, P!SwapThree, P!Half, P!Rest, P!Target, P!Move, P!Adjust, P!TurnBack
<1>2. ArgsOK' /\ Given' = Given /\ P!len' = P!len
  BY <1>1 DEF PushInv, ArgsOK, Given, P!len
<1>3. PICK n \in Nat : n = P!len
  BY DEF PushInv, ArgsOK, P!len
<1>4. P!len = n /\ P!len' = n
  BY <1>2, <1>3
<1>5. ASSUME Sorting(n)', Given PROVE PushInv'
  <2>1. pc' \in Places /\ pc' # "parse" /\ pc' # "refused"
    BY <1>5 DEF Sorting, Places
  <2> QED BY <1>2, <1>4, <1>5, <2>1 DEF PushInv
<1>6. CASE P!Parse
  <2>1. pc = "parse" /\ stack_b = <<>>
    BY <1>6 DEF PushInv, P!Parse
  <2>2. P!error_free <=> Given
    BY ErrorFreeIs DEF PushInv
  <2>3. CASE P!error_free
    <3>1. Sorting(n)'
      BY <1>4, <1>6, <2>1, <2>2, <2>3, ParseSorts DEF PushInv
    <3> QED BY <1>5, <2>2, <2>3, <3>1
  <2>4. CASE ~P!error_free
    <3>1. pc' = "refused" /\ ~Given
      BY <1>6, <2>2, <2>4 DEF P!Parse
    <3>2. pc' \notin Places /\ pc' # "parse"
      BY <3>1 DEF Places
    <3> QED BY <1>2, <3>1, <3>2 DEF PushInv
  <2> QED BY <2>3, <2>4
<1>7. CASE ~P!Parse
  <2>1. pc \in Places
    BY <1>7 DEF P!Next, Places, P!Two, P!Three, P!SwapThree, P!Half, P!Rest, P!Target, P!Move, P!Adjust, P!TurnBack
  <2>2. Given /\ Sorting(n)
    BY <1>4, <2>1 DEF PushInv
  <2>3. Sorting(n)'
    <3>1. P!Two \/ P!Three \/ P!SwapThree \/ P!Target \/ P!Move \/ P!TurnBack => Sorting(n)'
      BY <2>2, TwoKeeps, ThreeKeeps, SwapThreeKeeps, TargetKeeps, MoveKeeps, TurnBackKeeps
    <3>2. P!Half \/ P!Rest \/ P!Adjust => Sorting(n)'
      BY <1>4, <2>2, HalfKeeps, RestKeeps, AdjustKeeps
    <3> QED BY <1>7, <3>1, <3>2 DEF P!Next
  <2> QED BY <1>5, <2>2, <2>3
<1> QED BY <1>6, <1>7

\* What is on the two stacks together.
LEMMA BothAre ==
  ASSUME NEW n \in Nat, NEW s, NEW t, Shared(s, t, n)
  PROVE  P!Range(s \o t) = 1 .. n /\ Len(s \o t) = n
<1>1. s \in Seq(1 .. n) /\ t \in Seq(1 .. n)
  BY DEF Shared, Stack
<1>2. PICK u : u = s \o t
  OBVIOUS
<1>3. Len(s) \in Nat /\ Len(t) \in Nat /\ Len(s) + Len(t) = n
  BY <1>1 DEF Shared
<1>4. u \in Seq(1 .. n) /\ Len(u) = n /\ (\A k \in 1 .. Len(s) : u[k] = s[k]) /\ \A k \in 1 .. Len(t) : u[Len(s) + k] = t[k]
  BY <1>1, <1>2, <1>3
<1>5. P!Range(u) = {u[k] : k \in 1 .. n}
  BY <1>4 DEF P!Range
<1>6. \A k \in 1 .. n : u[k] \in 1 .. n
  BY <1>4
<1>7. ASSUME NEW x \in 1 .. n PROVE \E k \in 1 .. n : u[k] = x
  <2>1. CASE x \in Elements(s)
    <3>1. PICK k \in 1 .. Len(s) : s[k] = x
      BY <2>1 DEF Elements
    <3>2. k \in 1 .. n /\ u[k] = x
      BY <1>3, <1>4, <3>1
    <3> QED BY <3>2
  <2>2. CASE x \in Elements(t)
    <3>1. PICK k \in 1 .. Len(t) : t[k] = x
      BY <2>2 DEF Elements
    <3>2. Len(s) + k \in 1 .. n /\ u[Len(s) + k] = x
      BY <1>3, <1>4, <3>1
    <3> QED BY <3>2
  <2> QED BY <2>1, <2>2 DEF Shared
<1>8. P!Range(u) = 1 .. n
  BY <1>5, <1>6, <1>7
<1> QED BY <1>2, <1>4, <1>8

\* And it implies what was to be shown.
LEMMA PushSafe ==
  ASSUME PushInv
  PROVE  P!SortsAnything
<1>1. PICK n \in Nat : n = P!len
  BY DEF PushInv, ArgsOK, P!len
<1>2. pc = "refused" <=> pc # "parse" /\ ~Given
  BY DEF PushInv, Places
<1>3. ASSUME pc \notin {"parse", "refused"}
      PROVE  /\ P!Range(stack_a \o stack_b) = 1 .. P!len /\ Len(stack_a \o stack_b) = P!len
             /\ told = <<stack_a, stack_b>>
             /\ pc \in {"target", "move", "adjust", "turn"} => P!Turned(stack_a)
             /\ pc = "done" => P!Sorted(stack_a) /\ stack_b = <<>>
  <2>1. Sorting(n)
    BY <1>1, <1>3 DEF PushInv
  <2>2. Fine(n) /\ Shared(stack_a, stack_b, n) /\ Stack(stack_a, n)
    BY <2>1 DEF Sorting, Fine, Shared
  <2>3. P!Range(stack_a \o stack_b) = 1 .. n /\ Len(stack_a \o stack_b) = n
    BY <2>2, BothAre
  <2>4. ASSUME pc \in {"target", "move", "adjust", "turn"} PROVE P!Turned(stack_a)
    <3>1. Circle(stack_a)
      BY <2>1, <2>4 DEF Sorting, Many
    <3> QED BY <2>2, <3>1, CircleIsTurned
  <2>5. ASSUME pc = "done" PROVE P!Sorted(stack_a) /\ stack_b = <<>>
    <3>1. P!Sorted(stack_a) /\ Len(stack_b) = 0
      BY <2>1, <2>5 DEF Sorting, Many
    <3>2. PICK t : t = stack_b /\ t \in Seq(1 .. n)
      BY <2>2 DEF Shared, Stack
    <3>3. t = <<>>
      BY <3>1, <3>2, EmptySeq
    <3> QED BY <3>1, <3>2, <3>3
  <2> QED BY <1>1, <2>2, <2>3, <2>4, <2>5 DEF Fine
<1> QED BY <1>2, <1>3 DEF P!SortsAnything, Given

\* push_swap accepts the lists of distinct numbers and no others, however they are written,
\* one by one or in one text, and however many there are.  From then on no number is lost or doubled, the printed
\* operations are what is done to the stacks, each push back keeps a sorted up to a
\* rotation, and at the end all is sorted on a: for any arguments and any width of an int.
THEOREM SortsAll == ASSUME P!ConstantsAssumption PROVE P!Spec => []P!SortsAnything
<1>1. ArgumentsOK /\ DigitsOK /\ LowestOK
  BY AssumptionIs
<1>2. P!Init => PushInv
  <2>1. ASSUME P!Init PROVE PushInv
    <3>1. pc = "parse" /\ stack_b = <<>> /\ \E argv \in Arguments : args = P!Texts(argv)
      BY <2>1 DEF P!Init
    <3>2. PICK argv \in Arguments : args = P!Texts(argv)
      BY <3>1
    <3>3. ArgsOK
      BY <1>1, <3>2, ArgsAre
    <3> QED BY <3>1, <3>3 DEF PushInv, Places
  <2> QED BY <2>1
<1>3. PushInv /\ [P!Next]_(P!vars) => PushInv'
  <2>1. ASSUME PushInv, P!Next PROVE PushInv'
    BY <1>1, <2>1, PushKept
  <2>2. ASSUME PushInv, UNCHANGED P!vars PROVE PushInv'
    BY <2>2 DEF P!vars, PushInv, ArgsOK, Given, Sorting, Fine, Few, Many, P!len, Places
  <2> QED BY <2>1, <2>2
<1>4. PushInv => P!SortsAnything
  BY PushSafe
<1> QED BY <1>2, <1>3, <1>4, PTL DEF P!Spec

=============================================================================
