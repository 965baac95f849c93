------------------------- MODULE RayCaster_proofs -------------------------
(* Proofs about RayCaster, for any files, headings and screens.                *)
EXTENDS RayCaster, WellFoundedInduction, SequenceTheorems, TLAPS

-----------------------------------------------------------------------------
(* Numbers.                                                                    *)

\* Every set of numbers has a least one.
LEMMA LeastOf ==
  ASSUME NEW T \in SUBSET Nat, T # {}
  PROVE  \E n \in T : \A m \in T : n =< m
<1>1. PICK n \in T : \A m \in T : ~(<<m, n>> \in OpToRel(<, Nat))
  BY NatLessThanWellFounded, WFMin
<1>2. ASSUME NEW m \in T PROVE ~(m < n)
  <2>1. n \in Nat /\ m \in Nat /\ ~(<<m, n>> \in OpToRel(<, Nat))
    BY <1>1
  <2> QED BY <2>1, Zenon DEF OpToRel
<1>3. \A m \in T : n =< m
  BY <1>2
<1> QED BY <1>3

\* Induction, for a set in the place of a predicate.
LEMMA AllNumbers ==
  ASSUME NEW T, 0 \in T, \A n \in Nat : n \in T => n + 1 \in T
  PROVE  Nat \subseteq T
<1> SUFFICES ASSUME Nat \ T # {} PROVE FALSE
  OBVIOUS
<1>1. PICK n \in Nat \ T : \A m \in Nat \ T : n =< m
  BY LeastOf
<1>2. n - 1 \in Nat /\ n - 1 \in T
  BY <1>1
<1>3. n - 1 + 1 \in T
  BY <1>2
<1> QED BY <1>1, <1>3

-----------------------------------------------------------------------------
(* FlattenSeq                                                                  *)

Flat(f, ss, n) == f = [i \in 1 .. n |-> IF i = 1 THEN ss[i] ELSE f[i - 1] \o ss[i]]

\* The recursion of FlattenSeq has a solution.
LEMMA FlatExists ==
  ASSUME NEW ss
  PROVE  \A n \in Nat : \E f : Flat(f, ss, n)
<1> DEFINE T == {n \in Nat : \E f : Flat(f, ss, n)}
<1>1. 0 \in T
  <2> DEFINE f == [i \in 1 .. 0 |-> i]
  <2>1. f = [i \in 1 .. 0 |-> IF i = 1 THEN ss[i] ELSE f[i - 1] \o ss[i]]
    OBVIOUS
  <2>2. Flat(f, ss, 0)
    BY <2>1 DEF Flat
  <2> QED BY <2>2
<1>2. ASSUME NEW n \in Nat, n \in T PROVE n + 1 \in T
  <2>1. PICK f : Flat(f, ss, n)
    BY <1>2
  <2> DEFINE last == IF n = 0 THEN ss[1] ELSE f[n] \o ss[n + 1]
             g == [i \in 1 .. n + 1 |-> IF i = n + 1 THEN last ELSE f[i]]
  <2>2. ASSUME NEW i \in 1 .. n + 1
        PROVE  g[i] = IF i = 1 THEN ss[i] ELSE g[i - 1] \o ss[i]
    <3>1. CASE i = n + 1 /\ n = 0
      BY <3>1
    <3>2. CASE i = n + 1 /\ n # 0
      <4>1. g[n] = f[n]
        BY <3>2
      <4>2. g[n + 1] = f[n] \o ss[n + 1]
        BY <3>2
      <4>3. i # 1 /\ i - 1 = n /\ i = n + 1
        BY <3>2
      <4> HIDE DEF g
      <4> QED BY <4>1, <4>2, <4>3
    <3>3. CASE i # n + 1 /\ i = 1
      <4>1. i \in 1 .. n /\ g[i] = f[i]
        BY <3>3
      <4>2. f[i] = ss[i]
        BY <2>1, <3>3, <4>1 DEF Flat
      <4> QED BY <3>3, <4>1, <4>2
    <3>4. CASE i # n + 1 /\ i # 1
      <4>1. i \in 1 .. n /\ i - 1 \in 1 .. n /\ g[i] = f[i] /\ g[i - 1] = f[i - 1]
        BY <3>4
      <4>2. f[i] = f[i - 1] \o ss[i]
        BY <2>1, <3>4, <4>1 DEF Flat
      <4> QED BY <3>4, <4>1, <4>2
    <3> QED BY <3>1, <3>2, <3>3, <3>4
  <2>3. g = [i \in 1 .. n + 1 |-> IF i = 1 THEN ss[i] ELSE g[i - 1] \o ss[i]]
    <3> DEFINE h == [i \in 1 .. n + 1 |-> IF i = 1 THEN ss[i] ELSE g[i - 1] \o ss[i]]
    <3>1. \A i \in 1 .. n + 1 : g[i] = h[i]
      BY <2>2
    <3>2. DOMAIN g = 1 .. n + 1 /\ DOMAIN h = 1 .. n + 1 /\ g = [i \in DOMAIN g |-> g[i]] /\ h = [i \in DOMAIN h |-> h[i]]
      OBVIOUS
    <3> HIDE DEF g, h
    <3>3. g = h
      BY <3>1, <3>2
    <3> QED BY <3>3 DEF h
  <2>4. Flat(g, ss, n + 1)
    BY <2>3 DEF Flat
  <2>5. n + 1 \in Nat
    OBVIOUS
  <2> HIDE DEF g
  <2> QED BY <2>4, <2>5, Zenon
<1>3. Nat \subseteq T
  <2> HIDE DEF T
  <2> QED BY <1>1, <1>2, AllNumbers
<1> QED BY <1>3

\* What FlattenSeq makes of sequences: a sequence of what is in them.
LEMMA FlattenIs ==
  ASSUME NEW S, NEW ss \in Seq(Seq(S))
  PROVE  /\ FlattenSeq(ss) \in Seq(S)
         /\ \A x : (\E k \in DOMAIN FlattenSeq(ss) : FlattenSeq(ss)[k] = x)
                   <=> (\E i \in DOMAIN ss : \E j \in DOMAIN ss[i] : ss[i][j] = x)
<1>1. CASE Len(ss) = 0
  <2>1. DOMAIN ss = {} /\ ss \in Seq(S)
    <3>1. DOMAIN ss = 1 .. 0 /\ \A i \in 1 .. 0 : ss[i] \in S
      BY <1>1
    <3>2. ss = [i \in 1 .. 0 |-> ss[i]]
      BY <1>1
    <3> QED BY <3>1, <3>2
  <2>2. FlattenSeq(ss) = ss
    BY <1>1, Zenon DEF FlattenSeq
  <2> QED BY <2>1, <2>2, Zenon
<1>2. CASE Len(ss) # 0
  <2> DEFINE n == Len(ss)
             f == CHOOSE f : Flat(f, ss, n)
  <2>1. n \in Nat /\ n >= 1 /\ DOMAIN ss = 1 .. n /\ \A i \in 1 .. n : ss[i] \in Seq(S)
    BY <1>2
  <2>2. FlattenSeq(ss) = (CHOOSE g : g = [i \in 1 .. n |-> IF i = 1 THEN ss[i] ELSE g[i - 1] \o ss[i]])[n]
    BY <1>2, Zenon DEF FlattenSeq
  <2>3. f = CHOOSE g : g = [i \in 1 .. n |-> IF i = 1 THEN ss[i] ELSE g[i - 1] \o ss[i]]
    BY Zenon DEF Flat
  <2>4. FlattenSeq(ss) = f[n]
    BY <2>2, <2>3
  <2>5. Flat(f, ss, n)
    <3>1. \E g : Flat(g, ss, n)
      BY <2>1, FlatExists
    <3> QED BY <3>1, Zenon
  <2> HIDE DEF f
  <2>6. \A i \in 1 .. n : f[i] = IF i = 1 THEN ss[i] ELSE f[i - 1] \o ss[i]
    BY <2>5 DEF Flat
  <2> DEFINE Holds(m) == /\ f[m] \in Seq(S)
                         /\ \A x : (\E k \in DOMAIN f[m] : f[m][k] = x)
                                   <=> (\E i \in 1 .. m : \E j \in DOMAIN ss[i] : ss[i][j] = x)
             T == {m \in Nat : m \in 1 .. n => Holds(m)}
  <2>7. 0 \in T
    OBVIOUS
  <2>8. ASSUME NEW m \in Nat, m \in T, m + 1 \in 1 .. n PROVE Holds(m + 1)
    <3>1. CASE m = 0
      <4>1. f[1] = ss[1] /\ ss[1] \in Seq(S) /\ m + 1 = 1
        BY <2>1, <2>6, <3>1
      <4> QED BY <4>1
    <3>2. CASE m # 0
      <4>1. m \in 1 .. n /\ Holds(m)
        <5>1. m \in 1 .. n
          BY <2>1, <2>8, <3>2
        <5> HIDE DEF Holds
        <5> QED BY <2>8, <5>1
      <4>2. f[m + 1] = f[m] \o ss[m + 1]
        <5>1. m + 1 # 1 /\ m + 1 - 1 = m
          BY <3>2
        <5>2. f[m + 1] = IF m + 1 = 1 THEN ss[m + 1] ELSE f[m + 1 - 1] \o ss[m + 1]
          BY <2>6, <2>8
        <5> QED BY <5>1, <5>2
      <4> DEFINE a == f[m]
                 b == ss[m + 1]
      <4>3. a \in Seq(S) /\ b \in Seq(S)
        BY <2>1, <2>8, <4>1
      <4>4. /\ a \o b \in Seq(S)
            /\ \A x : (\E k \in DOMAIN (a \o b) : (a \o b)[k] = x)
                      <=> (\E k \in DOMAIN a : a[k] = x) \/ (\E k \in DOMAIN b : b[k] = x)
        <5> HIDE DEF a, b
        <5>1. a \o b \in Seq(S)
          BY <4>3
        <5> SUFFICES ASSUME NEW x
                     PROVE  (\E k \in DOMAIN (a \o b) : (a \o b)[k] = x)
                            <=> (\E k \in DOMAIN a : a[k] = x) \/ (\E k \in DOMAIN b : b[k] = x)
          BY <5>1
        <5>2. /\ Len(a) \in Nat /\ Len(b) \in Nat /\ DOMAIN a = 1 .. Len(a) /\ DOMAIN b = 1 .. Len(b)
              /\ DOMAIN (a \o b) = 1 .. Len(a) + Len(b)
              /\ \A k \in 1 .. Len(a) + Len(b) : (a \o b)[k] = IF k =< Len(a) THEN a[k] ELSE b[k - Len(a)]
          BY <4>3
        <5>3. ASSUME NEW k \in DOMAIN a, a[k] = x PROVE k \in DOMAIN (a \o b) /\ (a \o b)[k] = x
          BY <5>2, <5>3
        <5>4. ASSUME NEW k \in DOMAIN b, b[k] = x PROVE \E l \in DOMAIN (a \o b) : (a \o b)[l] = x
          <6>1. k + Len(a) \in DOMAIN (a \o b) /\ ~(k + Len(a) =< Len(a)) /\ k + Len(a) - Len(a) = k
            BY <5>2
          <6>2. (a \o b)[k + Len(a)] = x
            BY <5>2, <5>4, <6>1
          <6> QED BY <6>1, <6>2
        <5>5. ASSUME NEW k \in DOMAIN (a \o b), (a \o b)[k] = x
              PROVE  (\E l \in DOMAIN a : a[l] = x) \/ (\E l \in DOMAIN b : b[l] = x)
          <6>1. CASE k =< Len(a)
            BY <5>2, <5>5, <6>1
          <6>2. CASE ~(k =< Len(a))
            <7>1. k - Len(a) \in DOMAIN b /\ b[k - Len(a)] = x
              BY <5>2, <5>5, <6>2
            <7> QED BY <7>1
          <6> QED BY <6>1, <6>2
        <5> QED BY <5>3, <5>4, <5>5
      <4>5. ASSUME NEW x
            PROVE  (\E i \in 1 .. m + 1 : \E j \in DOMAIN ss[i] : ss[i][j] = x)
                   <=> (\E i \in 1 .. m : \E j \in DOMAIN ss[i] : ss[i][j] = x) \/ (\E j \in DOMAIN b : b[j] = x)
        <5>1. \A i : i \in 1 .. m + 1 <=> i \in 1 .. m \/ i = m + 1
          OBVIOUS
        <5> QED BY <5>1, Zenon
      <4> QED BY <4>1, <4>2, <4>4, <4>5
    <3> QED BY <3>1, <3>2
  <2>9. Nat \subseteq T
    <3>1. \A m \in Nat : m \in T => m + 1 \in T
      <4> SUFFICES ASSUME NEW m \in Nat, m \in T PROVE m + 1 \in T
        OBVIOUS
      <4>1. m + 1 \in 1 .. n => Holds(m + 1)
        BY <2>8
      <4> HIDE DEF Holds
      <4> QED BY <4>1
    <3> HIDE DEF T
    <3> QED BY <2>7, <3>1, AllNumbers
  <2>10. Holds(n)
    <3> HIDE DEF Holds
    <3> QED BY <2>1, <2>9
  <2> QED BY <2>1, <2>4, <2>10
<1> QED BY <1>1, <1>2

-----------------------------------------------------------------------------
(* The inductive invariant.                                                    *)

\* The characters; the provers do not find a string in STRING.
Chars == STRING \cup {" ", "0"}
Text  == Seq(Seq(Chars))
Point == Int \X Int

\* What is left of a map's tiles when its player has been taken off.
Ground == {"0", "1", " "}

\* A cell of the floor is on one side of a place of the player, or on both.
Lo(at) == <<(at[1] - REACH) \div CELL, (at[2] - REACH) \div CELL>>
Hi(at) == <<(at[1] + REACH) \div CELL, (at[2] + REACH) \div CELL>>
Spot(at) == {Lo(at)[1], Hi(at)[1]} \X {Lo(at)[2], Hi(at)[2]}

IsFloor(p) == Inside(map, p) /\ Tile(map, p) = "0"

TypeOK ==
  /\ file \in Text /\ map \in Text /\ next \in Nat \ {0}
  /\ phase \in {"scene", "fill", "play", "refused", "crash"}
  /\ player \in Point

MapOK ==
  /\ phase \in {"scene", "crash"} => map = <<>> /\ filled = {}
  /\ phase \in {"fill", "play"} =>
       map # <<>> /\ FitsIn(map) /\ \A p \in Places(map) : Tile(map, p) \in Ground

\* The flood fill has been at each place of the floor or will come to it; where it was
\* nothing is open.
FillOK ==
  phase = "fill" =>
    /\ calls \in Seq(Places(map))
    /\ \A p \in Having(map, {"0"}) : p \in filled \/ \E i \in DOMAIN calls : calls[i] = p
    /\ \A p \in filled : neighbour(p)

\* The player stands on the floor with all corners.
PlayerOK == phase \in {"fill", "play"} => \A q \in Spot(player) : IsFloor(q)

\* How far the ray is from the next line of the grid follows from where it is.
SideOK(k) ==
  ray.side[k] = IF ray.dir[k] < 0 THEN player[k] - ray.at[k] * CELL ELSE (ray.at[k] + 1) * CELL - player[k]

\* A ray that has a line of the grid at no distance is still where the player is.
Fresh(k) == ray.dir[k] # 0 /\ ray.side[k] = 0 => ray.at[3 - k] \in {Lo(player)[3 - k], Hi(player)[3 - k]}

RayOK ==
  ray # NoRay =>
    /\ phase = "play" /\ Inside(map, ray.at)
    /\ ray \in [at : Point, dir : Headings, side : Point, last : 0 .. 2, pc : {"dda", "hit"}]
    /\ ray.pc = "dda" =>
         /\ Tile(map, ray.at) = "0"
         /\ \A k \in {1, 2} : SideOK(k) /\ ray.side[k] >= 0 /\ Fresh(k)
    /\ ray.pc = "hit" => ray.last \in {1, 2} /\ ray.dir[ray.last] # 0 /\ ray.side[ray.last] > CELL

IInv == TypeOK /\ MapOK /\ FillOK /\ PlayerOK /\ RayOK /\ OnlyClosedMaps

-----------------------------------------------------------------------------
(* Units and cells.                                                            *)

\* Cells do not overlap.
LEMMA Apart ==
  ASSUME NEW a \in Int, NEW b \in Int, a < b
  PROVE  a * CELL + CELL =< b * CELL
<1>1. PICK n \in Nat : b = a + 1 + n
  <2>1. b - a - 1 \in Nat /\ b = a + 1 + (b - a - 1)
    OBVIOUS
  <2> QED BY <2>1
<1>2. CELL \in Nat /\ n * CELL \in Nat
  BY WalkAssumption
<1>3. b * CELL = a * CELL + CELL + n * CELL
  BY <1>1, <1>2
<1>4. a * CELL \in Int
  BY <1>2
<1> QED BY <1>2, <1>3, <1>4

\* A place lies in one cell.
LEMMA CellOf ==
  ASSUME NEW v \in Int
  PROVE  v \div CELL \in Int /\ (v \div CELL) * CELL =< v /\ v < (v \div CELL) * CELL + CELL
<1>1. CELL \in Nat /\ CELL > 0
  BY WalkAssumption
<1> QED BY <1>1

\* A place that lies in a cell lies in no other.
LEMMA InCell ==
  ASSUME NEW v \in Int, NEW q \in Int, q * CELL =< v, v < q * CELL + CELL
  PROVE  v \div CELL = q
<1> DEFINE d == v \div CELL
<1>1. d \in Int /\ d * CELL =< v /\ v < d * CELL + CELL
  BY CellOf
<1> HIDE DEF d
<1>2. CELL \in Nat /\ q * CELL \in Int /\ d * CELL \in Int
  BY <1>1, WalkAssumption
<1>3. ~(d < q)
  <2> SUFFICES ASSUME d < q PROVE FALSE
    OBVIOUS
  <2>1. d * CELL + CELL =< q * CELL
    BY <1>1, Apart
  <2> QED BY <1>1, <1>2, <2>1
<1>4. ~(q < d)
  <2> SUFFICES ASSUME q < d PROVE FALSE
    OBVIOUS
  <2>1. q * CELL + CELL =< d * CELL
    BY <1>1, Apart
  <2> QED BY <1>1, <1>2, <2>1
<1> QED BY <1>1, <1>3, <1>4 DEF d

\* The corners on both sides are in the cell of their middle and in one beside it at most.
LEMMA Sides ==
  ASSUME NEW a \in Int, NEW lo, NEW mid, NEW hi,
         lo = (a - REACH) \div CELL, mid = a \div CELL, hi = (a + REACH) \div CELL
  PROVE  /\ lo \in Int /\ mid \in Int /\ hi \in Int
         /\ hi = lo \/ hi = lo + 1
         /\ mid = lo \/ mid = hi
         /\ a = mid * CELL => lo = mid - 1
<1>1. CELL \in Int /\ REACH \in Int /\ 0 < REACH /\ 2 * REACH < CELL
  BY WalkAssumption
<1>2. /\ lo \in Int /\ lo * CELL =< a - REACH /\ a - REACH < lo * CELL + CELL
      /\ mid \in Int /\ mid * CELL =< a /\ a < mid * CELL + CELL
      /\ hi \in Int /\ hi * CELL =< a + REACH /\ a + REACH < hi * CELL + CELL
  <2>1. a - REACH \in Int /\ a + REACH \in Int
    BY <1>1
  <2> QED BY <2>1, CellOf
<1>3. lo * CELL \in Int /\ mid * CELL \in Int /\ hi * CELL \in Int
  BY <1>1, <1>2
<1>4. \A x \in Int, y \in Int : x < y => x * CELL + CELL =< y * CELL
  BY Apart
<1>5. (lo + 1) * CELL = lo * CELL + CELL /\ (mid - 1) * CELL = mid * CELL - CELL
  BY <1>1, <1>2
<1>6. lo =< mid /\ mid =< hi
  <2>1. mid < lo => mid * CELL + CELL =< lo * CELL
    BY <1>2, <1>4
  <2>2. hi < mid => hi * CELL + CELL =< mid * CELL
    BY <1>2, <1>4
  <2> QED BY <1>1, <1>2, <1>3, <2>1, <2>2
<1>7. hi =< lo + 1
  <2>1. lo + 1 < hi => (lo + 1) * CELL + CELL =< hi * CELL
    BY <1>2, <1>4
  <2> QED BY <1>1, <1>2, <1>3, <1>5, <2>1
<1>8. a = mid * CELL => lo = mid - 1
  <2> SUFFICES ASSUME a = mid * CELL PROVE lo = mid - 1
    OBVIOUS
  <2>1. (a - REACH) \div CELL = mid - 1
    BY <1>1, <1>2, <1>3, <1>5, InCell
  <2> QED BY <2>1
<1> QED BY <1>2, <1>6, <1>7, <1>8

\* A step that takes one corner into another cell leaves the corner behind it in the cell
\* that was left: a step is shorter than the way between two corners.
LEMMA Shift ==
  ASSUME NEW a \in Int, NEW b \in Int, b - a =< STEP, a - b =< STEP,
         NEW lo, NEW hi, NEW lo2, NEW hi2,
         lo = (a - REACH) \div CELL, hi = (a + REACH) \div CELL,
         lo2 = (b - REACH) \div CELL, hi2 = (b + REACH) \div CELL
  PROVE  /\ lo2 = lo \/ lo2 = hi \/ (lo2 = lo - 1 /\ hi2 = lo)
         /\ hi2 = lo \/ hi2 = hi \/ (hi2 = hi + 1 /\ lo2 = hi)
<1>1. CELL \in Int /\ REACH \in Int /\ 0 < REACH /\ 2 * REACH < CELL /\ STEP \in Int /\ STEP < 2 * REACH
  BY WalkAssumption
<1>2. /\ lo \in Int /\ lo * CELL =< a - REACH /\ a - REACH < lo * CELL + CELL
      /\ hi \in Int /\ hi * CELL =< a + REACH /\ a + REACH < hi * CELL + CELL
      /\ lo2 \in Int /\ lo2 * CELL =< b - REACH /\ b - REACH < lo2 * CELL + CELL
      /\ hi2 \in Int /\ hi2 * CELL =< b + REACH /\ b + REACH < hi2 * CELL + CELL
  <2>1. a - REACH \in Int /\ a + REACH \in Int /\ b - REACH \in Int /\ b + REACH \in Int
    BY <1>1
  <2> QED BY <2>1, CellOf
<1>3. lo * CELL \in Int /\ hi * CELL \in Int /\ lo2 * CELL \in Int /\ hi2 * CELL \in Int
  BY <1>1, <1>2
<1>4. \A x \in Int, y \in Int : x < y => x * CELL + CELL =< y * CELL
  BY Apart
<1>5. hi = lo \/ hi = lo + 1
  BY Sides
<1>6. hi2 = lo2 \/ hi2 = lo2 + 1
  BY Sides
<1>7. (lo - 1) * CELL = lo * CELL - CELL /\ (hi + 1) * CELL = hi * CELL + CELL
  BY <1>1, <1>2
<1>8. lo - 1 =< lo2 /\ hi2 =< hi + 1
  <2>1. lo2 < lo - 1 => lo2 * CELL + CELL =< (lo - 1) * CELL
    BY <1>2, <1>4
  <2>2. hi + 1 < hi2 => (hi + 1) * CELL + CELL =< hi2 * CELL
    BY <1>2, <1>4
  <2> QED BY <1>1, <1>2, <1>3, <1>7, <2>1, <2>2
<1>9. lo2 =< hi
  <2>1. hi < lo2 => hi * CELL + CELL =< lo2 * CELL
    BY <1>2, <1>4
  <2> QED BY <1>1, <1>2, <1>3, <2>1
<1>10. lo =< hi2
  <2>1. hi2 < lo => hi2 * CELL + CELL =< lo * CELL
    BY <1>2, <1>4
  <2> QED BY <1>1, <1>2, <1>3, <2>1
<1> QED BY <1>2, <1>5, <1>6, <1>8, <1>9, <1>10

-----------------------------------------------------------------------------
(* Maps.                                                                       *)

\* The places of a map are those inside it.
LEMMA PlacesAre ==
  ASSUME NEW rows \in Text, NEW p \in Point
  PROVE  p \in Places(rows) <=> Inside(rows, p)
<1>1. DOMAIN rows = 1 .. Len(rows) /\ Len(rows) \in Nat /\ p[1] \in Int /\ p[2] \in Int /\ p = <<p[1], p[2]>>
  BY DEF Text, Point
<1>2. ASSUME p \in Places(rows) PROVE Inside(rows, p)
  <2>1. PICK y \in DOMAIN rows : p \in (0 .. Len(rows[y]) - 1) \X {y - 1}
    BY <1>2 DEF Places
  <2>2. p[2] = y - 1 /\ p[1] \in 0 .. Len(rows[y]) - 1
    BY <2>1
  <2>3. p[2] + 1 = y
    BY <1>1, <2>2
  <2>4. p[2] \in 0 .. Len(rows) - 1
    BY <1>1, <2>1, <2>2
  <2> QED BY <2>2, <2>3, <2>4 DEF Inside
<1>3. ASSUME Inside(rows, p) PROVE p \in Places(rows)
  <2> DEFINE y == p[2] + 1
  <2>1. y \in DOMAIN rows /\ y - 1 = p[2] /\ p[1] \in 0 .. Len(rows[y]) - 1
    BY <1>1, <1>3 DEF Inside
  <2>2. p \in (0 .. Len(rows[y]) - 1) \X {y - 1}
    BY <1>1, <2>1
  <2> HIDE DEF y
  <2> QED BY <2>1, <2>2 DEF Places
<1> QED BY <1>2, <1>3

\* A place is a column and a row.
LEMMA PlacesIn == \A rows \in Text : Places(rows) \subseteq Point
<1> SUFFICES ASSUME NEW rows \in Text, NEW p \in Places(rows) PROVE p \in Point
  OBVIOUS
<1>1. PICK y \in DOMAIN rows : p \in (0 .. Len(rows[y]) - 1) \X {y - 1}
  BY DEF Places
<1>2. y \in Int /\ Len(rows[y]) \in Nat
  BY DEF Text
<1> QED BY <1>1, <1>2 DEF Point

\* A place inside has the character that is there.
LEMMA TileAt ==
  ASSUME NEW rows \in Text, NEW p \in Point, Inside(rows, p)
  PROVE  /\ p[2] + 1 \in DOMAIN rows /\ rows[p[2] + 1] \in Seq(Chars)
         /\ p[1] + 1 \in DOMAIN rows[p[2] + 1]
         /\ Tile(rows, p) = rows[p[2] + 1][p[1] + 1]
<1>1. p[1] \in Int /\ p[2] \in Int
  BY DEF Point
<1>2. p[2] + 1 \in DOMAIN rows /\ rows[p[2] + 1] \in Seq(Chars)
  BY <1>1 DEF Inside, Text
<1>3. p[1] + 1 \in DOMAIN rows[p[2] + 1] /\ p[1] # Len(rows[p[2] + 1])
  BY <1>1, <1>2 DEF Inside
<1> QED BY <1>2, <1>3 DEF Tile

\* What is near is near on both sides.
LEMMA NearOf ==
  ASSUME NEW p \in Point, NEW q \in Near(p)
  PROVE  /\ q \in Point
         /\ \/ q[1] = p[1] /\ (q[2] = p[2] - 1 \/ q[2] = p[2] + 1)
            \/ q[2] = p[2] /\ (q[1] = p[1] - 1 \/ q[1] = p[1] + 1)
  BY DEF Near, Up, Down, Left, Right, Point

\* What differs by one on one side is near.
LEMMA BesideIsNear ==
  ASSUME NEW p \in Point, NEW q \in Point,
         \/ q[1] = p[1] /\ (q[2] = p[2] - 1 \/ q[2] = p[2] + 1)
         \/ q[2] = p[2] /\ (q[1] = p[1] - 1 \/ q[1] = p[1] + 1)
  PROVE  q \in Near(p)
<1>1. q = <<q[1], q[2]>>
  BY DEF Point
<1> QED BY <1>1 DEF Near, Up, Down, Left, Right

\* In a closed map floor or a wall is on all sides of the floor.
LEMMA AroundFloor ==
  ASSUME map \in Text, Closed(map), NEW p \in Point, IsFloor(p), NEW q \in Near(p)
  PROVE  q \in Point /\ Inside(map, q) /\ Tile(map, q) \in {"0", "1"}
<1>1. p \in Having(map, {"0"})
  BY PlacesAre DEF Having, IsFloor
<1> QED BY <1>1, NearOf DEF Closed

-----------------------------------------------------------------------------
(* The player.                                                                 *)

\* can_move() looks at the cells of the corners.
LEMMA SpotIs ==
  ASSUME NEW at \in Point
  PROVE  /\ \A q \in Spot(at) : q \in Point /\ \E c \in Corners(at) : Cell(c) = q
         /\ \A c \in Corners(at) : c \in Point /\ Cell(c) \in Spot(at)
<1>1. at[1] \in Int /\ at[2] \in Int /\ REACH \in Int
  BY WalkAssumption DEF Point
<1>2. \A a \in {-REACH, REACH}, b \in {-REACH, REACH} :
        /\ <<at[1] + a, at[2] + b>> \in Corners(at)
        /\ Cell(<<at[1] + a, at[2] + b>>) = <<(at[1] + a) \div CELL, (at[2] + b) \div CELL>>
  BY DEF Corners, Cell
<1>3. /\ at[1] + (-REACH) = at[1] - REACH /\ at[2] + (-REACH) = at[2] - REACH
      /\ at[1] - REACH \in Int /\ at[1] + REACH \in Int /\ at[2] - REACH \in Int /\ at[2] + REACH \in Int
  BY <1>1
<1>4. /\ Lo(at) = <<(at[1] - REACH) \div CELL, (at[2] - REACH) \div CELL>>
      /\ Hi(at) = <<(at[1] + REACH) \div CELL, (at[2] + REACH) \div CELL>>
      /\ Lo(at)[1] \in Int /\ Lo(at)[2] \in Int /\ Hi(at)[1] \in Int /\ Hi(at)[2] \in Int
  BY <1>3, CellOf DEF Lo, Hi
<1>5. ASSUME NEW q \in Spot(at) PROVE q \in Point /\ \E c \in Corners(at) : Cell(c) = q
  <2>1. PICK x \in {Lo(at)[1], Hi(at)[1]}, y \in {Lo(at)[2], Hi(at)[2]} : q = <<x, y>>
    BY DEF Spot
  <2>2. PICK a \in {-REACH, REACH} : x = (at[1] + a) \div CELL
    BY <1>3, <1>4, <2>1
  <2>3. PICK b \in {-REACH, REACH} : y = (at[2] + b) \div CELL
    BY <1>3, <1>4, <2>1
  <2>4. Cell(<<at[1] + a, at[2] + b>>) = q /\ <<at[1] + a, at[2] + b>> \in Corners(at)
    BY <1>2, <2>1, <2>2, <2>3
  <2>5. q \in Point
    BY <1>4, <2>1 DEF Point
  <2> QED BY <2>4, <2>5
<1>6. ASSUME NEW c \in Corners(at) PROVE c \in Point /\ Cell(c) \in Spot(at)
  <2>1. PICK a \in {-REACH, REACH}, b \in {-REACH, REACH} : c = <<at[1] + a, at[2] + b>>
    BY DEF Corners
  <2>2. Cell(c) = <<(at[1] + a) \div CELL, (at[2] + b) \div CELL>>
    BY <1>2, <2>1
  <2>3. (at[1] + a) \div CELL \in {Lo(at)[1], Hi(at)[1]} /\ (at[2] + b) \div CELL \in {Lo(at)[2], Hi(at)[2]}
    BY <1>3, <1>4, <2>1
  <2>4. c \in Point
    BY <1>1, <2>1 DEF Point
  <2> QED BY <2>2, <2>3, <2>4 DEF Spot
<1> QED BY <1>5, <1>6

\* The cell the player stands in is one of those of its corners.
LEMMA MiddleIsSpot ==
  ASSUME NEW at \in Point
  PROVE  /\ \A k \in {1, 2} : Cell(at)[k] \in {Lo(at)[k], Hi(at)[k]}
         /\ \A k \in {1, 2} : at[k] = Cell(at)[k] * CELL => Lo(at)[k] = Cell(at)[k] - 1
         /\ \A k \in {1, 2} : Lo(at)[k] \in Int /\ Hi(at)[k] \in Int /\ Cell(at)[k] \in Int
         /\ Cell(at) \in Spot(at) /\ Cell(at) \in Point
<1>1. at[1] \in Int /\ at[2] \in Int
  BY DEF Point
<1>2. /\ Cell(at) = <<at[1] \div CELL, at[2] \div CELL>>
      /\ Lo(at) = <<(at[1] - REACH) \div CELL, (at[2] - REACH) \div CELL>>
      /\ Hi(at) = <<(at[1] + REACH) \div CELL, (at[2] + REACH) \div CELL>>
  BY DEF Cell, Lo, Hi
<1>3. /\ Lo(at)[1] \in Int /\ Hi(at)[1] \in Int /\ Cell(at)[1] \in Int
      /\ Cell(at)[1] = Lo(at)[1] \/ Cell(at)[1] = Hi(at)[1]
      /\ at[1] = Cell(at)[1] * CELL => Lo(at)[1] = Cell(at)[1] - 1
  BY <1>1, <1>2, Sides
<1>4. /\ Lo(at)[2] \in Int /\ Hi(at)[2] \in Int /\ Cell(at)[2] \in Int
      /\ Cell(at)[2] = Lo(at)[2] \/ Cell(at)[2] = Hi(at)[2]
      /\ at[2] = Cell(at)[2] * CELL => Lo(at)[2] = Cell(at)[2] - 1
  BY <1>1, <1>2, Sides
<1>5. Cell(at) = <<Cell(at)[1], Cell(at)[2]>>
  BY <1>2
<1> QED BY <1>3, <1>4, <1>5 DEF Spot, Point

\* A step ends on the floor: a corner that gets to another cell gets to one beside the floor,
\* or across a corner of two cells of the floor.
LEMMA StepsOnFloor ==
  ASSUME map \in Text, Closed(map), player \in Point, \A q \in Spot(player) : IsFloor(q),
         NEW at \in Point, can_move(at),
         \A k \in {1, 2} : at[k] - player[k] =< STEP /\ player[k] - at[k] =< STEP
  PROVE  \A q \in Spot(at) : IsFloor(q)
<1>1. player[1] \in Int /\ player[2] \in Int /\ at[1] \in Int /\ at[2] \in Int
  BY DEF Point
<1> DEFINE X  == {Lo(player)[1], Hi(player)[1]}
           Y  == {Lo(player)[2], Hi(player)[2]}
           X2 == {Lo(at)[1], Hi(at)[1]}
           Y2 == {Lo(at)[2], Hi(at)[2]}
<1>2. \A q \in Spot(at) : Tile(map, q) # "1"
  BY SpotIs DEF can_move
<1>3. \A x \in X, y \in Y : IsFloor(<<x, y>>)
  BY DEF Spot
<1>4. \A x \in X2, y \in Y2 : <<x, y>> \in Spot(at) /\ Tile(map, <<x, y>>) # "1"
  BY <1>2 DEF Spot
<1>5. X \subseteq Int /\ Y \subseteq Int /\ X2 \subseteq Int /\ Y2 \subseteq Int
  BY MiddleIsSpot
\* A column that is new is beside one where the player was and another corner is now.
<1>6. \A x \in X2 : x \in X \/ \E w \in X \cap X2 : x = w - 1 \/ x = w + 1
  <2> DEFINE lo == Lo(player)[1]  hi == Hi(player)[1]  lo2 == Lo(at)[1]  hi2 == Hi(at)[1]
  <2>1. /\ lo = (player[1] - REACH) \div CELL /\ hi = (player[1] + REACH) \div CELL
        /\ lo2 = (at[1] - REACH) \div CELL /\ hi2 = (at[1] + REACH) \div CELL
    BY DEF Lo, Hi
  <2> HIDE DEF lo, hi, lo2, hi2
  <2>2. /\ lo2 = lo \/ lo2 = hi \/ (lo2 = lo - 1 /\ hi2 = lo)
        /\ hi2 = lo \/ hi2 = hi \/ (hi2 = hi + 1 /\ lo2 = hi)
    BY <1>1, <2>1, Shift
  <2>3. X = {lo, hi} /\ X2 = {lo2, hi2}
    BY DEF lo, hi, lo2, hi2
  <2> HIDE DEF X, X2
  <2> QED BY <2>2, <2>3
<1>7. \A y \in Y2 : y \in Y \/ \E w \in Y \cap Y2 : y = w - 1 \/ y = w + 1
  <2> DEFINE lo == Lo(player)[2]  hi == Hi(player)[2]  lo2 == Lo(at)[2]  hi2 == Hi(at)[2]
  <2>1. /\ lo = (player[2] - REACH) \div CELL /\ hi = (player[2] + REACH) \div CELL
        /\ lo2 = (at[2] - REACH) \div CELL /\ hi2 = (at[2] + REACH) \div CELL
    BY DEF Lo, Hi
  <2> HIDE DEF lo, hi, lo2, hi2
  <2>2. /\ lo2 = lo \/ lo2 = hi \/ (lo2 = lo - 1 /\ hi2 = lo)
        /\ hi2 = lo \/ hi2 = hi \/ (hi2 = hi + 1 /\ lo2 = hi)
    BY <1>1, <2>1, Shift
  <2>3. Y = {lo, hi} /\ Y2 = {lo2, hi2}
    BY DEF lo, hi, lo2, hi2
  <2> HIDE DEF Y, Y2
  <2> QED BY <2>2, <2>3
<1> HIDE DEF X, Y, X2, Y2
<1>8. ASSUME NEW p \in Point, IsFloor(p), NEW q \in Point, q \in Near(p), Tile(map, q) # "1"
      PROVE  IsFloor(q)
  BY <1>8, AroundFloor DEF IsFloor
<1>9. \A x \in X2, y \in Y2 : x \in X => IsFloor(<<x, y>>)
  <2> SUFFICES ASSUME NEW x \in X2, NEW y \in Y2, x \in X PROVE IsFloor(<<x, y>>)
    OBVIOUS
  <2>1. CASE y \in Y
    BY <1>3, <2>1
  <2>2. CASE y \notin Y
    <3>1. PICK w \in Y : y = w - 1 \/ y = w + 1
      BY <1>7, <2>2
    <3>2. <<x, w>> \in Point /\ <<x, y>> \in Point /\ <<x, y>> \in Near(<<x, w>>)
      BY <1>5, <3>1, BesideIsNear DEF Point
    <3> QED BY <1>3, <1>4, <1>8, <3>1, <3>2
  <2> QED BY <2>1, <2>2
<1>10. \A x \in X2, y \in Y2 : x \notin X => IsFloor(<<x, y>>)
  <2> SUFFICES ASSUME NEW x \in X2, NEW y \in Y2, x \notin X PROVE IsFloor(<<x, y>>)
    OBVIOUS
  <2>1. PICK w \in X \cap X2 : x = w - 1 \/ x = w + 1
    BY <1>6
  <2>2. IsFloor(<<w, y>>)
    BY <1>9, <2>1
  <2>3. <<w, y>> \in Point /\ <<x, y>> \in Point /\ <<x, y>> \in Near(<<w, y>>)
    BY <1>5, <2>1, BesideIsNear DEF Point
  <2> QED BY <1>4, <1>8, <2>2, <2>3
<1> QED BY <1>9, <1>10 DEF Spot, X2, Y2

\* What is looked at for a step is beside the floor, along an edge or a corner: a row there
\* is, and a tile of it or its end.
LEMMA LooksInside ==
  ASSUME map \in Text, Closed(map), NEW p \in Point, IsFloor(p), NEW q \in Point,
         \A k \in {1, 2} : q[k] \in {p[k] - 1, p[k], p[k] + 1}
  PROVE  q[2] \in 0 .. Len(map) - 1 /\ q[1] \in 0 .. Len(map[q[2] + 1])
<1>1. p[1] \in Int /\ p[2] \in Int /\ Len(map) \in Nat /\ q[1] \in Int /\ q[2] \in Int
  BY DEF Point, Text
<1> DEFINE m == <<p[1], q[2]>>
           n == <<q[1], p[2]>>
<1>2. Inside(map, m)
  <2>1. CASE q[2] = p[2]
    <3>1. m = p
      BY <2>1 DEF Point
    <3> QED BY <3>1 DEF IsFloor
  <2>2. CASE q[2] # p[2]
    <3>1. m \in Point /\ m \in Near(p)
      BY <1>1, <2>2, BesideIsNear DEF Point
    <3> QED BY <3>1, AroundFloor
  <2> QED BY <2>1, <2>2
<1>3. Inside(map, n)
  <2>1. CASE q[1] = p[1]
    <3>1. n = p
      BY <2>1 DEF Point
    <3> QED BY <3>1 DEF IsFloor
  <2>2. CASE q[1] # p[1]
    <3>1. n \in Point /\ n \in Near(p)
      BY <1>1, <2>2, BesideIsNear DEF Point
    <3> QED BY <3>1, AroundFloor
  <2> QED BY <2>1, <2>2
<1>4. q[2] \in 0 .. Len(map) - 1 /\ p[1] \in 0 .. Len(map[q[2] + 1]) - 1 /\ q[1] >= 0
  BY <1>1, <1>2, <1>3 DEF Inside
<1>5. Len(map[q[2] + 1]) \in Nat
  BY <1>1, <1>4 DEF Text
<1>6. PICK width \in Nat : width = Len(map[q[2] + 1])
  BY <1>5
<1>7. PICK x \in Int : x = p[1]
  BY <1>1
<1>8. PICK y \in Int : y = q[1]
  BY <1>1
<1>9. x \in 0 .. width - 1 /\ y >= 0
  BY <1>4, <1>6, <1>7, <1>8
<1>10. y \in {x - 1, x, x + 1}
  BY <1>7, <1>8
<1>11. y \in 0 .. width
  BY <1>9, <1>10
<1> QED BY <1>4, <1>6, <1>8, <1>11

-----------------------------------------------------------------------------
(* Reading.                                                                    *)

\* A sequence of some things is one of more things.
LEMMA SeqOfMore ==
  ASSUME NEW S, NEW T, S \subseteq T
  PROVE  Seq(S) \subseteq Seq(T)
<1> SUFFICES ASSUME NEW s \in Seq(S) PROVE s \in Seq(T)
  OBVIOUS
<1>1. \A i \in 1 .. Len(s) : s[i] \in T
  OBVIOUS
<1>2. s = [i \in 1 .. Len(s) |-> s[i]] /\ Len(s) \in Nat
  OBVIOUS
<1> QED BY <1>1, <1>2

\* The files that are read are lines of characters.
LEMMA FilesAreText == Files \subseteq Text
<1>1. STRING \subseteq Chars
  BY Zenon DEF Chars
<1>2. Seq(STRING) \subseteq Seq(Chars)
  BY <1>1, SeqOfMore, Zenon
<1>3. Seq(Seq(STRING)) \subseteq Seq(Seq(Chars))
  BY <1>2, SeqOfMore, Zenon
<1> QED BY <1>3, FilesAssumption, Zenon DEF Text

\* assign_tab() makes lines of lines.
LEMMA TrimIsText == \A f \in Files : tab_trim(f) \in Text
<1> SUFFICES ASSUME NEW f \in Files PROVE tab_trim(f) \in Text
  OBVIOUS
<1>1. f \in Text
  BY FilesAreText
<1> DEFINE blank == " "
           part(c) == IF c = "\t" THEN <<blank, blank, blank>> ELSE <<c>>
           parts(i) == [j \in DOMAIN f[i] |-> part(f[i][j])]
<1>2. ASSUME NEW i \in DOMAIN f PROVE FlattenSeq(parts(i)) \in Seq(Chars)
  <2>1. f[i] \in Seq(Chars) /\ DOMAIN f[i] = 1 .. Len(f[i]) /\ Len(f[i]) \in Nat
    BY <1>1 DEF Text
  <2>2. blank \in Chars
    BY Zenon DEF Chars
  <2> HIDE DEF blank
  <2>3. ASSUME NEW c \in Chars PROVE part(c) \in Seq(Chars)
    <3>1. <<blank, blank, blank>> \in Seq(Chars) /\ <<c>> \in Seq(Chars)
      BY <2>2
    <3> QED BY <3>1, Zenon
  <2> HIDE DEF part
  <2>4. parts(i) \in Seq(Seq(Chars))
    BY <2>1, <2>3
  <2> HIDE DEF parts
  <2> QED BY <2>4, FlattenIs
<1>3. tab_trim(f) = [i \in DOMAIN f |-> FlattenSeq(parts(i))]
  BY Zenon DEF tab_trim
<1>4. DOMAIN f = 1 .. Len(f) /\ Len(f) \in Nat
  BY <1>1 DEF Text
<1> HIDE DEF parts
<1> QED BY <1>2, <1>3, <1>4 DEF Text

\* get_cords() finds each place of the floor.
LEMMA FloorIs ==
  ASSUME NEW rows \in Text
  PROVE  /\ Floor(rows) \in Seq(Places(rows))
         /\ \A p \in Having(rows, {"0"}) : \E i \in DOMAIN Floor(rows) : Floor(rows)[i] = p
<1>1. rows \in Seq(Seq(Chars)) /\ DOMAIN rows = 1 .. Len(rows) /\ Len(rows) \in Nat
  BY DEF Text
<1> DEFINE S == Places(rows)
           one(y, x) == IF rows[y][x] = "0" THEN <<<<x - 1, y - 1>>>> ELSE <<>>
           row(y) == [x \in DOMAIN rows[y] |-> one(y, x)]
           all == [y \in DOMAIN rows |-> FlattenSeq(row(y))]
<1>2. ASSUME NEW y \in DOMAIN rows
      PROVE  /\ row(y) \in Seq(Seq(S)) /\ FlattenSeq(row(y)) \in Seq(S)
             /\ \A x \in DOMAIN rows[y] : rows[y][x] = "0" =>
                  \E j \in DOMAIN FlattenSeq(row(y)) : FlattenSeq(row(y))[j] = <<x - 1, y - 1>>
  <2>1. rows[y] \in Seq(Chars) /\ DOMAIN rows[y] = 1 .. Len(rows[y]) /\ Len(rows[y]) \in Nat /\ y \in Nat
    BY <1>1
  <2>2. ASSUME NEW x \in DOMAIN rows[y] PROVE <<x - 1, y - 1>> \in S
    <3>1. x - 1 \in 0 .. Len(rows[y]) - 1
      BY <2>1
    <3> QED BY <3>1 DEF Places
  <2>3. \A x \in DOMAIN rows[y] : one(y, x) \in Seq(S)
    <3> HIDE DEF S
    <3> QED BY <2>2
  <2>4. row(y) \in Seq(Seq(S))
    <3> HIDE DEF S, one
    <3> QED BY <2>1, <2>3
  <2>5. /\ FlattenSeq(row(y)) \in Seq(S)
        /\ \A v : (\E k \in DOMAIN FlattenSeq(row(y)) : FlattenSeq(row(y))[k] = v)
                  <=> (\E i \in DOMAIN row(y) : \E j \in DOMAIN row(y)[i] : row(y)[i][j] = v)
    <3> HIDE DEF S, row
    <3> QED BY <2>4, FlattenIs
  <2>6. ASSUME NEW x \in DOMAIN rows[y], rows[y][x] = "0"
        PROVE  \E i \in DOMAIN row(y) : \E j \in DOMAIN row(y)[i] : row(y)[i][j] = <<x - 1, y - 1>>
    <3>1. x \in DOMAIN row(y) /\ row(y)[x] = <<<<x - 1, y - 1>>>>
      BY <2>6
    <3>2. 1 \in DOMAIN row(y)[x] /\ row(y)[x][1] = <<x - 1, y - 1>>
      BY <3>1
    <3> HIDE DEF row
    <3> QED BY <3>1, <3>2
  <2> HIDE DEF S, row
  <2> QED BY <2>4, <2>5, <2>6
<1>3. Floor(rows) = FlattenSeq(all)
  BY Zenon DEF Floor
<1>4. all \in Seq(Seq(S))
  <2> HIDE DEF S, row
  <2> QED BY <1>1, <1>2
<1>5. /\ FlattenSeq(all) \in Seq(S)
      /\ \A v : (\E k \in DOMAIN FlattenSeq(all) : FlattenSeq(all)[k] = v)
                <=> (\E i \in DOMAIN all : \E j \in DOMAIN all[i] : all[i][j] = v)
  <2> HIDE DEF S, all
  <2> QED BY <1>4, FlattenIs
<1>6. ASSUME NEW p \in Having(rows, {"0"})
      PROVE  \E i \in DOMAIN all : \E j \in DOMAIN all[i] : all[i][j] = p
  <2>1. p \in Point /\ Inside(rows, p) /\ Tile(rows, p) = "0"
    BY PlacesIn, PlacesAre DEF Having
  <2>2. p[1] \in Int /\ p[2] \in Int /\ p = <<p[1], p[2]>> /\ p[1] + 1 - 1 = p[1] /\ p[2] + 1 - 1 = p[2]
    BY <2>1 DEF Point
  <2>3. PICK y \in DOMAIN rows : y = p[2] + 1 /\ p[1] + 1 \in DOMAIN rows[y] /\ rows[y][p[1] + 1] = "0"
    BY <2>1, TileAt
  <2>4. PICK x \in DOMAIN rows[y] : x = p[1] + 1 /\ rows[y][x] = "0"
    BY <2>3
  <2>5. \E j \in DOMAIN FlattenSeq(row(y)) : FlattenSeq(row(y))[j] = p
    <3>1. \E j \in DOMAIN FlattenSeq(row(y)) : FlattenSeq(row(y))[j] = <<x - 1, y - 1>>
      <4> HIDE DEF row
      <4> QED BY <1>2, <2>4
    <3>2. <<x - 1, y - 1>> = p
      BY <2>2, <2>3, <2>4
    <3> HIDE DEF row
    <3> QED BY <3>1, <3>2
  <2>6. y \in DOMAIN all /\ all[y] = FlattenSeq(row(y))
    BY <2>2
  <2> HIDE DEF all, row
  <2> QED BY <2>5, <2>6
<1> HIDE DEF all
<1> QED BY <1>3, <1>5, <1>6

\* find_str() finds a line, or the end.
LEMMA FoundAt ==
  ASSUME file \in Text, next \in Nat \ {0}, next =< Len(file)
  PROVE  /\ find_str \in next .. Len(file) + 1
         /\ find_str =< Len(file) => file[find_str] # <<>>
<1>1. Len(file) \in Nat
  BY DEF Text
<1> DEFINE T == {i \in next .. Len(file) + 1 : i =< Len(file) => file[i] # <<>>}
<1>2. T \in SUBSET Nat /\ Len(file) + 1 \in T
  BY <1>1
<1>3. PICK i \in T : \A m \in T : i =< m
  <2> HIDE DEF T
  <2> QED BY <1>2, LeastOf
<1>4. i \in next .. Len(file) + 1 /\ (i =< Len(file) => file[i] # <<>>)
  BY <1>3
<1>5. ASSUME NEW j \in next .. i - 1 PROVE file[j] = <<>>
  <2>1. j \in next .. Len(file) + 1 /\ ~(i =< j) /\ j =< Len(file)
    BY <1>1, <1>4
  <2> QED BY <1>3, <2>1
<1>6. \E n \in next .. Len(file) + 1 : (n =< Len(file) => file[n] # <<>>) /\ \A j \in next .. n - 1 : file[j] = <<>>
  BY <1>4, <1>5
<1> QED BY <1>6 DEF find_str

\* What is taken for the map is rows.
LEMMA RowsAreText ==
  ASSUME file \in Text, next \in Nat \ {0}
  PROVE  MapRows \in Text
<1>1. Len(file) \in Nat
  BY DEF Text
<1>2. CASE Found
  <2>1. find_str \in next .. Len(file) /\ find_str \in Nat \ {0}
    BY <1>1, <1>2, FoundAt DEF Found
  <2> DEFINE T == {i \in find_str .. Len(file) + 1 : i =< Len(file) => file[i] = <<>>}
  <2>2. T \in SUBSET Nat /\ Len(file) + 1 \in T
    BY <1>1, <2>1
  <2>3. PICK i \in T : \A m \in T : i =< m
    <3> HIDE DEF T
    <3> QED BY <2>2, LeastOf
  <2>4. i \in find_str .. Len(file) + 1 /\ (i =< Len(file) => file[i] = <<>>)
    BY <2>3
  <2>5. ASSUME NEW j \in find_str .. i - 1 PROVE file[j] # <<>>
    <3>1. j \in find_str .. Len(file) + 1 /\ ~(i =< j) /\ j =< Len(file)
      BY <1>1, <2>1, <2>4
    <3> QED BY <2>3, <3>1
  <2> DEFINE P(n) == (n =< Len(file) => file[n] = <<>>) /\ \A j \in find_str .. n - 1 : file[j] # <<>>
             e == CHOOSE n \in find_str .. Len(file) + 1 : P(n)
  <2>6. e \in find_str .. Len(file) + 1
    <3>1. P(i)
      BY <2>4, <2>5
    <3> HIDE DEF P
    <3> QED BY <2>4, <3>1
  <2>7. MapRows = SubSeq(file, find_str, e - 1)
    BY <1>2, Zenon DEF MapRows, Rows
  <2> HIDE DEF e
  <2>8. e - 1 \in Int /\ e - 1 =< Len(file) /\ \A n \in find_str .. e - 1 : n \in 1 .. Len(file)
    BY <1>1, <2>1, <2>6
  <2>9. SubSeq(file, find_str, e - 1) \in Seq(Seq(Chars))
    BY <2>1, <2>8, SubSeqProperties DEF Text
  <2> QED BY <2>7, <2>9 DEF Text
<1>3. CASE ~Found
  BY <1>3 DEF MapRows, Text
<1> QED BY <1>2, <1>3

\* A row is the longest.
LEMMA LongestRow ==
  ASSUME map \in Text, map # <<>>
  PROVE  SizeX \in Nat /\ \A y \in DOMAIN map : Len(map[y]) + 1 =< SizeX
<1>1. /\ DOMAIN map = 1 .. Len(map) /\ Len(map) \in Nat /\ Len(map) # 0
      /\ \A y \in DOMAIN map : Len(map[y]) \in Nat
  BY DEF Text
<1> DEFINE Longest(m, k) == k \in 1 .. m /\ \A y \in 1 .. m : Len(map[y]) =< Len(map[k])
           T == {m \in Nat : m \in DOMAIN map => \E k \in Nat : Longest(m, k)}
<1>2. 0 \in T
  BY <1>1
<1>3. ASSUME NEW m \in Nat, m \in T, m + 1 \in DOMAIN map PROVE \E k \in Nat : Longest(m + 1, k)
  <2>1. CASE m = 0
    <3>1. Longest(1, 1)
      BY <1>1
    <3> QED BY <2>1, <3>1
  <2>2. CASE m # 0
    <3>1. m \in DOMAIN map
      BY <1>1, <1>3, <2>2
    <3>2. PICK k \in Nat : Longest(m, k)
      <4> HIDE DEF Longest
      <4> QED BY <1>3, <3>1
    <3>3. \A y \in 1 .. m + 1 : y \in 1 .. m \/ y = m + 1
      OBVIOUS
    <3>4. \A y \in 1 .. m + 1 : Len(map[y]) \in Nat
      BY <1>1, <1>3
    <3>5. CASE Len(map[m + 1]) =< Len(map[k])
      <4>1. Longest(m + 1, k)
        BY <3>2, <3>3, <3>5
      <4> QED BY <4>1
    <3>6. CASE ~(Len(map[m + 1]) =< Len(map[k]))
      <4>1. k \in 1 .. m + 1 /\ \A y \in 1 .. m : Len(map[y]) =< Len(map[k])
        BY <3>2
      <4>2. Longest(m + 1, m + 1)
        BY <3>3, <3>4, <3>6, <4>1
      <4> QED BY <4>2
    <3> QED BY <3>5, <3>6
  <2> QED BY <2>1, <2>2
<1>4. Nat \subseteq T
  <2>1. \A m \in Nat : m \in T => m + 1 \in T
    <3> HIDE DEF Longest
    <3> QED BY <1>3
  <2> HIDE DEF T
  <2> QED BY <1>2, <2>1, AllNumbers
<1>5. PICK k \in Nat : Longest(Len(map), k)
  <2>1. Len(map) \in DOMAIN map /\ Len(map) \in T
    <3> HIDE DEF T
    <3> QED BY <1>1, <1>4
  <2> HIDE DEF Longest
  <2> QED BY <2>1
<1> DEFINE L == {Len(map[y]) : y \in DOMAIN map}
           Bound(n) == \A y \in DOMAIN map : Len(map[y]) =< n
           n0 == CHOOSE n \in L : Bound(n)
<1>6. n0 \in L /\ Bound(n0)
  <2>1. Len(map[k]) \in L /\ Bound(Len(map[k]))
    BY <1>1, <1>5
  <2> HIDE DEF L, Bound
  <2> QED BY <2>1
<1>7. SizeX = 1 + n0
  BY DEF SizeX
<1> HIDE DEF n0
<1>8. n0 \in Nat
  BY <1>1, <1>6
<1> QED BY <1>1, <1>6, <1>7, <1>8

\* So fill() goes on at a place of the floor that it has not marked, and only there.
LEMMA PassedIs ==
  ASSUME map \in Text, NEW p \in Places(map)
  PROVE  /\ p \in Point /\ Inside(map, p) /\ map # <<>>
         /\ Passed(p) <=> p \in filled \/ Tile(map, p) # "0"
         /\ p[1] # SizeX - 1
<1>1. p \in Point /\ Inside(map, p)
  BY PlacesIn, PlacesAre
<1>2. p[1] \in Int /\ p[2] \in Int /\ p[2] + 1 \in DOMAIN map /\ p[2] \in 0 .. Len(map) - 1
  BY <1>1, TileAt DEF Point, Inside
<1>3. map # <<>>
  BY <1>2
<1>4. SizeX \in Nat /\ Len(map[p[2] + 1]) + 1 =< SizeX /\ Len(map[p[2] + 1]) \in Nat
  BY <1>2, <1>3, LongestRow DEF Text
<1>5. p[1] \in 0 .. SizeX - 1 /\ p[1] # SizeX - 1
  BY <1>1, <1>2, <1>4 DEF Inside
<1> QED BY <1>1, <1>2, <1>3, <1>5 DEF Passed

\* A map in which fill() stops is open.
LEMMA FailsAreOpen ==
  ASSUME map \in Text, NEW p \in Places(map), ~Passed(p), OnBorder(p) \/ ~neighbour(p)
  PROVE  ~Closed(map)
<1>1. p \in Point /\ Inside(map, p) /\ p[1] # SizeX - 1 /\ Tile(map, p) = "0"
  BY PassedIs
<1> SUFFICES ASSUME Closed(map) PROVE FALSE
  OBVIOUS
<1>2. \A q \in Near(p) : Inside(map, q) /\ Tile(map, q) \in {"0", "1"}
  BY <1>1, AroundFloor DEF IsFloor
<1>3. neighbour(p)
  BY <1>2, Zenon DEF neighbour
<1>4. p[1] = 0 \/ p[2] = 0 \/ p[2] = Len(map) - 1
  BY <1>1, <1>3 DEF OnBorder
<1>5. p[1] \in Int /\ p[2] \in Int /\ Len(map) \in Nat
  BY <1>1 DEF Point, Text
<1>6. Left(p) \in Near(p) /\ Up(p) \in Near(p) /\ Down(p) \in Near(p)
  BY DEF Near
<1>7. CASE p[1] = 0
  <2>1. Left(p)[1] = -1
    BY <1>7 DEF Left
  <2>2. Inside(map, Left(p))
    BY <1>2, <1>6
  <2> QED BY <2>1, <2>2 DEF Inside
<1>8. CASE p[2] = 0
  <2>1. Up(p)[2] = -1
    BY <1>8 DEF Up
  <2>2. Inside(map, Up(p))
    BY <1>2, <1>6
  <2> QED BY <2>1, <2>2 DEF Inside
<1>9. CASE p[2] = Len(map) - 1
  <2>1. Down(p)[2] = Len(map)
    BY <1>5, <1>9 DEF Down
  <2>2. Inside(map, Down(p))
    BY <1>2, <1>6
  <2> QED BY <1>5, <2>1, <2>2 DEF Inside
<1> QED BY <1>4, <1>7, <1>8, <1>9

\* A map that fill() has been all over is closed.
LEMMA FilledIsClosed ==
  ASSUME map \in Text, \A p \in Places(map) : Tile(map, p) \in Ground,
         \A p \in Having(map, {"0"}) : neighbour(p)
  PROVE  Closed(map)
<1> SUFFICES ASSUME NEW p \in Having(map, {"0"}), NEW q \in Near(p)
             PROVE  Inside(map, q) /\ Tile(map, q) \in {"0", "1"}
  BY DEF Closed
<1>1. Inside(map, q) /\ Tile(map, q) # " "
  BY Zenon DEF neighbour
<1>2. p \in Point
  BY PlacesIn DEF Having
<1>3. q \in Point
  BY <1>2, NearOf
<1>4. q \in Places(map)
  BY <1>1, <1>3, PlacesAre
<1>5. Tile(map, q) \in Ground
  BY <1>4
<1>6. Tile(map, q) \in {"0", "1"}
  BY <1>1, <1>5, Zenon DEF Ground
<1> QED BY <1>1, <1>6

\* The place of the player becomes floor, and nothing else changes (fill_map() and the like).
LEMMA MarkedMap ==
  ASSUME NEW rows \in Text, GoodTiles(rows), NEW p \in Having(rows, Players),
         NEW m, m = [rows EXCEPT ![p[2] + 1][p[1] + 1] = "0"]
  PROVE  /\ m \in Text /\ m # <<>>
         /\ p \in Point /\ Inside(m, p) /\ Tile(m, p) = "0"
         /\ \A q \in Places(m) : Tile(m, q) \in Ground
<1>1. p \in Point /\ Inside(rows, p) /\ p \in Places(rows)
  BY PlacesIn, PlacesAre DEF Having
<1> DEFINE y == p[2] + 1
           x == p[1] + 1
<1>2. p[1] \in Int /\ p[2] \in Int /\ p = <<p[1], p[2]>>
  BY <1>1 DEF Point
<1>3. y \in DOMAIN rows /\ rows[y] \in Seq(Chars) /\ x \in DOMAIN rows[y]
  BY <1>1, TileAt
<1>4. rows \in Seq(Seq(Chars)) /\ "0" \in Chars /\ DOMAIN rows = 1 .. Len(rows) /\ Len(rows) \in Nat
  <2>1. "0" \in Chars
    BY Zenon DEF Chars
  <2> QED BY <2>1 DEF Text
<1> DEFINE row == [rows[y] EXCEPT ![x] = "0"]
<1>5. row \in Seq(Chars) /\ Len(row) = Len(rows[y]) /\ DOMAIN row = DOMAIN rows[y] /\ row[x] = "0"
      /\ \A i \in DOMAIN row : i # x => row[i] = rows[y][i]
  BY <1>3, <1>4
<1>6. m = [rows EXCEPT ![y] = row]
  BY <1>3
<1> HIDE DEF row
<1>7. m \in Text /\ Len(m) = Len(rows) /\ DOMAIN m = DOMAIN rows /\ m[y] = row
      /\ \A i \in DOMAIN m : i # y => m[i] = rows[i]
  BY <1>3, <1>4, <1>5, <1>6 DEF Text
<1>8. \A i \in DOMAIN m : Len(m[i]) = Len(rows[i])
  BY <1>5, <1>7
<1>9. ASSUME NEW q \in Point, Inside(m, q)
      PROVE  /\ Inside(rows, q)
             /\ Tile(m, q) = IF q = p THEN "0" ELSE Tile(rows, q)
  <2>1. q[2] + 1 \in DOMAIN m /\ q[1] + 1 \in DOMAIN m[q[2] + 1] /\ Tile(m, q) = m[q[2] + 1][q[1] + 1]
    BY <1>7, <1>9, TileAt
  <2>2. Inside(rows, q)
    <3>1. q[2] \in 0 .. Len(rows) - 1 /\ q[1] \in 0 .. Len(m[q[2] + 1]) - 1
      BY <1>7, <1>9 DEF Inside
    <3>2. Len(m[q[2] + 1]) = Len(rows[q[2] + 1])
      BY <1>8, <2>1
    <3> QED BY <3>1, <3>2 DEF Inside
  <2>3. Tile(rows, q) = rows[q[2] + 1][q[1] + 1]
    BY <2>2, TileAt
  <2>4. q[1] \in Int /\ q[2] \in Int /\ q = <<q[1], q[2]>>
    BY DEF Point
  <2>5. CASE q = p
    <3>1. Tile(m, q) = row[x]
      BY <1>7, <2>1, <2>5
    <3> QED BY <1>5, <2>2, <2>5, <3>1
  <2>6. CASE q # p
    <3>1. q[1] # p[1] \/ q[2] # p[2]
      BY <1>2, <2>4, <2>6
    <3>2. CASE q[2] # p[2]
      <4>1. q[2] + 1 # y
        BY <1>2, <2>4, <3>2
      <4>2. m[q[2] + 1] = rows[q[2] + 1]
        BY <1>7, <2>1, <4>1
      <4> QED BY <2>1, <2>2, <2>3, <2>6, <4>2
    <3>3. CASE q[2] = p[2]
      <4>1. q[1] + 1 # x /\ q[2] + 1 = y
        BY <1>2, <2>4, <3>1, <3>3
      <4>2. row[q[1] + 1] = rows[y][q[1] + 1]
        BY <1>5, <1>7, <2>1, <4>1
      <4> QED BY <1>7, <2>1, <2>2, <2>3, <2>6, <4>1, <4>2
    <3> QED BY <3>2, <3>3
  <2> QED BY <2>5, <2>6
<1>10. Inside(m, p)
  <2>1. p[2] + 1 \in DOMAIN m
    BY <1>3, <1>7
  <2>2. Len(m[p[2] + 1]) = Len(rows[p[2] + 1])
    BY <1>8, <2>1
  <2> QED BY <1>1, <1>7, <2>2 DEF Inside
<1>11. Tile(m, p) = "0"
  BY <1>1, <1>9, <1>10
<1>12. m # <<>>
  BY <1>3, <1>7
<1>13. ASSUME NEW q \in Places(m) PROVE Tile(m, q) \in Ground
  <2>1. q \in Point /\ Inside(m, q)
    BY <1>7, PlacesIn, PlacesAre
  <2>2. CASE q = p
    <3>1. Tile(m, q) = "0"
      BY <1>11, <2>2
    <3> QED BY <3>1, Zenon DEF Ground
  <2>3. CASE q # p
    <3>1. Tile(m, q) = Tile(rows, q) /\ q \in Places(rows)
      BY <1>9, <2>1, <2>3, PlacesAre
    <3>2. Tile(rows, q) \in Tiles
      BY <3>1 DEF GoodTiles
    <3>3. PICK r \in Places(rows) : Having(rows, Players) = {r}
      BY DEF GoodTiles
    <3>4. q \notin Having(rows, Players)
      BY <2>3, <3>3
    <3>5. Tile(rows, q) \notin Players
      BY <3>1, <3>4 DEF Having
    <3>6. Tile(rows, q) \in Ground
      BY <3>2, <3>5, Zenon DEF Ground, Tiles, Players
    <3> QED BY <3>1, <3>6
  <2> QED BY <2>2, <2>3
<1> QED BY <1>1, <1>7, <1>10, <1>11, <1>12, <1>13

\* It is as big as before.
LEMMA MarkedFits ==
  ASSUME NEW rows \in Text, FitsIn(rows), NEW y \in Int, NEW x \in Int
  PROVE  FitsIn([rows EXCEPT ![y][x] = "0"])
<1>1. rows \in Seq(Seq(Chars)) /\ DOMAIN rows = 1 .. Len(rows) /\ Len(rows) \in Nat
  BY DEF Text
<1>2. CASE y \notin DOMAIN rows
  <2>1. [rows EXCEPT ![y][x] = "0"] = rows
    BY <1>1, <1>2
  <2> QED BY <2>1
<1>3. CASE y \in DOMAIN rows
  <2> DEFINE row == [rows[y] EXCEPT ![x] = "0"]
  <2>0. "0" \in Chars
    BY Zenon DEF Chars
  <2>1. rows[y] \in Seq(Chars)
    BY <1>1, <1>3
  <2>2. row \in Seq(Chars) /\ Len(row) = Len(rows[y])
    <3>1. rows[y] \in [1 .. Len(rows[y]) -> Chars] /\ Len(rows[y]) \in Nat
      BY <2>1
    <3>2. row \in [1 .. Len(rows[y]) -> Chars]
      BY <2>0, <3>1
    <3> QED BY <3>1, <3>2
  <2>3. [rows EXCEPT ![y][x] = "0"] = [rows EXCEPT ![y] = row]
    OBVIOUS
  <2> HIDE DEF row
  <2>4. \A i \in DOMAIN rows : [rows EXCEPT ![y] = row][i] = IF i = y THEN row ELSE rows[i]
    BY <1>1, <1>3
  <2>5. [rows EXCEPT ![y] = row] \in Seq(Seq(Chars)) /\ Len([rows EXCEPT ![y] = row]) = Len(rows)
    BY <1>1, <1>3, <2>2
  <2> QED BY <1>1, <2>2, <2>3, <2>4, <2>5 DEF FitsIn
<1> QED BY <1>2, <1>3

\* Around the middle of a cell is the cell.
LEMMA MiddleOf ==
  ASSUME NEW a \in Int, NEW u, u = a * CELL + CELL \div 2
  PROVE  u \in Int /\ (u - REACH) \div CELL = a /\ (u + REACH) \div CELL = a
<1>1. CELL \in Int /\ REACH \in Int /\ 0 < REACH /\ 2 * REACH < CELL
  BY WalkAssumption
<1> DEFINE h == CELL \div 2
<1>2. h \in Int /\ 2 * h =< CELL /\ CELL =< 2 * h + 1 /\ u = a * CELL + h
  BY <1>1
<1> HIDE DEF h
<1>3. REACH =< h /\ h + REACH < CELL
  BY <1>1, <1>2
<1>4. a * CELL \in Int
  BY <1>1
<1>5. /\ u \in Int
      /\ u - REACH \in Int /\ a * CELL =< u - REACH /\ u - REACH < a * CELL + CELL
      /\ u + REACH \in Int /\ a * CELL =< u + REACH /\ u + REACH < a * CELL + CELL
  BY <1>1, <1>2, <1>3, <1>4
<1> QED BY <1>5, InCell

\* The player begins in the middle of its cell, with all corners in it.
LEMMA StartSpot ==
  ASSUME NEW p \in Point, NEW at, at = <<p[1] * CELL + CELL \div 2, p[2] * CELL + CELL \div 2>>
  PROVE  at \in Point /\ Spot(at) = {p}
<1>1. p[1] \in Int /\ p[2] \in Int /\ p = <<p[1], p[2]>>
  BY DEF Point
<1> DEFINE u == p[1] * CELL + CELL \div 2
           v == p[2] * CELL + CELL \div 2
<1>2. at = <<u, v>>
  OBVIOUS
<1>3. u = p[1] * CELL + CELL \div 2 /\ v = p[2] * CELL + CELL \div 2
  OBVIOUS
<1> HIDE DEF u, v
<1>4. /\ u \in Int /\ (u - REACH) \div CELL = p[1] /\ (u + REACH) \div CELL = p[1]
      /\ v \in Int /\ (v - REACH) \div CELL = p[2] /\ (v + REACH) \div CELL = p[2]
  BY <1>1, <1>3, MiddleOf
<1>5. at \in Point /\ Lo(at) = <<p[1], p[2]>> /\ Hi(at) = <<p[1], p[2]>>
  <2>1. at[1] = u /\ at[2] = v
    BY <1>2
  <2>2. at \in Point
    BY <1>2, <1>4 DEF Point
  <2> QED BY <1>4, <2>1, <2>2 DEF Lo, Hi
<1>6. Spot(at) = {p[1]} \X {p[2]}
  BY <1>5 DEF Spot
<1>7. Spot(at) = {<<p[1], p[2]>>}
  BY <1>6
<1> QED BY <1>1, <1>5, <1>7

-----------------------------------------------------------------------------
(* Every step keeps the invariant.                                             *)

\* No ray is cast before the map is in play.
LEMMA QuietRay == IInv /\ phase # "play" => ray = NoRay
  BY DEF IInv, RayOK

\* The program begins with a file and nothing read of it.
LEMMA InitInv == Init => IInv
<1> SUFFICES ASSUME Init PROVE IInv
  OBVIOUS
<1>1. file \in Text /\ map \in Text
  BY TrimIsText DEF Init, Text
<1>2. TypeOK
  BY <1>1 DEF Init, TypeOK, Point, NoPlayer
<1>3. Places(map) = {}
  BY DEF Init, Places
<1>4. MapOK /\ FillOK /\ PlayerOK
  BY <1>3 DEF Init, MapOK, FillOK, PlayerOK
<1>5. RayOK /\ OnlyClosedMaps
  BY DEF Init, RayOK, OnlyClosedMaps
<1> QED BY <1>2, <1>4, <1>5 DEF IInv

\* While the scene is read there is nothing else.
LEMMA SceneStep ==
  ASSUME IInv, phase = "scene", map' = <<>>, filled' = filled, ray' = ray,
         phase' \in {"scene", "refused", "crash"},
         file' = file, player' = player, next' \in Nat \ {0}
  PROVE  IInv'
<1>1. map = <<>> /\ filled = {} /\ ray = NoRay /\ file \in Text /\ player \in Point /\ map \in Text
  BY QuietRay DEF IInv, MapOK, TypeOK
<1>2. Places(map') = {}
  BY DEF Places
<1>3. TypeOK'
  BY <1>1 DEF TypeOK
<1>4. MapOK' /\ FillOK' /\ PlayerOK'
  BY <1>1, <1>2 DEF MapOK, FillOK, PlayerOK
<1>5. RayOK' /\ OnlyClosedMaps'
  BY <1>1 DEF RayOK, OnlyClosedMaps
<1> QED BY <1>3, <1>4, <1>5 DEF IInv

\* Reading an element, or refusing one (parse_textures(), parse_colors(), parse_map()).
LEMMA ReadStep == IInv /\ (ReadElement \/ BadElement \/ NoColor \/ BadMap) => IInv'
<1> SUFFICES ASSUME IInv, ReadElement \/ BadElement \/ NoColor \/ BadMap PROVE IInv'
  OBVIOUS
<1>1. phase = "scene" /\ map' = map /\ filled' = filled /\ ray' = ray /\ file' = file /\ player' = player
      /\ phase' \in {"scene", "refused", "crash"}
  BY DEF ReadElement, BadElement, NoColor, BadMap, Refuse
<1>2. map = <<>> /\ file \in Text /\ next \in Nat \ {0}
  BY <1>1 DEF IInv, MapOK, TypeOK
<1>3. next' \in Nat \ {0}
  <2>1. CASE ReadElement
    <3>1. Found /\ next' = find_str + 1
      BY <2>1 DEF ReadElement
    <3>2. find_str \in Nat /\ Len(file) \in Nat
      BY <1>2, <3>1, FoundAt DEF Found, Text
    <3> QED BY <3>1, <3>2
  <2>2. CASE BadElement \/ NoColor \/ BadMap
    BY <1>2, <2>2 DEF BadElement, NoColor, BadMap, Refuse
  <2> QED BY <2>1, <2>2
<1> QED BY <1>1, <1>2, <1>3, SceneStep

\* A map that is too big is not played in (init_parse(), get_w_h()).
LEMMA TooBigStep == IInv /\ TooBig => IInv'
<1> SUFFICES ASSUME IInv, TooBig PROVE IInv'
  OBVIOUS
<1>1. /\ phase = "scene" /\ ~FitsIn(MapRows) /\ map' = MapRows /\ phase' = "refused"
      /\ file' = file /\ next' = next /\ player' = player /\ ray' = ray
  BY DEF TooBig
<1>2. file \in Text /\ next \in Nat \ {0} /\ player \in Point /\ ray = NoRay
  BY <1>1, QuietRay DEF IInv, TypeOK
<1>3. MapRows \in Text
  BY <1>2, RowsAreText
<1>4. TypeOK'
  BY <1>1, <1>2, <1>3 DEF TypeOK
<1>5. MapOK' /\ FillOK' /\ PlayerOK'
  BY <1>1 DEF MapOK, FillOK, PlayerOK
<1>6. RayOK'
  BY <1>1, <1>2 DEF RayOK
<1>7. ~FitsIn(map')
  BY <1>1
<1>8. OnlyClosedMaps'
  BY <1>1, <1>7 DEF OnlyClosedMaps, FitsIn
<1> QED BY <1>4, <1>5, <1>6, <1>8 DEF IInv

\* Reading the map: the player stands in the middle of a cell, and all the floor is to be filled.
LEMMA ReadMapStep == IInv /\ ReadMap => IInv'
<1> SUFFICES ASSUME IInv, ReadMap PROVE IInv'
  OBVIOUS
<1>1. /\ phase = "scene" /\ FitsIn(MapRows) /\ GoodTiles(MapRows) /\ calls' = Floor(map') /\ phase' = "fill"
      /\ file' = file /\ next' = next /\ filled' = filled /\ ray' = ray
  BY DEF ReadMap
<1>2. PICK p \in Having(MapRows, Players) :
        /\ map' = [MapRows EXCEPT ![p[2] + 1][p[1] + 1] = "0"]
        /\ player' = <<p[1] * CELL + CELL \div 2, p[2] * CELL + CELL \div 2>>
  BY DEF ReadMap
<1>3. file \in Text /\ next \in Nat \ {0} /\ filled = {} /\ ray = NoRay
  BY <1>1, QuietRay DEF IInv, TypeOK, MapOK
<1>4. MapRows \in Text
  BY <1>3, RowsAreText
<1>5. /\ map' \in Text /\ map' # <<>>
      /\ p \in Point /\ Inside(map', p) /\ Tile(map', p) = "0"
      /\ \A q \in Places(map') : Tile(map', q) \in Ground
  BY <1>1, <1>2, <1>4, MarkedMap
<1>12. FitsIn(map')
  <2>1. p[2] + 1 \in Int /\ p[1] + 1 \in Int
    BY <1>5 DEF Point
  <2> QED BY <1>1, <1>2, <1>4, <2>1, MarkedFits
<1>6. player' \in Point /\ Spot(player') = {p}
  BY <1>2, <1>5, StartSpot
<1>7. TypeOK'
  BY <1>1, <1>3, <1>5, <1>6 DEF TypeOK
<1>8. MapOK'
  BY <1>1, <1>5, <1>12 DEF MapOK, FitsIn
<1>9. FillOK'
  BY <1>1, <1>3, <1>5, FloorIs DEF FillOK
<1>10. PlayerOK'
  BY <1>5, <1>6 DEF PlayerOK, IsFloor
<1>11. RayOK' /\ OnlyClosedMaps'
  BY <1>1, <1>3 DEF RayOK, OnlyClosedMaps
<1> QED BY <1>7, <1>8, <1>9, <1>10, <1>11 DEF IInv

\* A step of fill() leaves the file, the map and the player alone.
LEMMA FillKeeps ==
  ASSUME IInv, phase = "fill", phase' \in {"fill", "play", "refused"},
         file' = file, next' = next, map' = map, player' = player, ray' = ray
  PROVE  TypeOK' /\ MapOK' /\ PlayerOK' /\ RayOK'
<1>1. ray = NoRay /\ map # <<>> /\ FitsIn(map) /\ \A p \in Places(map) : Tile(map, p) \in Ground
  BY QuietRay DEF IInv, MapOK
<1>2. TypeOK'
  BY DEF IInv, TypeOK
<1>3. MapOK' /\ RayOK'
  BY <1>1 DEF MapOK, RayOK, FitsIn
<1>4. Spot(player') = Spot(player)
  BY DEF Spot, Lo, Hi
<1>5. \A q \in Spot(player) : Inside(map, q) /\ Tile(map, q) = "0"
  BY DEF IInv, PlayerOK, IsFloor
<1>6. PlayerOK'
  BY <1>4, <1>5 DEF PlayerOK, IsFloor
<1> QED BY <1>2, <1>3, <1>6

\* What is to be done is the first of it and the rest.
LEMMA HeadOrTail ==
  ASSUME NEW S, NEW s \in Seq(S), s # <<>>
  PROVE  /\ Head(s) \in S /\ Tail(s) \in Seq(S)
         /\ \A i \in DOMAIN s : s[i] = Head(s) \/ \E j \in DOMAIN Tail(s) : Tail(s)[j] = s[i]
<1>1. /\ Head(s) = s[1] /\ Tail(s) \in Seq(S) /\ Len(s) \in Nat /\ Len(s) >= 1 /\ DOMAIN s = 1 .. Len(s)
      /\ DOMAIN Tail(s) = 1 .. Len(s) - 1 /\ \A j \in 1 .. Len(s) - 1 : Tail(s)[j] = s[j + 1]
  OBVIOUS
<1>2. s[1] \in S
  BY <1>1
<1>3. ASSUME NEW i \in DOMAIN s, i # 1
      PROVE  \E j \in DOMAIN Tail(s) : Tail(s)[j] = s[i]
  <2>1. i - 1 \in DOMAIN Tail(s) /\ i - 1 + 1 = i
    BY <1>1, <1>3
  <2>2. Tail(s)[i - 1] = s[i]
    BY <1>1, <2>1
  <2> QED BY <2>1, <2>2
<1> QED BY <1>1, <1>2, <1>3

Joined(a, b, c) == c = a \o b

\* What is put in front of it leaves what is to be done.
LEMMA SecondHas ==
  ASSUME NEW S, NEW a \in Seq(S), NEW b \in Seq(S), NEW c, Joined(a, b, c)
  PROVE  \A j \in DOMAIN b : \E i \in DOMAIN c : c[i] = b[j]
<1>1. /\ Len(a) \in Nat /\ Len(b) \in Nat /\ DOMAIN b = 1 .. Len(b)
      /\ DOMAIN c = 1 .. Len(a) + Len(b)
      /\ \A k \in 1 .. Len(a) + Len(b) : c[k] = IF k =< Len(a) THEN a[k] ELSE b[k - Len(a)]
  BY DEF Joined
<1> SUFFICES ASSUME NEW j \in DOMAIN b PROVE \E i \in DOMAIN c : c[i] = b[j]
  OBVIOUS
<1>2. j + Len(a) \in DOMAIN c /\ ~(j + Len(a) =< Len(a)) /\ j + Len(a) - Len(a) = j
  BY <1>1
<1>3. c[j + Len(a)] = b[j]
  BY <1>1, <1>2
<1> QED BY <1>2, <1>3

\* A call of fill() that returns at once: its place was filled before, or is no floor.
LEMMA FillStep == IInv /\ Fill => IInv'
<1> SUFFICES ASSUME IInv, Fill PROVE IInv'
  OBVIOUS
<1>1. /\ phase = "fill" /\ calls # <<>> /\ Passed(Head(calls)) /\ calls' = Tail(calls)
      /\ file' = file /\ next' = next /\ map' = map /\ phase' = phase /\ filled' = filled /\ player' = player /\ ray' = ray
  BY DEF Fill
<1>2. /\ map \in Text /\ calls \in Seq(Places(map))
      /\ \A p \in Having(map, {"0"}) : p \in filled \/ \E i \in DOMAIN calls : calls[i] = p
      /\ \A p \in filled : neighbour(p)
  BY <1>1 DEF IInv, TypeOK, FillOK
<1>3. /\ Head(calls) \in Places(map) /\ Tail(calls) \in Seq(Places(map))
      /\ \A i \in DOMAIN calls : calls[i] = Head(calls) \/ \E j \in DOMAIN Tail(calls) : Tail(calls)[j] = calls[i]
  BY <1>1, <1>2, HeadOrTail
<1>4. Head(calls) \in filled \/ Tile(map, Head(calls)) # "0"
  BY <1>1, <1>2, <1>3, PassedIs
<1>5. \A p \in Having(map, {"0"}) : p \in filled \/ \E i \in DOMAIN Tail(calls) : Tail(calls)[i] = p
  <2> SUFFICES ASSUME NEW p \in Having(map, {"0"}), p \notin filled
               PROVE  \E i \in DOMAIN Tail(calls) : Tail(calls)[i] = p
    OBVIOUS
  <2>1. p # Head(calls)
    BY <1>4 DEF Having
  <2> QED BY <1>2, <1>3, <2>1
<1>6. FillOK'
  BY <1>1, <1>2, <1>3, <1>5 DEF FillOK, neighbour
<1>7. OnlyClosedMaps'
  BY <1>1 DEF OnlyClosedMaps
<1> QED BY <1>1, <1>6, <1>7, FillKeeps DEF IInv

\* A call that fills a place and goes on to the four near it.
LEMMA FillOnStep == IInv /\ FillOn => IInv'
<1> SUFFICES ASSUME IInv, FillOn PROVE IInv'
  OBVIOUS
<1> DEFINE p == Head(calls)
           four == <<Up(p), Down(p), Left(p), Right(p)>>
<1>1. /\ phase = "fill" /\ calls # <<>> /\ ~Passed(p) /\ neighbour(p)
      /\ calls' = four \o Tail(calls) /\ filled' = filled \cup {p}
      /\ file' = file /\ next' = next /\ map' = map /\ phase' = phase /\ player' = player /\ ray' = ray
  BY DEF FillOn
<1>2. /\ map \in Text /\ calls \in Seq(Places(map))
      /\ \A q \in Having(map, {"0"}) : q \in filled \/ \E i \in DOMAIN calls : calls[i] = q
      /\ \A q \in filled : neighbour(q)
  BY <1>1 DEF IInv, TypeOK, FillOK
<1>3. /\ p \in Places(map) /\ Tail(calls) \in Seq(Places(map))
      /\ \A i \in DOMAIN calls : calls[i] = p \/ \E j \in DOMAIN Tail(calls) : Tail(calls)[j] = calls[i]
  BY <1>1, <1>2, HeadOrTail
<1>4. p \in Point
  BY <1>2, <1>3, PlacesIn
<1>5. \A q \in Near(p) : q \in Places(map)
  BY <1>1, <1>2, <1>4, NearOf, PlacesAre DEF neighbour
<1>6. four \in Seq(Places(map)) /\ Len(four) = 4
  BY <1>5 DEF Near
<1> HIDE DEF four, p
<1>7. calls' \in Seq(Places(map))
  BY <1>1, <1>3, <1>6
<1>8. \A j \in DOMAIN Tail(calls) : \E i \in DOMAIN calls' : calls'[i] = Tail(calls)[j]
  <2>1. PICK S, f, t, c : S = Places(map) /\ f = four /\ t = Tail(calls) /\ c = calls'
    OBVIOUS
  <2>2. f \in Seq(S) /\ t \in Seq(S) /\ Joined(f, t, c)
    BY <1>1, <1>3, <1>6, <2>1 DEF Joined
  <2>3. \A j \in DOMAIN t : \E i \in DOMAIN c : c[i] = t[j]
    BY <2>2, SecondHas
  <2> QED BY <2>1, <2>3, Zenon
<1>9. \A q \in Having(map, {"0"}) : q \in filled' \/ \E i \in DOMAIN calls' : calls'[i] = q
  <2> SUFFICES ASSUME NEW q \in Having(map, {"0"}), q \notin filled, q # p
               PROVE  \E i \in DOMAIN calls' : calls'[i] = q
    BY <1>1
  <2>1. PICK j \in DOMAIN Tail(calls) : Tail(calls)[j] = q
    BY <1>2, <1>3
  <2>2. PICK i \in DOMAIN calls' : calls'[i] = Tail(calls)[j]
    BY <1>8
  <2> QED BY <2>1, <2>2
<1>10. FillOK'
  <2>1. \A q \in filled' : neighbour(q)
    BY <1>1, <1>2
  <2> QED BY <1>1, <1>7, <1>9, <2>1 DEF FillOK, neighbour
<1>11. OnlyClosedMaps'
  BY <1>1 DEF OnlyClosedMaps
<1> QED BY <1>1, <1>10, <1>11, FillKeeps DEF IInv

\* A call that finds the map open.
LEMMA FillFailsStep == IInv /\ FillFails => IInv'
<1> SUFFICES ASSUME IInv, FillFails PROVE IInv'
  OBVIOUS
<1>1. /\ phase = "fill" /\ calls # <<>> /\ ~Passed(Head(calls)) /\ (OnBorder(Head(calls)) \/ ~neighbour(Head(calls)))
      /\ file' = file /\ next' = next /\ map' = map /\ phase' = "refused" /\ player' = player /\ ray' = ray
  BY DEF FillFails, Refuse
<1>2. map \in Text /\ calls \in Seq(Places(map))
  BY <1>1 DEF IInv, TypeOK, FillOK
<1>3. Head(calls) \in Places(map)
  BY <1>1, <1>2, HeadOrTail
<1>4. ~Closed(map)
  BY <1>1, <1>2, <1>3, FailsAreOpen
<1>5. FillOK'
  BY <1>1 DEF FillOK
<1>6. OnlyClosedMaps'
  BY <1>1, <1>4 DEF OnlyClosedMaps, Closed
<1> QED BY <1>1, <1>5, <1>6, FillKeeps DEF IInv

\* The last call has returned.
LEMMA FillEndsStep == IInv /\ FillEnds => IInv'
<1> SUFFICES ASSUME IInv, FillEnds PROVE IInv'
  OBVIOUS
<1>1. /\ phase = "fill" /\ calls = <<>> /\ phase' = "play"
      /\ file' = file /\ next' = next /\ map' = map /\ player' = player /\ ray' = ray
  BY DEF FillEnds
<1>2. /\ map \in Text /\ FitsIn(map)
      /\ \A q \in Having(map, {"0"}) : q \in filled \/ \E i \in DOMAIN calls : calls[i] = q
      /\ \A q \in filled : neighbour(q)
      /\ \A p \in Places(map) : Tile(map, p) \in Ground
  BY <1>1 DEF IInv, TypeOK, FillOK, MapOK
<1>3. \A q \in Having(map, {"0"}) : neighbour(q)
  BY <1>1, <1>2
<1>4. Closed(map)
  BY <1>2, <1>3, FilledIsClosed
<1>5. FillOK'
  BY <1>1 DEF FillOK
<1>6. OnlyClosedMaps'
  BY <1>1, <1>2, <1>4 DEF OnlyClosedMaps, Closed, FitsIn
<1> QED BY <1>1, <1>5, <1>6, FillKeeps DEF IInv

\* The player takes a step (can_move()).
LEMMA MoveStep ==
  ASSUME IInv, NEW dx \in -STEP .. STEP, NEW dy \in -STEP .. STEP, Move(dx, dy)
  PROVE  IInv'
<1> DEFINE at == <<player[1] + dx, player[2] + dy>>
<1>1. /\ phase = "play" /\ ray = NoRay /\ can_move(at) /\ player' = at
      /\ file' = file /\ next' = next /\ map' = map /\ phase' = phase /\ ray' = ray
  BY DEF Move
<1>2. /\ map \in Text /\ player \in Point /\ Closed(map) /\ map # <<>> /\ FitsIn(map)
      /\ \A q \in Spot(player) : IsFloor(q)
      /\ \A p \in Places(map) : Tile(map, p) \in Ground
  BY <1>1 DEF IInv, TypeOK, MapOK, PlayerOK, OnlyClosedMaps
<1>3. STEP \in Int /\ player[1] \in Int /\ player[2] \in Int
  BY <1>2, WalkAssumption DEF Point
<1>4. at \in Point
  BY <1>3 DEF Point
<1>5. \A k \in {1, 2} : at[k] - player[k] =< STEP /\ player[k] - at[k] =< STEP
  BY <1>3
<1> HIDE DEF at
<1>6. \A q \in Spot(at) : IsFloor(q)
  BY <1>1, <1>2, <1>4, <1>5, StepsOnFloor
<1>7. TypeOK'
  BY <1>1, <1>4 DEF IInv, TypeOK
<1>8. MapOK' /\ FillOK' /\ RayOK'
  BY <1>1, <1>2 DEF MapOK, FillOK, RayOK, FitsIn
<1>9. PlayerOK'
  BY <1>1, <1>6 DEF PlayerOK, IsFloor
<1>10. OnlyClosedMaps'
  BY <1>1 DEF IInv, OnlyClosedMaps
<1> QED BY <1>7, <1>8, <1>9, <1>10 DEF IInv

\* What a ray does leaves everything else alone.
LEMMA RayKeeps ==
  ASSUME IInv, phase = "play", phase' = phase, file' = file, next' = next, map' = map, player' = player
  PROVE  TypeOK' /\ MapOK' /\ FillOK' /\ PlayerOK' /\ OnlyClosedMaps'
<1>1. /\ map # <<>> /\ Closed(map) /\ FitsIn(map) /\ \A p \in Places(map) : Tile(map, p) \in Ground
      /\ \A q \in Spot(player) : IsFloor(q)
  BY DEF IInv, MapOK, PlayerOK, OnlyClosedMaps
<1>2. TypeOK' /\ MapOK' /\ FillOK'
  BY <1>1 DEF IInv, TypeOK, MapOK, FillOK
<1>3. Spot(player') = Spot(player)
  BY DEF Spot, Lo, Hi
<1>4. PlayerOK'
  BY <1>1, <1>3 DEF PlayerOK, IsFloor
<1>5. OnlyClosedMaps'
  BY <1>1 DEF OnlyClosedMaps, FitsIn
<1> QED BY <1>2, <1>4, <1>5

\* A ray begins where the player is (ray_calc(), pre_dda()).
LEMMA CastStep ==
  ASSUME IInv, NEW h \in Headings, Cast(h)
  PROVE  IInv'
<1> DEFINE at == Cell(player)
           side(k) == IF h[k] < 0 THEN player[k] - at[k] * CELL ELSE (at[k] + 1) * CELL - player[k]
<1>1. /\ phase = "play" /\ ray = NoRay
      /\ ray' = [at |-> at, dir |-> h, side |-> <<side(1), side(2)>>, last |-> 0, pc |-> "dda"]
      /\ file' = file /\ next' = next /\ map' = map /\ phase' = phase /\ player' = player
  BY DEF Cast
<1>2. player \in Point /\ player[1] \in Int /\ player[2] \in Int /\ CELL \in Nat /\ h \in Int \X Int
  BY HeadingsAssumption, WalkAssumption DEF IInv, TypeOK, Point
<1>3. at \in Point /\ at[1] \in Int /\ at[2] \in Int /\ IsFloor(at)
      /\ \A k \in {1, 2} : at[k] \in {Lo(player)[k], Hi(player)[k]}
  BY <1>1, <1>2, MiddleIsSpot DEF IInv, PlayerOK
<1>4. ASSUME NEW k \in {1, 2} PROVE side(k) \in Int /\ side(k) >= 0
  <2>1. at[k] = player[k] \div CELL /\ player[k] \in Int
    BY <1>2 DEF Cell
  <2>2. at[k] \in Int /\ at[k] * CELL =< player[k] /\ player[k] < at[k] * CELL + CELL
    BY <2>1, CellOf
  <2>3. at[k] * CELL \in Int /\ (at[k] + 1) * CELL = at[k] * CELL + CELL
    BY <1>2, <2>2
  <2> HIDE DEF at
  <2> QED BY <1>2, <2>1, <2>2, <2>3
<1> HIDE DEF at
<1>5. /\ ray'.at = at /\ ray'.dir = h /\ ray'.side[1] = side(1) /\ ray'.side[2] = side(2) /\ ray'.pc = "dda"
  BY <1>1
<1>6. ray' \in [at : Point, dir : Headings, side : Point, last : 0 .. 2, pc : {"dda", "hit"}]
  <2>1. <<side(1), side(2)>> \in Point
    BY <1>4 DEF Point
  <2> HIDE DEF side
  <2> QED BY <1>1, <1>3, <2>1
<1>7. \A k \in {1, 2} : (SideOK(k) /\ ray.side[k] >= 0 /\ Fresh(k))'
  <2> SUFFICES ASSUME NEW k \in {1, 2} PROVE (SideOK(k) /\ ray.side[k] >= 0 /\ Fresh(k))'
    OBVIOUS
  <2>1. ray'.side[k] = side(k)
    BY <1>5
  <2>2. SideOK(k)'
    BY <1>1, <1>5, <2>1 DEF SideOK
  <2>3. Fresh(k)'
    <3>1. 3 - k \in {1, 2}
      OBVIOUS
    <3>2. at[3 - k] \in {Lo(player)[3 - k], Hi(player)[3 - k]}
      BY <1>3, <3>1
    <3>3. Lo(player') = Lo(player) /\ Hi(player') = Hi(player)
      BY <1>1
    <3> QED BY <1>5, <3>2, <3>3 DEF Fresh
  <2> QED BY <1>4, <2>1, <2>2, <2>3
<1>8. RayOK'
  BY <1>1, <1>3, <1>5, <1>6, <1>7 DEF RayOK, IsFloor
<1> QED BY <1>1, <1>8, RayKeeps DEF IInv

\* A line of the grid at no distance is one the player is on, with corners on both sides.
LEMMA NoDistance ==
  ASSUME player \in Point, NEW k \in {1, 2}, ray.at \in Point, ray.dir \in Point,
         ray.dir[k] # 0, SideOK(k), ray.side[k] = 0
  PROVE  ray.at[k] + (IF ray.dir[k] < 0 THEN -1 ELSE 1) \in {Lo(player)[k], Hi(player)[k]}
<1>1. CELL \in Int /\ CELL > 0 /\ player[k] \in Int /\ ray.at[k] \in Int /\ ray.dir[k] \in Int
  BY WalkAssumption DEF Point
<1>2. ray.at[k] * CELL \in Int /\ (ray.at[k] + 1) * CELL \in Int
  BY <1>1
<1>3. Cell(player)[k] = player[k] \div CELL
  BY DEF Cell
<1>4. CASE ray.dir[k] < 0
  <2>1. player[k] = ray.at[k] * CELL
    BY <1>1, <1>2, <1>4 DEF SideOK
  <2>2. Cell(player)[k] = ray.at[k]
    <3>1. player[k] \div CELL = ray.at[k]
      BY <1>1, <1>2, <2>1, InCell
    <3> QED BY <1>3, <3>1
  <2>3. Lo(player)[k] = ray.at[k] - 1
    BY <2>1, <2>2, MiddleIsSpot
  <2> QED BY <1>1, <1>4, <2>3
<1>5. CASE ~(ray.dir[k] < 0)
  <2>1. player[k] = (ray.at[k] + 1) * CELL
    <3> DEFINE m == (ray.at[k] + 1) * CELL
    <3>1. m \in Int /\ 0 = m - player[k]
      BY <1>2, <1>5 DEF SideOK
    <3> HIDE DEF m
    <3>2. player[k] = m
      BY <1>1, <3>1
    <3> QED BY <3>2 DEF m
  <2>2. Cell(player)[k] = ray.at[k] + 1
    <3>1. ray.at[k] + 1 \in Int
      BY <1>1
    <3>2. player[k] \div CELL = ray.at[k] + 1
      BY <1>1, <1>2, <2>1, <3>1, InCell
    <3> QED BY <1>3, <3>2
  <2>3. Cell(player)[k] \in {Lo(player)[k], Hi(player)[k]}
    BY MiddleIsSpot
  <2> QED BY <1>1, <1>5, <2>2, <2>3
<1> QED BY <1>4, <1>5

\* The ray goes on along a side it has not passed (dda()).
Along == IF MeetsColumn(ray) THEN 1 ELSE 2

\* It goes along an axis its direction has a part of; where it turns from a line at no
\* distance on one axis, it is at one on the other too.
LEMMA AlongIs ==
  ASSUME ray.dir \in Headings, ray.side \in Point, ray.side[1] >= 0, ray.side[2] >= 0
  PROVE  /\ Along \in {1, 2} /\ ray.dir[Along] # 0
         /\ ray.dir[3 - Along] # 0 /\ ray.side[3 - Along] = 0 => Along = 2 /\ ray.side[2] = 0
<1>1. /\ ray.dir[1] \in Int /\ ray.dir[2] \in Int /\ (ray.dir[1] # 0 \/ ray.dir[2] # 0)
      /\ ray.side[1] \in Int /\ ray.side[2] \in Int
  BY HeadingsAssumption DEF Point
<1>2. \A n \in Int : Abs(n) \in Int /\ Abs(n) >= 0 /\ (n # 0 => Abs(n) > 0)
  BY DEF Abs
<1> DEFINE a == Abs(ray.dir[1])
           b == Abs(ray.dir[2])
<1>3. /\ a \in Int /\ a >= 0 /\ (ray.dir[1] # 0 => a > 0)
      /\ b \in Int /\ b >= 0 /\ (ray.dir[2] # 0 => b > 0)
  BY <1>1, <1>2
<1>4. MeetsColumn(ray) <=> ray.dir[1] # 0 /\ (ray.dir[2] = 0 \/ ray.side[1] * b < ray.side[2] * a)
  BY DEF MeetsColumn
<1> HIDE DEF a, b
<1>5. CASE MeetsColumn(ray)
  <2>1. Along = 1 /\ 3 - Along = 2 /\ ray.dir[1] # 0
    BY <1>4, <1>5 DEF Along
  <2>2. ~(ray.dir[2] # 0 /\ ray.side[2] = 0)
    <3> SUFFICES ASSUME ray.dir[2] # 0, ray.side[2] = 0 PROVE FALSE
      OBVIOUS
    <3>1. ray.side[1] * b < 0 * a
      BY <1>4, <1>5
    <3>2. 0 * a = 0 /\ ray.side[1] * b >= 0
      BY <1>1, <1>3
    <3>3. ray.side[1] * b \in Int
      BY <1>1, <1>3
    <3> QED BY <3>1, <3>2, <3>3
  <2> QED BY <2>1, <2>2
<1>6. CASE ~MeetsColumn(ray)
  <2>1. Along = 2 /\ 3 - Along = 1 /\ ray.dir[2] # 0
    BY <1>1, <1>4, <1>6 DEF Along
  <2>2. ASSUME ray.dir[1] # 0, ray.side[1] = 0 PROVE ray.side[2] = 0
    <3>1. ~(0 * b < ray.side[2] * a)
      BY <1>4, <1>6, <2>1, <2>2
    <3>2. 0 * b = 0 /\ a > 0
      BY <1>3, <2>2
    <3>3. ~(ray.side[2] > 0)
      <4> SUFFICES ASSUME ray.side[2] > 0 PROVE FALSE
        OBVIOUS
      <4>1. ray.side[2] * a > 0
        BY <1>1, <1>3, <3>2
      <4> QED BY <3>1, <3>2, <4>1
    <3> QED BY <1>1, <3>3
  <2> QED BY <2>1, <2>2
<1> QED BY <1>5, <1>6

\* A cell before another.
LEMMA OneCell == \A n \in Int : (n - 1) * CELL = n * CELL - CELL /\ n * CELL \in Int
  BY WalkAssumption

\* The ray goes on to the next cell (dda()): one near the floor it is over, and so a cell of the map.
LEMMA AdvanceStep == IInv /\ Advance => IInv'
<1> SUFFICES ASSUME IInv, Advance PROVE IInv'
  OBVIOUS
<1>1. PICK k \in {1, 2} : k = Along
  BY DEF Along
<1>2. PICK j \in {1, 2} : j = 3 - k /\ j # k /\ 3 - j = k
  BY <1>1
<1>3. PICK d \in {-1, 1} : d = IF ray.dir[k] < 0 THEN -1 ELSE 1
  OBVIOUS
<1> DEFINE at == [ray.at EXCEPT ![k] = @ + d]
           side == [ray.side EXCEPT ![k] = @ + CELL]
           pc == IF Tile(map, at) \in {"1"} THEN "hit" ELSE "dda"
<1>4. /\ ray # NoRay /\ ray.pc = "dda"
      /\ ray' = [ray EXCEPT !.at = at, !.side[k] = @ + CELL, !.last = k, !.pc = pc]
      /\ file' = file /\ next' = next /\ map' = map /\ phase' = phase /\ player' = player
  BY <1>1, <1>3, Zenon DEF Advance, Along
<1>5. /\ phase = "play" /\ Inside(map, ray.at) /\ Tile(map, ray.at) = "0"
      /\ ray \in [at : Point, dir : Headings, side : Point, last : 0 .. 2, pc : {"dda", "hit"}]
      /\ \A i \in {1, 2} : SideOK(i) /\ ray.side[i] >= 0 /\ Fresh(i)
  BY <1>4 DEF IInv, RayOK
<1>6. /\ ray.at \in Point /\ ray.dir \in Headings /\ ray.dir \in Point /\ ray.side \in Point
      /\ player \in Point /\ map \in Text /\ Closed(map) /\ CELL \in Int /\ CELL > 0
      /\ \A q \in Spot(player) : IsFloor(q)
  BY <1>5, HeadingsAssumption, WalkAssumption DEF IInv, TypeOK, PlayerOK, OnlyClosedMaps, Point
<1>7. /\ ray.dir[k] # 0
      /\ ray.dir[j] # 0 /\ ray.side[j] = 0 => k = 2 /\ ray.side[2] = 0
  <2>1. ray.side[1] >= 0 /\ ray.side[2] >= 0
    BY <1>5
  <2> QED BY <1>1, <1>2, <1>6, <2>1, AlongIs
<1>8. /\ at \in Point /\ at[k] = ray.at[k] + d /\ at[j] = ray.at[j]
      /\ side \in Point /\ side[k] = ray.side[k] + CELL /\ side[j] = ray.side[j]
      /\ ray.at[k] \in Int /\ ray.at[j] \in Int /\ ray.side[k] \in Int /\ ray.side[j] \in Int
      /\ player[k] \in Int /\ player[j] \in Int
  BY <1>2, <1>6 DEF Point
<1>9. pc \in {"dda", "hit"} /\ (pc = "hit" <=> Tile(map, at) = "1")
  OBVIOUS
<1> HIDE DEF pc
<1>10. /\ ray' \in [at : Point, dir : Headings, side : Point, last : 0 .. 2, pc : {"dda", "hit"}]
      /\ ray'.at = at /\ ray'.dir = ray.dir /\ ray'.side = side /\ ray'.last = k /\ ray'.pc = pc
  <2>1. ray' = [at |-> at, dir |-> ray.dir, side |-> side, last |-> k, pc |-> pc]
    <3> HIDE DEF at
    <3> QED BY <1>2, <1>4, <1>5
  <2> HIDE DEF at, side
  <2> QED BY <1>2, <1>5, <1>7, <1>8, <1>9, <2>1
<1> HIDE DEF at, side
<1>11. at \in Near(ray.at)
  <2>1. at[k] = ray.at[k] - 1 \/ at[k] = ray.at[k] + 1
    BY <1>3, <1>8
  <2> QED BY <1>2, <1>6, <1>8, <2>1, BesideIsNear
<1>12. Inside(map, at) /\ Tile(map, at) \in {"0", "1"}
  BY <1>5, <1>6, <1>11, AroundFloor DEF IsFloor
<1>13. ray.side[k] = 0 => at[k] \in {Lo(player)[k], Hi(player)[k]}
  BY <1>3, <1>5, <1>6, <1>7, <1>8, NoDistance
<1>14. /\ SideOK(k)' /\ side[k] >= 0 /\ side[k] # 0
       /\ SideOK(j)' /\ side[j] >= 0
  <2>1. ray.side[k] >= 0 /\ ray.side[j] >= 0 /\ SideOK(k) /\ SideOK(j)
    BY <1>2, <1>5, <1>7
  <2>2. SideOK(j)'
    BY <1>4, <1>8, <1>10, <2>1 DEF SideOK
  <2>3. side[k] = IF ray.dir[k] < 0 THEN player[k] - at[k] * CELL ELSE (at[k] + 1) * CELL - player[k]
    <3>1. CASE ray.dir[k] < 0
      <4>1. at[k] = ray.at[k] - 1 /\ ray.side[k] = player[k] - ray.at[k] * CELL
        BY <1>3, <1>8, <2>1, <3>1 DEF SideOK
      <4>2. (ray.at[k] - 1) * CELL = ray.at[k] * CELL - CELL /\ ray.at[k] * CELL \in Int
        BY <1>8, OneCell
      <4> QED BY <1>6, <1>8, <3>1, <4>1, <4>2
    <3>2. CASE ~(ray.dir[k] < 0)
      <4> DEFINE m == (ray.at[k] + 1) * CELL
      <4>1. at[k] = ray.at[k] + 1 /\ ray.side[k] = m - player[k]
        BY <1>3, <1>8, <2>1, <3>2 DEF SideOK
      <4>2. (ray.at[k] + 1 + 1) * CELL = m + CELL /\ m \in Int
        BY <1>6, <1>8
      <4> HIDE DEF m
      <4> QED BY <1>6, <1>8, <3>2, <4>1, <4>2
    <3> QED BY <3>1, <3>2
  <2>4. SideOK(k)'
    BY <1>4, <1>10, <2>3 DEF SideOK
  <2> QED BY <1>6, <1>8, <2>1, <2>2, <2>4
<1>15. Fresh(k)'
  BY <1>10, <1>14 DEF Fresh
<1>16. Fresh(j)'
  <2> SUFFICES ASSUME ray.dir[j] # 0, ray.side[j] = 0 PROVE at[k] \in {Lo(player)[k], Hi(player)[k]}
    <3>1. Lo(player') = Lo(player) /\ Hi(player') = Hi(player)
      BY <1>4
    <3> QED BY <1>2, <1>7, <1>8, <1>10, <3>1 DEF Fresh
  <2> QED BY <1>2, <1>7, <1>13
<1>17. CASE pc = "dda"
  <2>1. Tile(map, at) = "0"
    BY <1>9, <1>12, <1>17
  <2>2. \A i \in {1, 2} : i = k \/ i = j
    BY <1>2, <1>7
  <2>3. \A i \in {1, 2} : (SideOK(i) /\ ray.side[i] >= 0 /\ Fresh(i))'
    BY <1>10, <1>14, <1>15, <1>16, <2>2
  <2>4. RayOK'
    BY <1>4, <1>5, <1>10, <1>12, <1>17, <2>1, <2>3 DEF RayOK
  <2> QED BY <1>4, <1>5, <2>4, RayKeeps DEF IInv
<1>18. CASE pc = "hit"
  <2>1. ray.side[k] # 0
    <3> SUFFICES ASSUME ray.side[k] = 0 PROVE FALSE
      OBVIOUS
    <3>1. at[k] \in {Lo(player)[k], Hi(player)[k]}
      BY <1>13
    <3>2. at[j] \in {Lo(player)[j], Hi(player)[j]}
      BY <1>2, <1>5, <1>7, <1>8 DEF Fresh
    <3>3. at = <<at[1], at[2]>>
      BY <1>8 DEF Point
    <3>4. at[1] \in {Lo(player)[1], Hi(player)[1]} /\ at[2] \in {Lo(player)[2], Hi(player)[2]}
      BY <1>2, <1>7, <3>1, <3>2
    <3>5. at \in Spot(player)
      BY <3>3, <3>4 DEF Spot
    <3> QED BY <1>6, <1>9, <1>18, <3>5 DEF IsFloor
  <2>2. side[k] > CELL
    <3>1. ray.side[k] >= 0
      BY <1>2, <1>5, <1>7
    <3> QED BY <1>6, <1>8, <2>1, <3>1
  <2>3. RayOK'
    BY <1>2, <1>4, <1>5, <1>7, <1>10, <1>12, <1>18, <2>2 DEF RayOK
  <2> QED BY <1>4, <1>5, <2>3, RayKeeps DEF IInv
<1> QED BY <1>9, <1>17, <1>18

\* The wall is drawn and the ray is done.
LEMMA DrawStep == IInv /\ Draw => IInv'
<1> SUFFICES ASSUME IInv, Draw PROVE IInv'
  OBVIOUS
<1>1. /\ ray # NoRay /\ ray' = NoRay
      /\ file' = file /\ next' = next /\ map' = map /\ phase' = phase /\ player' = player
  BY DEF Draw
<1>2. phase = "play" /\ RayOK'
  BY <1>1 DEF IInv, RayOK
<1> QED BY <1>1, <1>2, RayKeeps DEF IInv

\* No step of the program leaves the invariant.
LEMMA NextInv == IInv /\ [Next]_vars => IInv'
<1> SUFFICES ASSUME IInv, [Next]_vars PROVE IInv'
  OBVIOUS
<1>1. CASE ReadElement \/ BadElement \/ NoColor \/ BadMap
  BY <1>1, ReadStep
<1>2. CASE ReadMap
  BY <1>2, ReadMapStep
<1>12. CASE TooBig
  BY <1>12, TooBigStep
<1>3. CASE Fill
  BY <1>3, FillStep
<1>4. CASE FillOn
  BY <1>4, FillOnStep
<1>5. CASE FillFails
  BY <1>5, FillFailsStep
<1>6. CASE FillEnds
  BY <1>6, FillEndsStep
<1>7. ASSUME NEW dx \in -STEP .. STEP, NEW dy \in -STEP .. STEP, Move(dx, dy) PROVE IInv'
  BY <1>7, MoveStep
<1>8. ASSUME NEW h \in Headings, Cast(h) PROVE IInv'
  BY <1>8, CastStep
<1>9. CASE Advance
  BY <1>9, AdvanceStep
<1>10. CASE Draw
  BY <1>10, DrawStep
<1>11. CASE UNCHANGED vars
  <2>1. /\ file' = file /\ next' = next /\ map' = map /\ phase' = phase /\ calls' = calls
        /\ filled' = filled /\ player' = player /\ ray' = ray
    BY <1>11 DEF vars
  <2>2. TypeOK' /\ MapOK' /\ OnlyClosedMaps'
    BY <2>1 DEF IInv, TypeOK, MapOK, OnlyClosedMaps
  <2>3. FillOK'
    BY <2>1 DEF IInv, FillOK, neighbour
  <2>4. Spot(player') = Spot(player) /\ Lo(player') = Lo(player) /\ Hi(player') = Hi(player)
    BY <2>1
  <2>5. PlayerOK'
    BY <2>1, <2>4 DEF IInv, PlayerOK, IsFloor
  <2>6. RayOK'
    BY <2>1, <2>4 DEF IInv, RayOK, SideOK, Fresh
  <2> QED BY <2>2, <2>3, <2>5, <2>6 DEF IInv
<1> QED BY <1>1, <1>2, <1>3, <1>4, <1>5, <1>6, <1>7, <1>8, <1>9, <1>10, <1>11, <1>12 DEF Next

-----------------------------------------------------------------------------
(* What the invariant says of what is looked at and drawn.                     *)

\* Less than a cell away is a cell beside it at most.
LEMMA BesideCell ==
  ASSUME NEW a \in Int, NEW b \in Int, a - b < CELL, b - a < CELL
  PROVE  b \div CELL \in {a \div CELL - 1, a \div CELL, a \div CELL + 1}
<1> DEFINE c == a \div CELL
           d == b \div CELL
<1>1. /\ c \in Int /\ c * CELL =< a /\ a < c * CELL + CELL
      /\ d \in Int /\ d * CELL =< b /\ b < d * CELL + CELL
  BY CellOf
<1> HIDE DEF c, d
<1>2. CELL \in Int /\ c * CELL \in Int /\ d * CELL \in Int
  BY <1>1, WalkAssumption
<1>3. ~(d < c - 1)
  <2> SUFFICES ASSUME d < c - 1 PROVE FALSE
    OBVIOUS
  <2>1. d + 1 \in Int /\ d + 1 < c /\ (d + 1) * CELL = d * CELL + CELL
    BY <1>1, <1>2
  <2>2. d * CELL + CELL + CELL =< c * CELL
    BY <1>1, <2>1, Apart
  <2> QED BY <1>1, <1>2, <2>2
<1>4. ~(c < d - 1)
  <2> SUFFICES ASSUME c < d - 1 PROVE FALSE
    OBVIOUS
  <2>1. c + 1 \in Int /\ c + 1 < d /\ (c + 1) * CELL = c * CELL + CELL
    BY <1>1, <1>2
  <2>2. c * CELL + CELL + CELL =< d * CELL
    BY <1>1, <2>1, Apart
  <2> QED BY <1>1, <1>2, <2>2
<1>5. d \in {c - 1, c, c + 1}
  BY <1>1, <1>3, <1>4
<1> QED BY <1>5 DEF c, d

\* Nothing outside the map is looked at (can_move(), dda()), and no wall is at no distance.
LEMMA InvStays == IInv => StaysInside
<1> SUFFICES ASSUME IInv PROVE StaysInside
  OBVIOUS
<1>1. ASSUME phase = "play"
      PROVE  \A c \in Corners(player) : Inside(map, Cell(c)) /\ Tile(map, Cell(c)) = "0"
  BY <1>1, SpotIs DEF IInv, TypeOK, PlayerOK, IsFloor
<1>2. ASSUME phase = "play", NEW dx \in -STEP .. STEP, NEW dy \in -STEP .. STEP,
             NEW c \in Corners(<<player[1] + dx, player[2] + dy>>)
      PROVE  Cell(c)[2] \in 0 .. Len(map) - 1 /\ Cell(c)[1] \in 0 .. Len(map[Cell(c)[2] + 1])
  <2>1. /\ player[1] \in Int /\ player[2] \in Int /\ map \in Text /\ Closed(map)
        /\ STEP \in Int /\ REACH \in Int /\ CELL \in Int /\ STEP < CELL
    BY <1>2, WalkAssumption DEF IInv, TypeOK, OnlyClosedMaps, Point
  <2>2. PICK a \in {-REACH, REACH}, b \in {-REACH, REACH} : c = <<player[1] + dx + a, player[2] + dy + b>>
    BY DEF Corners
  <2> DEFINE o == <<player[1] + a, player[2] + b>>
  <2>3. o \in Corners(player)
    BY DEF Corners
  <2>4. IsFloor(Cell(o))
    BY <1>1, <1>2, <2>3 DEF IsFloor
  <2>5. /\ o[1] \in Int /\ o[2] \in Int /\ c[1] \in Int /\ c[2] \in Int
        /\ o[1] - c[1] < CELL /\ c[1] - o[1] < CELL /\ o[2] - c[2] < CELL /\ c[2] - o[2] < CELL
    BY <2>1, <2>2
  <2> HIDE DEF o
  <2>6. Cell(o) = <<o[1] \div CELL, o[2] \div CELL>> /\ Cell(c) = <<c[1] \div CELL, c[2] \div CELL>>
    BY DEF Cell
  <2>7. Cell(o) \in Point /\ Cell(c) \in Point
    BY <2>5, <2>6, CellOf DEF Point
  <2>8. \A k \in {1, 2} : Cell(c)[k] \in {Cell(o)[k] - 1, Cell(o)[k], Cell(o)[k] + 1}
    BY <2>5, <2>6, BesideCell
  <2> QED BY <2>1, <2>4, <2>7, <2>8, LooksInside
<1>3. ray # NoRay => Inside(map, ray.at)
  BY DEF IInv, RayOK
<1>4. ASSUME ray # NoRay, ray.pc = "hit" PROVE Far(ray) > 0
  <2>1. ray.last \in {1, 2} /\ ray.side \in Point /\ ray.side[ray.last] > CELL
    BY <1>4 DEF IInv, RayOK
  <2> DEFINE d == ray.side[ray.last] - CELL
  <2>2. d \in Int /\ d > 0 /\ HEADING \in Int /\ HEADING > 0
    BY <2>1, WalkAssumption, ScreenAssumption DEF Point
  <2>3. Far(ray) = d * HEADING
    BY DEF Far
  <2> HIDE DEF d
  <2> QED BY <2>2, <2>3
<1> QED BY <1>1, <1>2, <1>3, <1>4 DEF StaysInside

\* A part of a whole is that part of a texture.
LEMMA Scale ==
  ASSUME NEW n \in Nat \ {0}, NEW w \in Nat \ {0}, NEW a \in 0 .. n - 1
  PROVE  (a * w) \div n \in 0 .. w - 1
<1> DEFINE t == a * w
           d == t \div n
<1>1. n \in Nat /\ n > 0 /\ w \in Nat /\ w > 0 /\ a \in Nat /\ a + 1 =< n
  OBVIOUS
<1>2. t \in Nat
  BY <1>1
<1>3. t + w =< n * w
  <2>1. PICK e \in Nat : n = a + 1 + e
    <3>1. n - a - 1 \in Nat /\ n = a + 1 + (n - a - 1)
      BY <1>1
    <3> QED BY <3>1
  <2>2. n * w = a * w + w + e * w /\ e * w \in Nat
    BY <1>1, <2>1
  <2> QED BY <1>1, <1>2, <2>2
<1> HIDE DEF t
<1>4. d \in Int /\ d * n =< t /\ t < d * n + n
  BY <1>1, <1>2
<1> HIDE DEF d
<1>5. ~(d < 0)
  <2> SUFFICES ASSUME d < 0 PROVE FALSE
    OBVIOUS
  <2>1. PICK e \in Nat : d = -1 - e
    <3>1. -1 - d \in Nat /\ d = -1 - (-1 - d)
      BY <1>4
    <3> QED BY <3>1
  <2>2. d * n = -n - e * n /\ e * n \in Nat
    BY <1>1, <2>1
  <2> QED BY <1>1, <1>2, <1>4, <2>2
<1>6. ~(w =< d)
  <2> SUFFICES ASSUME w =< d PROVE FALSE
    OBVIOUS
  <2>1. PICK e \in Nat : d = w + e
    <3>1. d - w \in Nat /\ d = w + (d - w)
      BY <1>1, <1>4
    <3> QED BY <3>1
  <2>2. d * n = n * w + e * n /\ e * n \in Nat /\ n * w \in Nat
    BY <1>1, <2>1
  <2> QED BY <1>1, <1>2, <1>3, <1>4, <2>2
<1>7. d \in 0 .. w - 1
  BY <1>1, <1>4, <1>5, <1>6
<1> QED BY <1>7 DEF d, t

\* What is drawn of a wall (get_draw_params(), put_walls()).
LEMMA InvDraws == IInv => DrawnInside
<1> SUFFICES ASSUME IInv, ray # NoRay, ray.pc = "hit", Far(ray) > 0
             PROVE  /\ Column(ray) \in 0 .. WIDTH - 1
                    /\ \A y \in draw_start(ray) .. draw_end(ray) - 1 :
                         y \in 0 .. SCREEN_Y - 1 /\ Line(ray, y) \in 0 .. HEIGHT - 1
  BY Zenon DEF DrawnInside
<1>1. PICK l \in {1, 2} : l = ray.last
  BY DEF IInv, RayOK
<1>2. /\ ray.side \in Point /\ ray.dir \in Int \X Int /\ ray.dir[l] # 0 /\ player \in Point
      /\ {HEADING, SCREEN_Y, WIDTH, HEIGHT} \subseteq Nat \ {0} /\ CELL \in Nat \ {0}
  BY <1>1, HeadingsAssumption, ScreenAssumption, WalkAssumption DEF IInv, RayOK, TypeOK
<1>3. Unit(ray) \in Nat \ {0}
  <2>1. ray.dir[l] \in Int /\ Abs(ray.dir[l]) \in Nat \ {0}
    BY <1>2 DEF Abs
  <2> DEFINE a == Abs(ray.dir[l])
  <2>2. Unit(ray) = CELL * a
    BY <1>1 DEF Unit
  <2> HIDE DEF a
  <2>3. CELL * a \in Nat /\ CELL * a > 0
    <3>1. a \in Nat \ {0}
      BY <2>1 DEF a
    <3> QED BY <1>2, <3>1
  <2> QED BY <2>2, <2>3
<1>4. Far(ray) \in Nat \ {0}
  <2>1. Far(ray) = (ray.side[l] - CELL) * HEADING
    BY <1>1 DEF Far
  <2>2. Far(ray) \in Int
    BY <1>2, <2>1 DEF Point
  <2> QED BY <2>2
<1>5. Column(ray) \in 0 .. WIDTH - 1
  <2> DEFINE k == 3 - ray.last
             s == player[k] * Abs(ray.dir[ray.last]) + (ray.side[ray.last] - CELL) * ray.dir[k]
             at == s % Unit(ray)
             n == (at * WIDTH) \div Unit(ray)
  <2>1. s \in Int
    <3>1. PICK j \in {1, 2} : j = 3 - l
      OBVIOUS
    <3>2. /\ player[j] \in Int /\ ray.dir[j] \in Int /\ ray.dir[l] \in Int /\ ray.side[l] - CELL \in Int
      BY <1>2 DEF Point
    <3>3. Abs(ray.dir[l]) \in Int
      BY <3>2 DEF Abs
    <3>4. player[j] * Abs(ray.dir[l]) + (ray.side[l] - CELL) * ray.dir[j] \in Int
      BY <3>2, <3>3
    <3> QED BY <1>1, <3>1, <3>4
  <2> HIDE DEF s
  <2>2. at \in 0 .. Unit(ray) - 1
    BY <1>3, <2>1
  <2> HIDE DEF at
  <2>3. n \in 0 .. WIDTH - 1
    BY <1>2, <1>3, <2>2, Scale
  <2>4. Column(ray) = n \/ Column(ray) = WIDTH - n - 1
    BY Zenon DEF Column, n, at, s, k
  <2> HIDE DEF n
  <2> QED BY <1>2, <2>3, <2>4
<1> DEFINE h == line_height(ray)
           m == SCREEN_Y \div 2
           g == h \div 2
<1>6. h \in Nat
  <2>1. h = (SCREEN_Y * Unit(ray)) \div Far(ray)
    BY DEF line_height
  <2>2. SCREEN_Y * Unit(ray) \in Nat
    BY <1>2, <1>3
  <2> DEFINE t == SCREEN_Y * Unit(ray)
             f == Far(ray)
  <2>3. t \in Nat /\ f \in Nat /\ f > 0 /\ h = t \div f
    BY <1>4, <2>1, <2>2
  <2> HIDE DEF t, f, h
  <2>4. t \div f \in Nat
    BY <2>3
  <2> QED BY <2>3, <2>4
<1>7. m \in Int
  BY <1>2
<1> HIDE DEF m, h
<1>8. g \in Int /\ 2 * g =< h
  BY <1>6
<1> HIDE DEF g
<1>9. /\ draw_start(ray) = IF m - g < 0 THEN 0 ELSE m - g
      /\ draw_end(ray) = IF m + g >= SCREEN_Y THEN SCREEN_Y - 1 ELSE m + g
      /\ \A y : Line(ray, y) = ((y - m + g) * HEIGHT) \div h
  BY Zenon DEF draw_start, draw_end, Line, m, g, h
<1>10. ASSUME NEW y \in draw_start(ray) .. draw_end(ray) - 1
       PROVE  y \in 0 .. SCREEN_Y - 1 /\ Line(ray, y) \in 0 .. HEIGHT - 1
  <2>1. SCREEN_Y \in Nat /\ HEIGHT \in Nat \ {0}
    BY <1>2
  <2>2. draw_start(ray) \in Int /\ draw_end(ray) \in Int
    BY <1>7, <1>8, <1>9, <2>1
  <2>3. y \in Int /\ y >= draw_start(ray) /\ y =< draw_end(ray) - 1
    BY <2>2
  <2>4. y >= 0 /\ y >= m - g /\ y =< SCREEN_Y - 2 /\ y =< m + g - 1
    BY <1>7, <1>8, <1>9, <2>1, <2>3
  <2>5. h \in Nat \ {0} /\ y - m + g \in 0 .. h - 1
    BY <1>6, <1>7, <1>8, <2>3, <2>4
  <2>6. ((y - m + g) * HEIGHT) \div h \in 0 .. HEIGHT - 1
    BY <2>1, <2>5, Scale
  <2> QED BY <1>9, <2>1, <2>3, <2>4, <2>6
<1> QED BY <1>5, <1>10

\* The walls of the maps that are let in keep the player, the rays and what is drawn inside
\* (init_flood(), can_move(), dda(), put_walls()), for any files, headings and screens.
THEOREM InsideTheWalls == Spec => []RaysStayInside
<1>1. Init => IInv
  BY InitInv
<1>2. IInv /\ [Next]_vars => IInv'
  BY NextInv
<1>3. IInv => RaysStayInside
  BY InvStays, InvDraws DEF IInv, RaysStayInside
<1> QED BY <1>1, <1>2, <1>3, PTL DEF Spec
=============================================================================
