------------------------------- MODULE SoLong -------------------------------
(***************************************************************************)
(* 42_so_long: a map is checked, filled from the player to see whether it  *)
(* can be won, and played.  A step is the check of the whole map, one call *)
(* of flood_fill(), or one key.  Places are pairs <<x, y>> from 0.         *)
(***************************************************************************)
EXTENDS Integers, Sequences, FiniteSets

CONSTANT Maps      \* maps that may be read: sequences of lines of tiles, nonempty

Tiles == UNION {UNION {{m[y][x] : x \in DOMAIN m[y]} : y \in DOMAIN m} : m \in Maps}

ConstantsAssumption == Maps \subseteq Seq(Seq(Tiles))

VARIABLES
  map,          \* the lines
  phase,        \* "check", "fill", "play", or how it ended
  collectible, player, exit,   \* mapchars
  calls,        \* calls of flood_fill() to be made, the next one first
  filled,       \* the places marked 'X' in the copy
  end           \* vars.end

vars == <<map, phase, collectible, player, exit, calls, filled, end>>

Inside(p) == p[2] \in 0 .. Len(map) - 1 /\ p[1] \in 0 .. Len(map[p[2] + 1]) - 1
Places    == UNION {(0 .. Len(map[y]) - 1) \X {y - 1} : y \in DOMAIN map}
Tile(p)   == map[p[2] + 1][p[1] + 1]
Having(t) == {p \in Places : Tile(p) = t}
Put(m, p, t) == [m EXCEPT ![p[2] + 1][p[1] + 1] = t]

Right(p) == <<p[1] + 1, p[2]>>
Left(p)  == <<p[1] - 1, p[2]>>
Down(p)  == <<p[1], p[2] + 1>>
Up(p)    == <<p[1], p[2] - 1>>
Near(p)   == {Right(p), Left(p), Down(p), Up(p)}

-----------------------------------------------------------------------------
(* The check, check_map().                                                      *)

map_is_rectangular == \A i, j \in DOMAIN map : Len(map[i]) = Len(map[j])

map_is_closed ==
  /\ \A i \in DOMAIN map : map[i] # <<>> /\ map[i][1] = "1" /\ map[i][Len(map[i])] = "1"
  /\ \A i \in {1, Len(map)} : \A x \in DOMAIN map[i] : map[i][x] = "1"

map_is_valid ==
  /\ map_is_closed
  /\ \A p \in Places : Tile(p) \in {"0", "1", "C", "E", "P"}
  /\ Having("C") # {}
  /\ Cardinality(Having("E")) = 1 /\ Cardinality(Having("P")) = 1

Check ==
  /\ phase = "check" /\ Len(map) > 2 /\ map_is_rectangular /\ map_is_valid
  /\ phase' = "fill"
  /\ collectible' = Cardinality(Having("C"))
  /\ player' \in Having("P") /\ exit' \in Having("E")
  /\ calls' = <<player'>>
  /\ UNCHANGED <<map, filled, end>>

Refuse ==
  /\ phase = "check" /\ ~(Len(map) > 2 /\ map_is_rectangular /\ map_is_valid)
  /\ phase' = "refused"
  /\ UNCHANGED <<map, collectible, player, exit, calls, filled, end>>

\* flood_fill() looks at a place without asking whether it is on the map.
Blocked(p) == p \in filled \/ Tile(p) = "1"

Fill ==
  /\ phase = "fill" /\ calls # <<>>
  /\ LET p == Head(calls)
     IN  IF ~Inside(p) THEN phase' = "crash" /\ UNCHANGED <<calls, filled>>
         ELSE /\ calls' = (IF Blocked(p) THEN <<>> ELSE <<Right(p), Left(p), Down(p), Up(p)>>) \o Tail(calls)
              /\ filled' = IF Blocked(p) THEN filled ELSE filled \cup {p}
              /\ phase' = phase
  /\ UNCHANGED <<map, collectible, player, exit, end>>

FillEnd ==
  /\ phase = "fill" /\ calls = <<>>
  /\ phase' = IF Having("E") \cup Having("C") \subseteq filled THEN "play" ELSE "unsolvable"
  /\ filled' = {}
  /\ UNCHANGED <<map, collectible, player, exit, calls, end>>

-----------------------------------------------------------------------------
(* The game, event_handler().                                                   *)

can_move(to) == ~end /\ Tile(to) \in {"C", "E", "0"}

\* render_exit(): the exit is drawn again when the player is not on it.
render_exit_none(m, at) == m         \* mutant: it stays the floor the player left
render_exit(m, at) == IF at # exit THEN Put(m, exit, "E") ELSE m

Move(to) ==
  /\ phase = "play" /\ can_move(to)
  /\ collectible' = IF Tile(to) = "C" THEN collectible - 1 ELSE collectible
  /\ end' = (Tile(to) = "E" /\ collectible = 0)
  /\ map' = render_exit(Put(Put(map, to, "P"), player, "0"), to)
  /\ player' = to
  /\ UNCHANGED <<phase, exit, calls, filled>>

Stay(to) ==
  /\ phase = "play" /\ ~can_move(to)
  /\ map' = render_exit(map, player)
  /\ UNCHANGED <<phase, collectible, player, exit, calls, filled, end>>

Escape ==
  /\ phase = "play" /\ phase' = "left"
  /\ UNCHANGED <<map, collectible, player, exit, calls, filled, end>>

-----------------------------------------------------------------------------
(* What is drawn, assign_calculations(), with one coordinate at a time: `before` *)
(* and `after` tiles before and after the player, `window` tiles at most, and    *)
(* from what coordinate on the view is held against its end.                     *)

Min2(a, b) == IF a < b THEN a ELSE b
Max2(a, b) == IF a < b THEN b ELSE a

ViewEnd(at, len, after) == Min2(at + after, len - 1)

ViewX(at, len) ==
  LET from == Max2(at - 7, 0)
      to   == ViewEnd(at, len, 29)
  IN  IF at > (to - from) \div 2 /\ to - 29 > -1 THEN to - 29 ELSE from

ViewY(at, len) ==
  LET to == ViewEnd(at, len, 16)
  IN  IF at > 14 /\ to - 16 > -1 THEN to - 16 ELSE Max2(at - 14, 0)

\* render(): the picture that says the game is won.
ShowsWin == exit = player /\ collectible = 0

-----------------------------------------------------------------------------
Init ==
  /\ map \in Maps
  /\ phase = "check" /\ calls = <<>> /\ filled = {} /\ end = FALSE
  /\ collectible = 0 /\ player = <<0, 0>> /\ exit = <<0, 0>>

Key == \E to \in Near(player) : Move(to) \/ Stay(to)

Next == Check \/ Refuse \/ Fill \/ FillEnd \/ Key \/ Escape

Spec == Init /\ [][Next]_vars

-----------------------------------------------------------------------------
(* Properties *)

\* Where the player can get to by walking.
Beside(S) == {p \in UNION {Near(q) : q \in S} : Inside(p) /\ Tile(p) # "1"}

Walked[S \in SUBSET (Nat \X Nat)] ==
  LET more == Beside(S) \ S IN IF more = {} THEN S ELSE Walked[S \cup more]
Winnable == Having("C") \cup {exit} \subseteq Walked[{player}]

\* What is left to collect is counted right, and the exit is on the map whenever the player is not on it.
Counted ==
  phase = "play" => /\ collectible = Cardinality(Having("C"))
                    /\ Having("P") = {player} /\ Having("E") = {exit} \ {player}

\* flood_fill() never looks beside the map, and lets exactly the maps be played that can
\* be won; from then on, wherever the player goes, also over the exit and off it again,
\* the game can still be won: what is left to collect is counted right and can be
\* reached, and so can the exit.
GameStaysWinnable ==
  /\ phase # "crash"
  /\ phase = "unsolvable" => ~Winnable
  /\ phase = "play" => Winnable
  /\ Counted

\* The game is over for the keys exactly when the picture says that it is won, and until
\* then the player is among the tiles drawn, in the window.
Shown ==
  phase = "play" =>
    /\ end = ShowsWin
    /\ ViewX(player[1], Len(map[1])) \in player[1] - 29 .. player[1]
    /\ ViewY(player[2], Len(map)) \in player[2] - 16 .. player[2]
    /\ ViewX(player[1], Len(map[1])) >= 0 /\ ViewY(player[2], Len(map)) >= 0
=============================================================================
