------------------------------ MODULE RayCaster ------------------------------
(***************************************************************************)
(* cub3d: a file is read into a map with one player; a flood fill decides  *)
(* whether the map is closed; then the player walks in it and rays are     *)
(* cast from where it stands.  Nothing looks at the size of the map while  *)
(* walking or casting: only the walls keep an index inside.                *)
(*                                                                         *)
(* A line is a sequence of characters, an element of the scene the         *)
(* sequence of its name.  Columns and rows count from 0.  The player's     *)
(* place is in units, CELL of them in a cell.                              *)
(***************************************************************************)
EXTENDS Integers, Sequences, SequencesExt

CONSTANTS
  Files,        \* sequences of lines
  MAP_MAX,      \* rows of a map at most, and tiles in a row, 1024 in the code
  Headings,     \* directions of rays, HEADING in length or more
  HEADING,      \* the unit of these lengths
  CELL,         \* units in a cell, more than 2 * REACH
  REACH,        \* how far the player must be from a wall, 0.1 in the code
  STEP,         \* how far it goes in a frame at most, MOVE_SPEED, 0.05 in the code: less than 2 * REACH
  SCREEN_Y,     \* lines on the screen
  WIDTH, HEIGHT \* of a texture

ASSUME FilesAssumption == Files \subseteq Seq(Seq(STRING)) /\ MAP_MAX \in Nat
ASSUME HeadingsAssumption == Headings \subseteq Int \X Int /\ \A h \in Headings : h[1] # 0 \/ h[2] # 0
ASSUME WalkAssumption ==
  /\ CELL \in Nat /\ REACH \in Nat \ {0} /\ STEP \in Nat
  /\ 2 * REACH < CELL /\ STEP < 2 * REACH
ASSUME ScreenAssumption == {HEADING, SCREEN_Y, WIDTH, HEIGHT} \subseteq Nat \ {0}

VARIABLES
  file,         \* the lines
  next,         \* the line find_str() goes on from
  elements,     \* what has been read of the scene
  map,          \* the rows of the map, once it is read or too big
  phase,        \* "scene", "fill", "play", "refused", or "crash" at a line that is not there
  calls,        \* the calls of fill() that are still to be made, as <<x, y>>
  filled,       \* cells marked with 'X'
  player,       \* <<x, y>>
  ray           \* the ray that is being cast, or NoRay

vars == <<file, next, elements, map, phase, calls, filled, player, ray>>

NoPlayer == <<-1, -1>>
NoRay    == [at |-> <<-1, -1>>]

-----------------------------------------------------------------------------
(* The file.                                                                    *)

Textures == {"NO", "SO", "WE", "EA"}
Colors   == {"C", "F"}
Tiles    == {"0", "1", " ", "N", "S", "W", "E"}
Players  == {"N", "S", "W", "E"}

\* assign_tab(): a tab is three blanks.
tab_trim(lines) ==
  [i \in DOMAIN lines |-> FlattenSeq([j \in DOMAIN lines[i] |->
     IF lines[i][j] = "\t" THEN <<" ", " ", " ">> ELSE <<lines[i][j]>>])]

\* find_str(): the next line that is not empty, or the end.
find_str == CHOOSE i \in next .. Len(file) + 1 :
  /\ i =< Len(file) => file[i] # <<>>
  /\ \A j \in next .. i - 1 : file[j] = <<>>
Found == next =< Len(file) /\ find_str =< Len(file)

Refuse == phase' = "refused" /\ UNCHANGED <<file, next, elements, map, calls, filled, player, ray>>

Wanted == IF Len(elements) < 4 THEN Textures ELSE Colors
IsElement(line) == Len(line) = 1 /\ line[1] \in Wanted \ ToSet(elements)

\* parse_textures(), parse_colors(): one of each texture, then one of each color.
ReadElement ==
  /\ phase = "scene" /\ Len(elements) < 6
  /\ Found /\ IsElement(file[find_str])
  /\ elements' = elements \o file[find_str] /\ next' = find_str + 1
  /\ UNCHANGED <<file, map, phase, calls, filled, player, ray>>

BadElement ==
  /\ phase = "scene" /\ Len(elements) < 6
  /\ IF Found THEN ~IsElement(file[find_str]) ELSE Len(elements) < 4
  /\ Refuse

\* Nobody looks whether there is a line for a color.
NoColor ==
  /\ phase = "scene" /\ Len(elements) \in 4 .. 5 /\ ~Found
  /\ phase' = "crash"
  /\ UNCHANGED <<file, next, elements, map, calls, filled, player, ray>>

-----------------------------------------------------------------------------
(* The map: its rows, its player, and whether it is closed.                     *)

\* The character of a place, "" where a row has ended: its terminator.
Tile(rows, p)   == IF p[1] = Len(rows[p[2] + 1]) THEN "" ELSE rows[p[2] + 1][p[1] + 1]
Inside(rows, p) == p[2] \in 0 .. Len(rows) - 1 /\ p[1] \in 0 .. Len(rows[p[2] + 1]) - 1
Places(rows)    == UNION {(0 .. Len(rows[y]) - 1) \X {y - 1} : y \in DOMAIN rows}
Having(rows, t) == {p \in Places(rows) : Tile(rows, p) \in t}

Up(p)    == <<p[1], p[2] - 1>>
Down(p)  == <<p[1], p[2] + 1>>
Left(p)  == <<p[1] - 1, p[2]>>
Right(p) == <<p[1] + 1, p[2]>>
Near(p)  == {Up(p), Down(p), Left(p), Right(p)}

\* trim_map(): the lines up to an empty one.
Rows == SubSeq(file, find_str, (CHOOSE i \in find_str .. Len(file) + 1 :
          /\ i =< Len(file) => file[i] = <<>>
          /\ \A j \in find_str .. i - 1 : file[j] # <<>>) - 1)
MapRows == IF Found THEN Rows ELSE <<>>

GoodTiles(rows) ==
  /\ \A p \in Places(rows) : Tile(rows, p) \in Tiles
  /\ \E p \in Places(rows) : Having(rows, Players) = {p}

BadMap ==
  /\ phase = "scene" /\ Len(elements) = 6
  /\ Len(MapRows) =< MAP_MAX /\ ~GoodTiles(MapRows)
  /\ Refuse

\* init_parse() counts the rows first, get_w_h() the tiles of a row when the tiles are known to be good.
FitsIn(rows) == Len(rows) =< MAP_MAX /\ \A y \in DOMAIN rows : Len(rows[y]) =< MAP_MAX

TooBig ==
  /\ phase = "scene" /\ Len(elements) = 6
  /\ ~FitsIn(MapRows) /\ (Len(MapRows) > MAP_MAX \/ GoodTiles(MapRows))
  /\ map' = MapRows /\ phase' = "refused"
  /\ UNCHANGED <<file, next, elements, calls, filled, player, ray>>

\* get_cords(): the floor, in the order of the rows.
Floor(rows) == FlattenSeq([y \in DOMAIN rows |->
  FlattenSeq([x \in DOMAIN rows[y] |-> IF rows[y][x] = "0" THEN <<<<x - 1, y - 1>>>> ELSE <<>>])])

ReadMap ==
  /\ phase = "scene" /\ Len(elements) = 6 /\ FitsIn(MapRows) /\ GoodTiles(MapRows)
  /\ \E p \in Having(MapRows, Players) :
       /\ map' = [MapRows EXCEPT ![p[2] + 1][p[1] + 1] = "0"]
       /\ player' = <<p[1] * CELL + CELL \div 2, p[2] * CELL + CELL \div 2>>
  /\ calls' = Floor(map') /\ phase' = "fill"
  /\ UNCHANGED <<file, next, elements, filled, ray>>

\* A column more than the longest row has.
SizeX == 1 + (CHOOSE n \in {Len(map[y]) : y \in DOMAIN map} : \A y \in DOMAIN map : Len(map[y]) =< n)
OnBorder(p)   == p[1] \in {0, SizeX - 1} \/ p[2] \in {0, Len(map) - 1}
neighbour_any(p) == \A q \in Near(p) : Inside(map, q)
neighbour(p)  == \A q \in Near(p) : Inside(map, q) /\ Tile(map, q) # " "

Passed(p) ==
  \/ p[1] \notin 0 .. SizeX - 1 \/ p[2] \notin 0 .. Len(map) - 1
  \/ p \in filled
  \/ Tile(map, p) # "0"

Fill ==
  /\ phase = "fill" /\ calls # <<>> /\ Passed(Head(calls))
  /\ calls' = Tail(calls)
  /\ UNCHANGED <<file, next, elements, map, phase, filled, player, ray>>

FillOn ==
  /\ phase = "fill" /\ calls # <<>>
  /\ LET p == Head(calls) IN
       /\ ~Passed(p) /\ ~OnBorder(p) /\ neighbour(p)
       /\ calls' = <<Up(p), Down(p), Left(p), Right(p)>> \o Tail(calls)
       /\ filled' = filled \cup {p}
  /\ UNCHANGED <<file, next, elements, map, phase, player, ray>>

FillFails ==
  /\ phase = "fill" /\ calls # <<>>
  /\ LET p == Head(calls) IN ~Passed(p) /\ (OnBorder(p) \/ ~neighbour(p))
  /\ Refuse

FillEnds ==
  /\ phase = "fill" /\ calls = <<>>
  /\ phase' = "play"
  /\ UNCHANGED <<file, next, elements, map, calls, filled, player, ray>>

-----------------------------------------------------------------------------
(* A frame: the player moves, and then rays are cast from where it stands.      *)

Cell(at) == <<at[1] \div CELL, at[2] \div CELL>>
Corners(at) == {<<at[1] + a, at[2] + b>> : a, b \in {-REACH, REACH}}

can_move(at) == \A c \in Corners(at) : Tile(map, Cell(c)) # "1"

Move(dx, dy) ==
  /\ phase = "play" /\ ray = NoRay
  /\ LET at == <<player[1] + dx, player[2] + dy>> IN
       can_move(at) /\ player' = at
  /\ UNCHANGED <<file, next, elements, map, phase, calls, filled, ray>>

Abs(n) == IF n < 0 THEN -n ELSE n

\* ray_calc(), pre_dda(): side[1] is side_dist_x * |ray_dir_x| in units, side[2] the same of y.
Cast(h) ==
  /\ phase = "play" /\ ray = NoRay
  /\ LET at == Cell(player)
          side(k) == IF h[k] < 0 THEN player[k] - at[k] * CELL ELSE (at[k] + 1) * CELL - player[k]
     IN ray' = [at |-> at, dir |-> h, side |-> <<side(1), side(2)>>, last |-> 0, pc |-> "dda"]
  /\ UNCHANGED <<file, next, elements, map, phase, calls, filled, player>>

\* The next line of the grid the ray meets is one between two columns; a ray along one never does.
MeetsColumn(r) == r.dir[1] # 0 /\ (r.dir[2] = 0 \/ r.side[1] * Abs(r.dir[2]) < r.side[2] * Abs(r.dir[1]))

Advance ==
  /\ ray # NoRay /\ ray.pc = "dda"
  /\ LET k  == IF MeetsColumn(ray) THEN 1 ELSE 2
          at == [ray.at EXCEPT ![k] = @ + (IF ray.dir[k] < 0 THEN -1 ELSE 1)]
     IN ray' = [ray EXCEPT !.at = at, !.side[k] = @ + CELL, !.last = k,
                           !.pc = IF Tile(map, at) \in {"1"} THEN "hit" ELSE "dda"]
  /\ UNCHANGED <<file, next, elements, map, phase, calls, filled, player>>

Draw ==
  /\ ray # NoRay /\ ray.pc = "hit"
  /\ ray' = NoRay
  /\ UNCHANGED <<file, next, elements, map, phase, calls, filled, player>>

-----------------------------------------------------------------------------
(* What is drawn for a ray that has hit: its wall_dist is Far(r) / Unit(r).     *)

Far(r)  == (r.side[r.last] - CELL) * HEADING
Unit(r) == CELL * Abs(r.dir[r.last])

line_height(r) == (SCREEN_Y * Unit(r)) \div Far(r)
draw_start(r)  == LET n == SCREEN_Y \div 2 - line_height(r) \div 2 IN IF n < 0 THEN 0 ELSE n
draw_end(r)    == LET n == SCREEN_Y \div 2 + line_height(r) \div 2 IN IF n >= SCREEN_Y THEN SCREEN_Y - 1 ELSE n

\* put_walls(): where the wall is hit, a part of Unit(r), as a column of the texture.
Column(r) ==
  LET k == 3 - r.last
      at == (player[k] * Abs(r.dir[r.last]) + (r.side[r.last] - CELL) * r.dir[k]) % Unit(r)
      n == (at * WIDTH) \div Unit(r)
  IN IF (r.last = 1 /\ r.dir[1] > 0) \/ (r.last = 2 /\ r.dir[2] < 0) THEN WIDTH - n - 1 ELSE n

\* The line of the texture for a line of the screen.
Line(r, y) == ((y - SCREEN_Y \div 2 + line_height(r) \div 2) * HEIGHT) \div line_height(r)

Init ==
  /\ file \in {tab_trim(f) : f \in Files}
  /\ next = 1 /\ elements = <<>> /\ map = <<>> /\ phase = "scene"
  /\ calls = <<>> /\ filled = {} /\ player = NoPlayer /\ ray = NoRay

Next ==
  \/ ReadElement \/ BadElement \/ NoColor \/ BadMap \/ TooBig \/ ReadMap
  \/ Fill \/ FillOn \/ FillFails \/ FillEnds
  \/ \E dx, dy \in -STEP .. STEP : Move(dx, dy)
  \/ (\E h \in Headings : Cast(h)) \/ Advance \/ Draw

Spec == Init /\ [][Next]_vars

-----------------------------------------------------------------------------
\* Every place that may be stood on has a wall or floor on its four sides.
Closed(rows) == \A p \in Having(rows, {"0"}) : \A q \in Near(p) : Inside(rows, q) /\ Tile(rows, q) \in {"0", "1"}

\* Maps of good tiles that are closed and not too big are let in, and no others.
OnlyClosedMaps ==
  /\ phase = "play" => Closed(map) /\ FitsIn(map)
  /\ phase = "refused" /\ map # <<>> => ~(Closed(map) /\ FitsIn(map))

\* While nothing looks at the size of the map, the player's corners are on the
\* floor, the tiles that are looked at for a step are tiles or a row's end, and
\* so is the ray's; a wall is never at no distance.
StaysInside ==
  /\ phase = "play" =>
       /\ \A c \in Corners(player) : Inside(map, Cell(c)) /\ Tile(map, Cell(c)) = "0"
       /\ \A dx, dy \in -STEP .. STEP : \A c \in Corners(<<player[1] + dx, player[2] + dy>>) :
            LET p == Cell(c) IN p[2] \in 0 .. Len(map) - 1 /\ p[1] \in 0 .. Len(map[p[2] + 1])
  /\ ray # NoRay => Inside(map, ray.at)
  /\ ray # NoRay /\ ray.pc = "hit" => Far(ray) > 0

\* What is drawn is on the screen, and is taken from inside the texture.
DrawnInside ==
  ray # NoRay /\ ray.pc = "hit" /\ Far(ray) > 0 =>
    /\ Column(ray) \in 0 .. WIDTH - 1
    /\ \A y \in draw_start(ray) .. draw_end(ray) - 1 : y \in 0 .. SCREEN_Y - 1 /\ Line(ray, y) \in 0 .. HEIGHT - 1

\* A closed map that is not too big, and no other, is let in; it keeps the player and every ray inside, and what
\* is drawn too (init_parse(), init_flood(), can_move(), dda(), put_walls()).
RaysStayInside == OnlyClosedMaps /\ StaysInside /\ DrawnInside
=============================================================================
