----------------------------- MODULE MCPrograms -----------------------------
(* The programs that run alone.  The initial state chooses one of them; they     *)
(* share nothing.  RayCaster has its own variables here, the others are given    *)
(* the same variables s1, s2, ... for theirs.                                    *)
EXTENDS RayCaster, FiniteSets, TLC

CONSTANT NULL

VARIABLES program, s1, s2, s3, s4, s5, s6, s7, s8, s9

Own == <<s1, s2, s3, s4, s5, s6, s7, s8, s9>>

Unused == "unused"

-----------------------------------------------------------------------------
(* The variables of the shell.  "P" is a beginning of two other names, and two   *)
(* of the values begin alike.                                                    *)

P == <<"P">>
Path == <<"P", "A">>
Pwd  == <<"P", "W">>

Env == INSTANCE Environment WITH
  Names <- {P, Path}, Values <- {"/a", "/b", "1", ""}, Blank <- "", First <- [v \in {"/a", "/b", "1"} |-> IF v = "1" THEN "1" ELSE "/"], Dirs <- {"/a", "/b"}, NoText <- "no text", NULL <- NULL,
  PATH <- Path, PWD <- Pwd, OLDPWD <- <<"O">>, HOME <- <<"H">>, SHLVL <- <<"S">>, One <- "1",
  Parents <- {<<>>, <<[name |-> <<"H">>, value |-> "/b"]>>, <<[name |-> Path, value |-> "/a"]>>}, MaxEntries <- 3,
  envp <- s1, path <- s2, status <- s3, cwd <- s4, running <- s5, asked <- s6, wild <- s7

\* The constants are those that the proofs are about.
ASSUME EnvAssumption == Env!ConstantsAssumption

EnvInit == program = "environment" /\ s8 = Unused /\ s9 = Unused /\ Env!Init
EnvNext == program = "environment" /\ Env!Next /\ UNCHANGED <<s8, s9>>

\* The shell's list of variables is a store of names and values (Environment, Store).
ImplementsStore ==
  /\ program = "environment" => Env!Promised!Init
  /\ [][program = "environment" => Env!Promised!Next \/ UNCHANGED <<Env!Dict, Env!Behind, s2, s7>>]_Own

-----------------------------------------------------------------------------
(* Two commands and a pipe that holds less than they write.                      *)

Px == INSTANCE Pipex WITH
  Fd <- 0 .. 7, NONE <- "none", Firsts <- {"gen", "copy", "missing", "broken"}, Seconds <- {"copy", "head", "gen", "missing"},
  PipeSize <- 1, Volume <- 2,
  parent <- s1, kind <- s2, child <- s3, fd <- s4, pipe <- s5, out <- s6, lacks <- s7

\* The constants are those that the proof is about.
ASSUME PxAssumption == Px!ConstantsAssumption

PxInit == program = "pipex" /\ s8 = Unused /\ s9 = Unused /\ Px!Init
PxNext == program = "pipex" /\ Px!Next /\ UNCHANGED <<s8, s9>>

\* The commands are connected as asked, the status is the second one's, and both end (Pipex).
PairIsRun ==
  /\ [](program = "pipex" => Px!PairIsRun)
  /\ (program = "pipex" /\ Px!Modest) ~> (program = "pipex" /\ s1.pc = "gone")

-----------------------------------------------------------------------------
(* Two texts read at the same time, with one static and with one for each.       *)

TextsOf(n) == UNION {[1 .. i -> {"nl", "a"}] : i \in 0 .. n}

Gnl == INSTANCE NextLine WITH
  Fds <- {"f", "g"}, NL <- "nl", NULL <- NULL, Texts <- TextsOf(3), BUFFER_SIZE <- 2,
  place <- s1, held <- s2, call <- s3, rest <- s4, given <- s5, spoiled <- s6, user <- s7, ended <- s8

\* The constants are those that the proofs are about.
ASSUME GnlAssumption == Gnl!ConstantsAssumption

GnlInit == program = "get_next_line" /\ s9 = Unused /\ Gnl!Init
GnlNext == program = "get_next_line" /\ Gnl!Next /\ UNCHANGED s9

\* Lines are given as they are in the texts, and nothing is lost (NextLine).
LinesAreGiven ==
  /\ [](program = "get_next_line" => Gnl!LinesAreGiven)
  /\ [][program = "get_next_line" => Gnl!NothingLost]_Own

-----------------------------------------------------------------------------
(* Rooms of two by three tiles, two long ones, and maps that are no maps.        *)

Row(t)     == <<"1">> \o t \o <<"1">>
RoomRow(n)    == [1 .. n -> {"0", "1", "C", "E", "P"}]
Full(n)    == [i \in 1 .. n |-> "1"]
Rooms      == {<<Full(5), Row(r), Row(q), Full(5)>> : r, q \in RoomRow(3)}
Lane(n)   == [i \in 1 .. n |-> "0"]
Corridor   == <<Full(38), Row(<<"P", "E">> \o Lane(33) \o <<"C">>), Full(38)>>
Well       == <<Full(3), Row(<<"P">>)>> \o [i \in 1 .. 20 |-> Row(<<"0">>)] \o <<Row(<<"E">>), Row(<<"C">>), Full(3)>>
Broken     == {<<>>, <<Row(<<"P">>), Full(3)>>, <<Full(5), Row(<<"P", "C", "E">>), Full(4)>>,
               <<Full(5), <<"1", "P", "C", "E", "0">>, Full(5)>>, <<Full(5), Row(<<"P", "C", "E">>), Row(<<"0", "1", "1">>)>>}

Game == INSTANCE SoLong WITH
  Maps <- Rooms \cup {Corridor, Well} \cup Broken,
  map <- s1, phase <- s2, collectible <- s3, player <- s4, exit <- s5, calls <- s6, filled <- s7, end <- s8

ASSUME GameAssumption == Game!ConstantsAssumption

GameInit == program = "so_long" /\ s9 = Unused /\ Game!Init
GameNext == program = "so_long" /\ Game!Next /\ UNCHANGED s9

\* A map that is let in can be won at any time of the game, and is seen (SoLong).
GameStaysWinnable == program = "so_long" => Game!GameStaysWinnable /\ Game!Shown

-----------------------------------------------------------------------------
(* Every order of up to seven numbers, and every pair of short texts; or one     *)
(* text with blanks in it.                                                      *)

Char   == <<"1", "2", "3", "4", "5", "6", "7">>
Orders(n) == {[k \in 1 .. n |-> <<Char[p[k]]>>] : p \in Permutations(1 .. n)}
Short  == UNION {[1 .. n -> {"+", "-", "0", "1", "2"}] : n \in 0 .. 3}
Blanked == UNION {[1 .. n -> {" ", "-", "0", "1", "2"}] : n \in 0 .. 5}

Push == INSTANCE PushSwap WITH
  Arguments <- {<<t, u>> : t, u \in Short} \cup {<<t>> : t \in Blanked} \cup UNION {Orders(n) : n \in 1 .. 7},
  Digits <- [c \in {"0", "1", "2", "3", "4", "5", "6", "7"} |-> IF c = "0" THEN 0 ELSE CHOOSE k \in 1 .. 7 : Char[k] = c],
  INT_MAX <- 20, LowestText <- <<"-", "2", "1">>,
  args <- s1, pc <- s2, a <- s3, b <- s4, i <- s5, costs <- s6, told <- s7

ASSUME PushAssumption == Push!ConstantsAssumption

PushInit == program = "push_swap" /\ s8 = Unused /\ s9 = Unused /\ Push!Init
PushNext == program = "push_swap" /\ Push!Next /\ UNCHANGED <<s8, s9>>

\* Numbers are sorted, and anything else is refused (PushSwap).
SortsAnything == program = "push_swap" => Push!SortsAnything

-----------------------------------------------------------------------------
(* Every order of up to seven numbers, numbers that are equal, and longer ones   *)
(* for the groups of four and more.                                              *)

Spread(n, a) == [k \in 1 .. n |-> (k * a) % 31]

Merge == INSTANCE MergeInsertion WITH
  Numbers <- UNION {{[k \in 1 .. n |-> p[k]] : p \in Permutations(1 .. n)} : n \in 1 .. 7} \cup UNION {[1 .. n -> 1 .. 2] : n \in 2 .. 8}
             \cup {Spread(n, a) : n \in {13, 14, 22, 23, 30}, a \in 1 .. 30},
  given <- s1, container <- s2, pair_level <- s3, phase <- s4, comparisons <- s5, outside <- s6

MergeInit == program = "PmergeMe" /\ s7 = Unused /\ s8 = Unused /\ s9 = Unused /\ Merge!Init
MergeNext == program = "PmergeMe" /\ Merge!Next /\ UNCHANGED <<s7, s8, s9>>

\* Merge insertion sorts, within its bounds and with no comparison too many (MergeInsertion).
MergesFrugally == program = "PmergeMe" => Merge!Sorts /\ Merge!SavesComparisons

-----------------------------------------------------------------------------
(* All short lines, once with variables and once with quotes and redirections.   *)

Typed(chars, n) == UNION {[1 .. i -> chars] : i \in 0 .. n}

Shell == INSTANCE Parsing WITH
  Lines <- Typed({"$", "?", "a", "b", " ", "\""}, 5) \cup Typed({"a", " ", "\t", "'", "\"", "|", ">"}, 5),
  Letters <- {"a", "b"}, Status <- <<"1", "3", "0">>, Nothing <- NULL,
  Envp <- (<<"a">> :> <<"b", "b">>) @@ (<<"b">> :> <<"a">>) @@ (<<"a", "b">> :> <<"b">>),
  pc <- s1, line <- s2, message <- s3, overrun <- s4, list <- s5

LineInit == program = "parsing" /\ s6 = Unused /\ s7 = Unused /\ s8 = Unused /\ s9 = Unused /\ Shell!Init
LineNext == program = "parsing" /\ Shell!Next /\ UNCHANGED <<s6, s7, s8, s9>>

\* A line is cut into commands and words as it means (Parsing).
LineIsUnderstood == program = "parsing" => Shell!LineIsUnderstood

-----------------------------------------------------------------------------
(* Small maps, closed and not, and files that are not what they should be.      *)

Scene(rows) == <<<<"NO">>, <<"SO">>, <<>>, <<"WE">>, <<"EA">>, <<"C">>, <<"F">>, <<>>>> \o rows
Inner(n)    == {t \in [1 .. n -> {"0", "1", " ", "N"}] : \E k \in 1 .. n : t[k] = "N"}
Walled(t, n)  == <<"1">> \o SubSeq(t, n, n + 1) \o <<"1">>
Tops        == {Full(4), Full(3), <<" ", "1", "1", "1">>}
Small       == {<<top, Walled(t, 1), Walled(t, 3), bottom>> : top \in Tops, t \in Inner(4), bottom \in Tops}
\* A closed map of n rows.
Shaft(n)    == [y \in 1 .. n |-> IF y \in {1, n} THEN Full(3) ELSE <<"1", IF y = 2 THEN "N" ELSE "0", "1">>]
Hall        == {<<Full(5), <<"1", "0", "N", "0", "1">>, <<"1", "0", "1", "0", "1">>, <<"1", "0", "0", "0", "1">>, Full(5)>>,
                <<Full(3), <<"1", "W", "1", "\t", "1">>, <<"1", "0", "1">>, Full(3)>>,
                Shaft(7), Shaft(8), <<Full(7), <<"1", "S", "0", "0", "0", "0", "1">>, Full(7)>>,
                <<Full(8), <<"1", "S", "1">>, Full(3)>>, <<Full(8), <<"1", "x", "1">>>>,
                <<Full(3), <<"1", "W", "0">>, Full(3)>>, <<<<"1", "0", "1">>, <<"1", "S", "1">>, Full(3)>>,
                <<Full(3), <<"1", "E", "1">>, Full(3), <<>>, <<"0">>>>, <<Full(3), <<"1", "x", "1">>>>, <<>>}
BadScenes   == {<<>>, <<<<"NO">>, <<"NO">>>>, <<<<"SO">>, <<"NO">>, <<"C">>>>, <<<<"WE">>, <<"SO">>, <<"NO">>, <<"EA">>, <<"F">>>>,
                <<<<"WE">>, <<"SO">>, <<"NO">>, <<"EA">>, <<"F">>, <<"F">>>>, <<<<"WE">>, <<"SO">>, <<"NO">>, <<"EA">>, <<"C", "x">>>>}

CubFiles    == {Scene(rows) : rows \in Small \cup Hall} \cup BadScenes
CubHeadings == {<<2, 0>>, <<-2, 0>>, <<0, 2>>, <<0, -2>>, <<2, 2>>, <<-2, 3>>, <<3, -1>>, <<-3, -2>>}

CubInit ==
  /\ program = "cub3d" /\ Init
  /\ s1 = Unused /\ s2 = Unused /\ s3 = Unused /\ s4 = Unused /\ s5 = Unused /\ s6 = Unused /\ s7 = Unused /\ s8 = Unused /\ s9 = Unused
CubNext == program = "cub3d" /\ Next /\ UNCHANGED Own

\* The other programs have no scene.
NoScene ==
  /\ file = <<>> /\ next = 1 /\ elements = <<>> /\ map = <<>> /\ phase = "scene"
  /\ calls = <<>> /\ filled = {} /\ player = NoPlayer /\ ray = NoRay

-----------------------------------------------------------------------------
(* Calls of library functions with overlapping, empty, cut and missing memory;   *)
(* formats of up to three pieces; and arguments that are numbers and are not.   *)

Figures     == <<"0", "1", "2", "3", "4", "5", "6", "7", "8", "9">>
Ab(n)       == Typed({"a", "b"}, n)
Lowest128   == <<"-", "1", "2", "8">>
Numerals    == {[t |-> Lowest128, n |-> -128], [t |-> <<"-", "7">>, n |-> -7], [t |-> <<"-">>, n |-> 0], [t |-> <<>>, n |-> 0],
                [t |-> <<"0", "4", "2">>, n |-> 42], [t |-> <<"+", "1", "2", "7">>, n |-> 127], [t |-> <<"+", "-", "7">>, n |-> 0]}
LibraryCalls ==
  [fn : {"memmove"}, m : {<<"a", "b", "c", "d">>}, dst : 0 .. 2, src : 0 .. 2, len : 0 .. 2]
  \cup [fn : {"strncmp"}, s : Ab(2), t : Ab(2), len : 0 .. 3]
  \cup [fn : {"strlcpy"}, m : {<<"x", "y", "x", "y">>}, s : Ab(5), len : 0 .. 4]
  \cup [fn : {"strlcat"}, m : {t \o <<"end">> \o SubSeq(<<"x", "y", "x">>, Len(t) + 1, 3) : t \in Ab(3)}, s : Ab(3), len : 0 .. 4]
  \cup [fn : {"strnstr"}, s : Ab(4), t : Ab(2), len : 0 .. 5]
  \cup [fn : {"substr"}, s : Ab(3), start : 0 .. 4, len : 0 .. 4]
  \cup [fn : {"strtrim"}, s : Typed({"a", "b", " "}, 4), t : {<<>>, <<" ">>, <<"b", " ">>}]
  \cup [fn : {"split"}, s : Typed({"a", " "}, 5), delimiter : {" "}, fails : 0 .. 3]
  \cup [fn : {"itoa", "putnbr"}, n : -128 .. 127]
  \cup {[fn |-> "atoi", s |-> b \o x.t \o j, n |-> x.n] : b \in Typed({" ", "\t"}, 2), x \in Numerals, j \in {<<>>, <<"a", "1">>}}
  \cup [fn : {"lstmap"}, list : Ab(3), fails : 0 .. 3]

Lib == INSTANCE Libft WITH
  NUL <- "end", NULL <- NULL, Order <- ("end" :> 0 @@ "a" :> 1 @@ "b" :> 2), Digits <- Figures, Blanks <- {" ", "\t"},
  INT_MAX <- 127, LowestText <- Lowest128, Calls <- LibraryCalls, call <- s1, result <- s2

LibInit == program = "libft" /\ s3 = Unused /\ s4 = Unused /\ s5 = Unused /\ s6 = Unused /\ s7 = Unused /\ s8 = Unused /\ s9 = Unused /\ Lib!Init
LibNext == program = "libft" /\ Lib!Next /\ UNCHANGED <<s3, s4, s5, s6, s7, s8, s9>>

Piece(str, args, meant) == [str |-> str, args |-> args, meant |-> meant]
Number(n) == <<[n |-> n, memory |-> TRUE]>>
Pieces == <<
  Piece(<<"%", "x">>, <<254>>, <<"f", "e">>), Piece(<<"%", "X">>, <<-86>>, <<"A", "A">>), Piece(<<"%", "u">>, <<-1>>, <<"2", "5", "5">>),
  Piece(<<"%", "u">>, <<0>>, <<"0">>), Piece(<<"%", "p">>, <<4095>>, <<"0", "x", "f", "f", "f">>), Piece(<<"%", "d">>, Number(-128), Lowest128),
  Piece(<<"%", "s">>, <<<<"a", "b">>>>, <<"a", "b">>), Piece(<<"%", "s">>, <<<<>>>>, <<>>),
  Piece(<<"a">>, <<>>, <<"a">>), Piece(<<"%", "%">>, <<>>, <<"%">>), Piece(<<"%", "c">>, <<"x">>, <<"x">>), Piece(<<"%", "p">>, <<0>>, <<"0", "x", "0">>),
  Piece(<<"%", "s">>, <<NULL>>, <<"(", "n", "u", "l", "l", ")">>), Piece(<<"%", "i">>, Number(0), <<"0">>),
  Piece(<<"%", "d">>, <<[n |-> 7, memory |-> FALSE]>>, <<"(", "n", "u", "l", "l", ")">>), Piece(<<"%", "z">>, <<>>, <<>>), Piece(<<"%">>, <<>>, NULL)>>
Whole(ids)   == [k \in DOMAIN ids |-> Pieces[ids[k]]]
Sentence(ps) == [str |-> FlattenSeq([k \in DOMAIN ps |-> ps[k].str]), args |-> FlattenSeq([k \in DOMAIN ps |-> ps[k].args]),
                 meant |-> IF Last(ps).meant = NULL THEN NULL ELSE FlattenSeq([k \in DOMAIN ps |-> ps[k].meant])]
Sentences    == [ids \in [1 .. 1 -> 1 .. 17] \cup {<<i, j>> : i \in 1 .. 16, j \in 1 .. 17} \cup [1 .. 3 -> 1 .. 8] |-> Sentence(Whole(ids))]

Pr == INSTANCE Printf WITH
  NUL <- "end", NULL <- NULL, JUNK <- "junk", Lower <- Figures \o <<"a", "b", "c", "d", "e", "f">>, Upper <- Figures \o <<"A", "B", "C", "D", "E", "F">>,
  ROOM <- 4, WORD <- 256, LONG <- 4096, Formats <- Sentences, call <- s1, at <- s2, used <- s3, len <- s4, out <- s5, buffer <- s6, unset <- s7, wild <- s8

PrInit == program = "printf" /\ s9 = Unused /\ Pr!Init
PrNext == program = "printf" /\ Pr!Next /\ UNCHANGED s9

Lists(n, texts, other) == {[k \in 1 .. n |-> IF k = i THEN t ELSE IF k = j THEN u ELSE other] : i, j \in 1 .. n, t, u \in texts}
Args == INSTANCE Arguments WITH
  Digits <- Figures, INT_MAX <- 20, MOST <- 2,
  Given <- UNION {Lists(n, {<<>>, <<"+">>, <<"0">>, <<"7">>, <<"2", "0">>, <<"2", "1">>, <<"+", "1">>, <<"1", "x">>}, <<"1">>) : n \in 3 .. 6}
           \cup {[k \in 1 .. 4 |-> IF k = i THEN t ELSE <<"2">>] : i \in 1 .. 3, t \in Typed({"+", "-", "0", "1", "3", "x"}, 3)},
  argv <- s1, next <- s2, table <- s3, error <- s4, verdict <- s5

ArgsInit == program = "arguments" /\ s6 = Unused /\ s7 = Unused /\ s8 = Unused /\ s9 = Unused /\ Args!Init
ArgsNext == program = "arguments" /\ Args!Next /\ UNCHANGED <<s6, s7, s8, s9>>

\* The functions that everything else is written with give what they are for (Libft,
\* Printf), and the table of the philosophers is laid as asked (Arguments).
FunctionsAgree ==
  /\ program = "libft" => Lib!LibraryAgrees
  /\ program = "printf" => Pr!PrintsAsMeant
  /\ program = "arguments" => Args!ReadAsGiven

-----------------------------------------------------------------------------
(* The classes of the exercises in C++.                                         *)

Mat == INSTANCE Materias WITH
  Pointers <- 1 .. 5, Types <- {"ice"}, SLOTS <- 2, Rooms <- {2, 3}, Sources <- {"src", "copy"}, FIRST <- "src", Characters <- {"me", "bob"},
  heap <- s1, source <- s2, character <- s3, hand <- s4, rough <- s5, wild <- s6

ASSUME MatAssumption == Mat!ConstantsAssumption

MatInit == program = "materias" /\ s7 = Unused /\ s8 = Unused /\ s9 = Unused /\ Mat!Init
MatNext == program = "materias" /\ Mat!Next /\ UNCHANGED <<s7, s8, s9>>

Op(c)  == [kind |-> c]
Num(n) == [kind |-> "number", n |-> n]
Trapped == <<Num(0), Num(127), Op("-"), Num(1), Op("-"), Num(0), Num(1), Op("-"), Op("/")>>
Rpn == INSTANCE Calculator WITH
  LONG_MAX <- 127,
  Expressions <- Typed({Num(0), Num(2), Num(100), Op("+"), Op("-"), Op("*"), Op("/"), Op("other")}, 4)
                 \cup [1 .. 5 -> {Num(0), Num(3), Num(100), Op("-"), Op("*"), Op("/")}] \cup [1 .. 7 -> {Num(3), Num(5), Op("-")}] \cup {Trapped},
  expression <- s1, next <- s2, stack <- s3, end <- s4

ASSUME RpnAssumption == Rpn!ConstantsAssumption

RpnInit == program = "RPN" /\ s5 = Unused /\ s6 = Unused /\ s7 = Unused /\ s8 = Unused /\ s9 = Unused /\ Rpn!Init
RpnNext == program = "RPN" /\ Rpn!Next /\ UNCHANGED <<s5, s6, s7, s8, s9>>

Dates(years, months, days) == {y \o <<"-">> \o m \o <<"-">> \o d : y \in years, m \in months, d \in days}
Strict == Dates({<<"1">>, <<"2">>, <<"3">>, <<"4">>}, {<<"0", "0">>, <<"0", "1">>, <<"1", "0">>, <<"1", "2">>, <<"1", "3">>},
                {<<"0", "0">>, <<"0", "1">>, <<"1", "5">>, <<"3", "1">>, <<"3", "2">>})
Loose  == Dates({<<"2">>}, {<<"1">>, <<>>}, {<<"5">>, <<"1", "x">>}) \cup {<<>>, <<"2">>, <<"2", "-", "0", "1">>, <<"x", "-", "-">>}
Rates  == (<<"2", "-", "0", "1", "-", "1", "5">> :> 3) @@ (<<"2", "-", "1", "0", "-", "0", "1">> :> 7) @@ (<<"3", "-", "0", "1", "-", "3", "1">> :> 5)
Entries(dates, amounts) == [bar : {TRUE}, date : dates, amount : amounts] \cup [bar : {FALSE}, date : {<<>>}, amount : {0}]
Bit == INSTANCE Exchange WITH
  Order <- ("-" :> 0) @@ ("x" :> 11) @@ [c \in {Figures[k] : k \in 1 .. 10} |-> CHOOSE k \in 1 .. 10 : Figures[k] = c],
  Digits <- Figures, Database <- Rates, FIRST <- 2, LAST <- 3, MONTHS <- 12, DAYS <- 31, MOST <- 10, WIDTH <- 1,
  Inputs <- {<<l>> : l \in Entries(Strict \cup Loose, {-1, 0, 4, 10, 11})}
            \cup {<<l, k>> : l, k \in Entries(Dates({<<"2">>, <<"3">>}, {<<"0", "1">>, <<"1", "2">>}, {<<"1", "5">>}) \cup Loose, {4, 11})},
  file <- s1, next <- s2, answers <- s3

BitInit == program = "btc" /\ s4 = Unused /\ s5 = Unused /\ s6 = Unused /\ s7 = Unused /\ s8 = Unused /\ s9 = Unused /\ Bit!Init
BitNext == program = "btc" /\ Bit!Next /\ UNCHANGED <<s4, s5, s6, s7, s8, s9>>

Book == INSTANCE PhoneBook WITH
  ROOM <- 3, Numbers <- {"", "1"}, Empty <- "", Asked <- {-1, 0, 1, 3, 4}, MaxCommands <- 5,
  Entered <- {<<"a", "b", "c", "1", "d">>, <<"c", "b", "c", "1", "d">>, <<"a", "b", "c", "b", "d">>, <<"a", "", "c", "1", "d">>, <<"a", "b", "c", "", "d">>},
  contacts <- s1, size <- s2, shown <- s3, running <- s4, entered <- s5

ASSUME BookAssumption == Book!ConstantsAssumption

BookInit == program = "phonebook" /\ s6 = Unused /\ s7 = Unused /\ s8 = Unused /\ s9 = Unused /\ Book!Init
BookNext == program = "phonebook" /\ Book!Next /\ UNCHANGED <<s6, s7, s8, s9>>

Pap == INSTANCE Forms WITH
  Bureaucrats <- {"ann", "bob"}, Papers <- {"form", "other"}, LOWEST <- 4, Grades <- {0, 1, 3, 5},
  Needed <- [shrubbery |-> [toSign |-> 3, toExecute |-> 2], pardon |-> [toSign |-> 2, toExecute |-> 1]],
  grade <- s1, form <- s2, executed <- s3

ASSUME PapAssumption == Pap!ConstantsAssumption

PapInit == program = "forms" /\ s4 = Unused /\ s5 = Unused /\ s6 = Unused /\ s7 = Unused /\ s8 = Unused /\ s9 = Unused /\ Pap!Init
PapNext == program = "forms" /\ Pap!Next /\ UNCHANGED <<s4, s5, s6, s7, s8, s9>>

Spa == INSTANCE Spans WITH
  Objects <- {"span", "copy"}, Limits <- {0, 1, 3}, Batches <- Typed({-8, 0, 7}, 3), INT_MAX <- 7, span <- s1, offered <- s2, answer <- s3

SpaInit == program = "span" /\ s4 = Unused /\ s5 = Unused /\ s6 = Unused /\ s7 = Unused /\ s8 = Unused /\ s9 = Unused /\ Spa!Init
SpaNext == program = "span" /\ Spa!Next /\ UNCHANGED <<s4, s5, s6, s7, s8, s9>>

Fix == INSTANCE FixedPoint WITH
  m_bits <- 2, INT_MAX <- 15, MANTISSA <- 3, SHIFT <- 12, Ints <- -5 .. 5, Raws <- -16 .. 15, a <- s1, b <- s2, before <- s3, wild <- s4

FixInit == program = "fixed" /\ s5 = Unused /\ s6 = Unused /\ s7 = Unused /\ s8 = Unused /\ s9 = Unused /\ Fix!Init
FixNext == program = "fixed" /\ Fix!Next /\ UNCHANGED <<s5, s6, s7, s8, s9>>

\* Each materia has one owner (Materias), expressions have their value (Calculator), amounts
\* the rate of their day (Exchange), the latest contacts are found (PhoneBook), what is executed was
\* signed (Forms), the nearest and the farthest are found (Spans), and sums are exact (FixedPoint).
ObjectsKeepTheirWord ==
  /\ program = "materias" => Mat!MateriasAreOwned
  /\ program = "RPN" => Rpn!Calculates
  /\ program = "btc" => Bit!AmountsAreConverted
  /\ program = "phonebook" => Book!LatestAreFound
  /\ program = "forms" => Pap!ExecutedWasSigned
  /\ program = "span" => Spa!SpansAreRight
  /\ program = "fixed" => Fix!RightlyRounded

-----------------------------------------------------------------------------
AllInit ==
  \/ CubInit
  \/ /\ NoScene
     /\ \/ EnvInit \/ PxInit \/ GnlInit \/ GameInit \/ PushInit \/ LineInit \/ MergeInit \/ LibInit \/ PrInit
        \/ ArgsInit \/ MatInit \/ RpnInit \/ BitInit \/ BookInit \/ PapInit \/ SpaInit \/ FixInit
AllNext ==
  /\ \/ CubNext
     \/ /\ \/ EnvNext \/ PxNext \/ GnlNext \/ GameNext \/ PushNext \/ LineNext \/ MergeNext \/ LibNext \/ PrNext
           \/ ArgsNext \/ MatNext \/ RpnNext \/ BitNext \/ BookNext \/ PapNext \/ SpaNext \/ FixNext
        /\ UNCHANGED vars
  /\ UNCHANGED program
AllSpec == AllInit /\ [][AllNext]_<<program, vars, Own>> /\ WF_Own(PxNext /\ UNCHANGED <<program, vars>>)
=============================================================================
