------------------------------- MODULE Printf -------------------------------
(***************************************************************************)
(* ft_printf() of 42_printf: a format is walked over, and each of its      *)
(* conversions takes one argument.  A step is one turn of the loop.        *)
(*                                                                         *)
(* Numbers become text in a buffer of the parser, which nobody sets before *)
(* its first use and which is emptied after each text, up to its first     *)
(* NUL.  An argument is a character, a text, or a number; that of %d says  *)
(* with the number whether there is memory for its text.                   *)
(***************************************************************************)
EXTENDS Integers, Sequences, SequencesExt

CONSTANTS
  NUL, NULL,          \* the end of a text, and no pointer
  JUNK,               \* what is in memory that nobody has set
  Lower, Upper,       \* the sixteen digits, from "0"
  ROOM,               \* characters of the buffer
  WORD, LONG,         \* how many unsigned int and unsigned long long there are
  Formats             \* formats by their names: [str, args, meant], meant is NULL if it means nothing

VARIABLES
  call,               \* the name of the format
  at,                 \* the character of the format that is looked at
  used,               \* arguments that have been taken
  len, out,           \* the count that will be returned, and what was printed
  buffer,
  unset,              \* nothing in the buffer was NUL at the start
  wild                \* memory beyond the format or the buffer was used

vars == <<call, at, used, len, out, buffer, unset, wild>>

Ends(m)   == SelectInSeq(m, LAMBDA c : c = NUL)
Here(i)   == IF i =< Len(Formats[call].str) THEN Formats[call].str[i] ELSE NUL
Argument  == Formats[call].args[used + 1]

-----------------------------------------------------------------------------
\* ft_buffer_zero(): up to the first NUL, wherever that is.
Zeroed(m) == IF Ends(m) = 0 THEN [k \in DOMAIN m |-> NUL] ELSE [k \in DOMAIN m |-> IF k < Ends(m) THEN NUL ELSE m[k]]
Overrun(m) == m[1] # NUL /\ Ends(m) = 0

\* ft_printstr()
Output(text) == out' = out \o text /\ len' = len + Len(text)
PrintStr(text) ==
  /\ Output(IF text = NULL THEN <<"(", "n", "u", "l", "l", ")">> ELSE text)
  /\ buffer' = Zeroed(buffer)
  /\ wild' = (wild \/ Overrun(buffer))

\* ft_itoa_base(), ft_multidigit()
ft_multidigit_while(base, number) ==                   \* mutant: zero has no digit
  LET count[n \in Nat] == IF n = 0 THEN 0 ELSE 1 + count[n \div base] IN count[number]
ft_multidigit(base, number) ==
  LET count[n \in Nat] == IF n = 0 THEN 0 ELSE 1 + count[n \div base]
  IN IF number = 0 THEN 1 ELSE count[number]

Numeral(base, number, digits) ==
  LET multidigit == ft_multidigit(base, number)
  IN [k \in 1 .. multidigit |-> digits[((number \div base ^ (multidigit - k)) % base) + 1]]

ft_itoa_base(base, number, digits, m) ==
  LET text == Numeral(base, number, digits) IN text \o <<NUL>> \o SubSeq(m, Len(text) + 2, Len(m))

\* ft_itoa(), which allocates.
ft_itoa(d) == IF ~d.memory THEN NULL ELSE IF d.n < 0 THEN <<"-">> \o Numeral(10, -d.n, Lower) ELSE Numeral(10, d.n, Lower)

\* ft_conversion_handler(): what is in the buffer is printed, and the buffer emptied.
PrintNumber(prefix, base, number, digits, m, before) ==
  LET full == ft_itoa_base(base, number, digits, m)
  IN /\ Output(prefix \o SubSeq(full, 1, Ends(full) - 1))
     /\ buffer' = Zeroed(full)
     /\ wild' = (wild \/ before \/ Len(full) > ROOM)

-----------------------------------------------------------------------------
Turn(flags, takes) ==
  /\ ~wild /\ Here(at) = "%" /\ Here(at + 1) \in flags
  /\ at' = at + 2 /\ used' = used + takes
  /\ UNCHANGED <<call, unset>>

Ordinary ==
  /\ ~wild /\ Here(at) \notin {"%", NUL}
  /\ Output(<<Here(at)>>)
  /\ at' = at + 1
  /\ UNCHANGED <<call, used, buffer, unset, wild>>

Percent   == Turn({"%"}, 0) /\ Output(<<"%">>) /\ UNCHANGED <<buffer, wild>>
Character == Turn({"c"}, 1) /\ Output(<<Argument>>) /\ UNCHANGED <<buffer, wild>>
String    == Turn({"s"}, 1) /\ PrintStr(Argument)
Signed    == Turn({"d", "i"}, 1) /\ PrintStr(ft_itoa(Argument))
Unsigned  == Turn({"u"}, 1) /\ PrintNumber(<<>>, 10, Argument % WORD, Lower, buffer, FALSE)
Small     == Turn({"x"}, 1) /\ PrintNumber(<<>>, 16, Argument % WORD, Lower, buffer, FALSE)
Capital   == Turn({"X"}, 1) /\ PrintNumber(<<>>, 16, Argument % WORD, Upper, buffer, FALSE)

\* "0x" is a text of its own, behind which the buffer is emptied.
Pointer == Turn({"p"}, 1) /\ PrintNumber(<<"0", "x">>, 16, Argument % LONG, Lower, Zeroed(buffer), Overrun(buffer))

\* A letter that means nothing prints nothing; the end of the format is one, and is stepped
\* over like the others.
Flags   == {"%", "c", "s", "d", "i", "u", "x", "X", "p", NUL}
Unknown == Turn({Here(at + 1)} \ Flags, 0) /\ UNCHANGED <<len, out, buffer, wild>>
PastEnd == Turn({NUL}, 0) /\ wild' = TRUE /\ UNCHANGED <<len, out, buffer>>

Init ==
  /\ call \in DOMAIN Formats
  /\ at = 1 /\ used = 0 /\ len = 0 /\ out = <<>> /\ wild = FALSE
  /\ \E n \in 0 .. ROOM : buffer = [k \in 1 .. ROOM |-> IF k =< n THEN JUNK ELSE NUL] /\ unset = (n = ROOM)

Next == Ordinary \/ Percent \/ Character \/ String \/ Signed \/ Unsigned \/ Small \/ Capital \/ Pointer \/ Unknown \/ PastEnd

Spec == Init /\ [][Next]_vars

-----------------------------------------------------------------------------
\* What is printed is what the format means with its arguments, and the count returned is
\* the count of it, whatever was in the buffer before: the digits of one number are not
\* found in the next, and every number fits.  A format that ends with a single '%' and a
\* buffer in which nobody ever put a NUL are the only ways beyond (ft_printf(),
\* ft_buffer_zero()).
PrintsAsMeant ==
  /\ len = Len(out)
  /\ ~wild /\ Here(at) = NUL => out = Formats[call].meant
  /\ wild => unset \/ Formats[call].meant = NULL
===============================================================================
