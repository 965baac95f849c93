------------------------------ MODULE Exchange ------------------------------
(***************************************************************************)
(* BitcoinExchange of CPP09/ex00: the amounts of a file are multiplied by  *)
(* the rate of their day, or of the last day before it that has one.  A    *)
(* step is one line of the file.                                           *)
(*                                                                         *)
(* Days are texts and are in the order of texts.  An amount is the number  *)
(* that strtod() finds, which is 0 where there is none.                    *)
(***************************************************************************)
EXTENDS Integers, Sequences, SequencesExt

CONSTANTS
  Order,              \* characters as numbers: "-" is before the digits
  Digits,             \* the ten digits, from "0"
  Database,           \* [days -> rates]
  FIRST, LAST,        \* the years that are accepted
  MONTHS, DAYS,       \* months of a year, days of any month
  MOST,               \* the largest amount
  WIDTH,              \* digits of a year
  Inputs              \* sequences of lines [bar, date, amount], bar says whether there is a '|'

VARIABLES
  file, next,         \* the lines, and the one that is read next
  answers             \* what was written, in the order of the lines

vars == <<file, next, answers>>

Before(s, t) ==
  \/ Len(s) < Len(t) /\ IsPrefix(s, t)
  \/ \E k \in DOMAIN s \cap DOMAIN t :
       SubSeq(s, 1, k - 1) = SubSeq(t, 1, k - 1) /\ Order[s[k]] < Order[t[k]]

\* lower_bound(): the first day of the database that is not before the date.
NotBefore(date) == {d \in DOMAIN Database : ~Before(d, date)}
Lower(S)  == CHOOSE d \in S : \A e \in S : ~Before(e, d)
Higher(S) == CHOOSE d \in S : \A e \in S : ~Before(d, e)

Closest_next(date) == Lower(NotBefore(date))           \* mutant: the step back is missing
Closest(date) ==
  LET earlier == {d \in DOMAIN Database : Before(d, date)}
  IN IF date \in DOMAIN Database THEN date
     ELSE IF earlier = {} THEN Lower(NotBefore(date)) ELSE Higher(earlier)

\* atoi() of a text, from its first character on.
Digit(c)   == SelectInSeq(Digits, LAMBDA d : d = c) - 1
FirstOther(s) == SelectInSeq(s, LAMBDA c : ~Contains(Digits, c))
Numeral(s) == IF FirstOther(s) = 0 THEN s ELSE SubSeq(s, 1, FirstOther(s) - 1)
Atoi(s)    == FoldLeft(LAMBDA n, c : n * 10 + Digit(c), 0, Numeral(s))

\* The three numbers; a date without a second '-' has what is behind the first as its month,
\* and all of it as its day.
Dash(s, from) == SelectInSubSeq(s, from, Len(s), LAMBDA c : c = "-")
Year(date)  == Atoi(date)
Month(date) == Atoi(SubSeq(date, Dash(date, 1) + 1, Len(date)))
Day(date)   == Atoi(SubSeq(date, Dash(date, Dash(date, 1) + 1) + 1, Len(date)))

IsDate(date) ==
  /\ Dash(date, 1) # 0 /\ Year(date) \in FIRST .. LAST
  /\ Month(date) \in 1 .. MONTHS /\ Day(date) \in 1 .. DAYS

-----------------------------------------------------------------------------
Line  == file[next]
Known == Line.date \in DOMAIN Database
Reading(bar) == next =< Len(file) /\ Line.bar = bar
Answer(what) == answers' = Append(answers, what) /\ next' = next + 1 /\ UNCHANGED file
Refused == [refused |-> TRUE, value |-> 0]

BadLine == Reading(FALSE) /\ Answer(Refused)
BadDate == Reading(TRUE) /\ ~Known /\ ~IsDate(Line.date) /\ Answer(Refused)

\* Behind the last day nothing is known, of this line and of those that follow.
TooLate ==
  /\ Reading(TRUE) /\ ~Known /\ IsDate(Line.date) /\ NotBefore(Line.date) = {}
  /\ next' = Len(file) + 1
  /\ UNCHANGED <<file, answers>>

Rated == Known \/ (IsDate(Line.date) /\ NotBefore(Line.date) # {})
BadAmount == Reading(TRUE) /\ Rated /\ Line.amount \notin 0 .. MOST /\ Answer(Refused)
Convert ==
  /\ Reading(TRUE) /\ Rated /\ Line.amount \in 0 .. MOST
  /\ Answer([refused |-> FALSE, value |-> Line.amount * Database[Closest(Line.date)]])

Init == file \in Inputs /\ next = 1 /\ answers = <<>>

Next == BadLine \/ BadDate \/ TooLate \/ BadAmount \/ Convert

Spec == Init /\ [][Next]_vars

-----------------------------------------------------------------------------
\* A date as it should be written, and as one number: year, month, day.
Written(date) ==
  /\ Len(date) = WIDTH + 6 /\ date[WIDTH + 1] = "-" /\ date[WIDTH + 4] = "-"
  /\ \A k \in DOMAIN date \ {WIDTH + 1, WIDTH + 4} : Contains(Digits, date[k])
AsNumber(date) == FoldLeft(LAMBDA n, c : n * 10 + Digit(c), 0, SelectSeq(date, LAMBDA c : c # "-"))
Exists(date) ==
  LET n == AsNumber(date)
  IN n \div 10000 \in FIRST .. LAST /\ (n \div 100) % 100 \in 1 .. MONTHS /\ n % 100 \in 1 .. DAYS

Newest == CHOOSE d \in DOMAIN Database : \A e \in DOMAIN Database : AsNumber(e) =< AsNumber(d)
Oldest == CHOOSE d \in DOMAIN Database : \A e \in DOMAIN Database : AsNumber(d) =< AsNumber(e)
DayFor(date) ==
  CHOOSE d \in DOMAIN Database :
    IF AsNumber(date) < AsNumber(Oldest) THEN d = Oldest
    ELSE AsNumber(d) =< AsNumber(date) /\ \A e \in DOMAIN Database : AsNumber(e) \notin AsNumber(d) + 1 .. AsNumber(date)

\* A line with a date that is written as the days of the database are is answered with its
\* amount at the rate of the last day that is not behind the date, or of the first day,
\* and refused if there is no such date or the amount is too large or negative.  Lines go without
\* an answer only if they follow one whose date is behind all days, or are that line
\* (ChangeDB()).
AmountsAreConverted ==
  /\ \A k \in DOMAIN answers :
       LET line == file[k]
       IN /\ ~line.bar => answers[k].refused
          /\ line.bar /\ Written(line.date) =>
               /\ answers[k].refused <=> ~Exists(line.date) \/ line.amount \notin 0 .. MOST
               /\ ~answers[k].refused => answers[k].value = line.amount * Database[DayFor(line.date)]
  /\ next > Len(file) /\ Len(answers) < Len(file) =>
       LET line == file[Len(answers) + 1]
       IN line.bar /\ (Written(line.date) => AsNumber(line.date) > AsNumber(Newest))
=============================================================================
