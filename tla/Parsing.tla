------------------------------ MODULE Parsing -------------------------------
(***************************************************************************)
(* How 42_minishell reads a line, minishell_loop(): variables are put in,  *)
(* redirections are set apart by blanks, and the line is cut into commands *)
(* of words and redirections.  A text is a sequence of characters, since   *)
(* the code decides by neighbours; letters stand for all letters.          *)
(***************************************************************************)
EXTENDS Integers, Sequences, FiniteSets, SequencesExt

CONSTANTS
  Lines,       \* lines that may be typed
  Letters,     \* characters of names
  Envp,         \* the text of each variable that is set
  Status,      \* the text of exit_status
  Nothing      \* no quote is open

VARIABLES
  pc,
  line,        \* as typed
  message,     \* what has been made of it
  overrun,     \* a position has been looked at behind the end of the text
  list         \* the commands: args, redirections, word_count

vars == <<pc, line, message, overrun, list>>

Quotes     == {"'", "\""}
Symbols    == {"<", ">"}
Whitespace == {" ", "\t"}
Operators  == {<<">">>, <<"<">>, <<">", ">">>, <<"<", "<">>}

-----------------------------------------------------------------------------
(* expand_message()                                                             *)

\* single_quote(): a '$' behind an odd number of single quotes.
single_quote(s) ==
  \E i \in DOMAIN s : s[i] = "$" /\ Cardinality({j \in 1 .. i - 1 : s[j] = "'"}) % 2 = 1

\* extract_var_name(): where the name that begins at i ends.
NameEnd(s, i) == CHOOSE e \in i .. Len(s) + 1 :
  /\ \A j \in i .. e - 1 : s[j] \in Letters
  /\ e =< Len(s) => s[e] \notin Letters

\* replace_variable(): the '$' stays, and so does the position, whatever the length of
\* the value; replace_with_exit_status() takes the '$' away too.
Replaced(s, i, e) ==
  LET name == SubSeq(s, i + 1, e - 1)
  IN  IF name \in DOMAIN Envp THEN SubSeq(s, 1, i) \o Envp[name] \o SubSeq(s, e, Len(s)) ELSE s
WithStatus_keep(s, i) == SubSeq(s, 1, i - 1) \o Status \o SubSeq(s, i + 1, Len(s))     \* mutant: the '?' stays
WithStatus(s, i) == SubSeq(s, 1, i - 1) \o Status \o SubSeq(s, i + 2, Len(s))

\* check_dollar_sign() from position i on.
check_dollar_sign[s \in Seq(STRING), i \in Nat] ==
  IF i > Len(s) THEN [text |-> s, overrun |-> i > Len(s) + 1]
  ELSE IF s[i] # "$" THEN check_dollar_sign[s, i + 1]
  ELSE IF i < Len(s) /\ s[i + 1] = "?" THEN check_dollar_sign[WithStatus(s, i), i + 1]
  ELSE check_dollar_sign[Replaced(s, i, NameEnd(s, i + 1)), NameEnd(s, i + 1)]

\* remove_dollar(): one that is the last character, or before a blank or a quote, stays.
StaysDollar(s, i) == i = Len(s) \/ s[i + 1] \in {" ", "\""}
remove_dollar(s) ==
  FlattenSeq([i \in DOMAIN s |-> IF s[i] = "$" /\ ~StaysDollar(s, i) THEN <<>> ELSE <<s[i]>>])

Expand ==
  /\ pc = "expand"
  /\ IF single_quote(message) THEN UNCHANGED <<message, overrun>>
     ELSE LET expanded == check_dollar_sign[message, 1]
          IN  message' = remove_dollar(expanded.text) /\ overrun' = expanded.overrun
  /\ pc' = "space"
  /\ UNCHANGED <<line, list>>

-----------------------------------------------------------------------------
(* redirection_with_no_space(): either kind of quote opens and closes.          *)

InQuotes(s, i) == Cardinality({j \in 1 .. i : s[j] \in Quotes}) % 2 = 1

Apart(s, i)   == i \in DOMAIN s /\ s[i] \notin Symbols \cup {" "}
insert_space(s, i) ==
  (IF Apart(s, i - 1) THEN <<" ">> ELSE <<>>) \o <<s[i]>> \o (IF Apart(s, i + 1) THEN <<" ">> ELSE <<>>)

redirection_with_no_space(s) ==
  FlattenSeq([i \in DOMAIN s |-> IF s[i] \in Symbols /\ ~InQuotes(s, i) THEN insert_space(s, i) ELSE <<s[i]>>])

Space ==
  /\ pc = "space"
  /\ message' = redirection_with_no_space(message)
  /\ pc' = "cut"
  /\ UNCHANGED <<line, overrun, list>>

-----------------------------------------------------------------------------
(* create_linked_list()                                                         *)

\* string_with_quotes(): the quote that is open in front of each character.
Open(s) ==
  FoldLeft(LAMBDA o, c : Append(o, CASE c \notin Quotes -> Last(o) [] c = Last(o) -> Nothing
                                     [] Last(o) = Nothing -> c     [] OTHER -> Last(o)),
           <<Nothing>>, s)

\* ft_strtok(): the pieces between delimiters that are not quoted, none of them empty.
ft_strtok(s, delim) ==
  LET open    == Open(s)
      Cut(i)  == i \notin DOMAIN s \/ (s[i] \in delim /\ open[i] = Nothing)
      From    == {i \in DOMAIN s : ~Cut(i) /\ Cut(i - 1)}
      To(i)   == CHOOSE e \in i .. Len(s) : Cut(e + 1) /\ \A j \in i .. e : ~Cut(j)
      starts  == SetToSortSeq(From, <)
  IN  [k \in DOMAIN starts |-> SubSeq(s, starts[k], To(starts[k]))]

\* strip_quotes(): of a word that begins with a quote that one and the last, if it is the
\* same; of another word all.
strip_quotes(w) ==
  IF w[1] \notin Quotes THEN SelectSeq(w, LAMBDA c : c \notin Quotes)
  ELSE IF Len(w) > 1 /\ Last(w) = w[1] THEN SubSeq(w, 2, Len(w) - 1) ELSE Tail(w)

Words(s) == LET cut == ft_strtok(s, Whitespace) IN [k \in DOMAIN cut |-> strip_quotes(cut[k])]

\* init_multi_command(): words that are no operator and do not follow one.
init_multi_command(words) ==
  FoldLeft(LAMBDA r, w : IF w \in Operators THEN [r EXCEPT !.redirection = TRUE]
                         ELSE IF r.redirection THEN [r EXCEPT !.redirection = FALSE]
                         ELSE [r EXCEPT !.args = Append(@, w)],
           [redirection |-> FALSE, args |-> <<>>], words).args

\* create_redirection_list() goes over the words once more.
create_redirection_list(words) ==
  FoldLeft(LAMBDA r, w : IF w \in Operators THEN [r EXCEPT !.type = w]
                         ELSE IF r.type # <<>> THEN [list |-> Append(r.list, <<r.type, w>>), type |-> <<>>] ELSE r,
           [list |-> <<>>, type |-> <<>>], words).list

\* count_word() takes blanks for ends of words, not tabs, and does not mind quotes.
count_word(s) == Cardinality({i \in DOMAIN s : s[i] # " " /\ (i = 1 \/ s[i - 1] = " ")})

create_token(s) ==
  [args |-> init_multi_command(Words(s)), redirections |-> create_redirection_list(Words(s)), word_count |-> count_word(s)]

Cut ==
  /\ pc = "cut"
  /\ LET segments == ft_strtok(message, {"|"})
     IN  list' = [k \in DOMAIN segments |-> create_token(segments[k])]
  /\ pc' = "run"
  /\ UNCHANGED <<line, message, overrun>>

-----------------------------------------------------------------------------
Init == pc = "expand" /\ line \in Lines /\ message = line /\ overrun = FALSE /\ list = <<>>

Next == Expand \/ Space \/ Cut

Spec == Init /\ [][Next]_vars

-----------------------------------------------------------------------------
(* Properties.  What a shell makes of a line, where this one follows it.        *)

\* Each variable is set and its value is no shorter than its name; nothing is in single
\* quotes, and a '$' without a name is at the end of a word.
Dollars(s) == {i \in DOMAIN s : s[i] = "$"}
NameAt(s, i) == SubSeq(s, i + 1, NameEnd(s, i + 1) - 1)
Plain(s) ==
  \A i \in Dollars(s) :
    /\ "'" \notin {s[j] : j \in DOMAIN s}
    /\ \/ StaysDollar(s, i)
       \/ s[i + 1] = "?"
       \/ NameAt(s, i) \in DOMAIN Envp /\ Len(Envp[NameAt(s, i)]) >= Len(NameAt(s, i))

\* Each '$' is followed by what stands for its name, and what is not named stays.
InName(s, i) == \E d \in Dollars(s) : i \in d + 1 .. NameEnd(s, d + 1) - 1
AsStatus(s, d) == d < Len(s) /\ s[d + 1] = "?"
ShellExpanded(s) ==
  FlattenSeq([i \in DOMAIN s |->
    IF s[i] = "$" THEN IF AsStatus(s, i) THEN Status ELSE IF StaysDollar(s, i) THEN <<"$">> ELSE Envp[NameAt(s, i)]
    ELSE IF InName(s, i) \/ (s[i] = "?" /\ i > 1 /\ s[i - 1] = "$") THEN <<>> ELSE <<s[i]>>])

\* A fold over the characters: the words of the command being read, the word being read
\* (or Nothing), the open quote.
Close(r) == IF r.word = Nothing THEN r ELSE [r EXCEPT !.words = Append(@, r.word), !.word = Nothing]
Add(r, c) == [r EXCEPT !.word = IF @ = Nothing THEN <<c>> ELSE Append(@, c)]
Begun(r) == [r EXCEPT !.word = IF @ = Nothing THEN <<>> ELSE @]
IsOperator(w) == w # Nothing /\ w # <<>> /\ \A i \in DOMAIN w : w[i] \in Symbols
Read(r, c) ==
  IF r.quote # Nothing THEN IF c = r.quote THEN [r EXCEPT !.quote = Nothing] ELSE Add(r, c)
  ELSE CASE c \in Quotes     -> [Begun(IF IsOperator(r.word) THEN Close(r) ELSE r) EXCEPT !.quote = c]
         [] c \in Whitespace -> Close(r)
         [] c \in Symbols    -> Add(IF IsOperator(r.word) THEN r ELSE Close(r), c)
         [] c = "|"          -> [Close(r) EXCEPT !.done = Append(@, Close(r).words), !.words = <<>>]
         [] OTHER            -> Add(IF IsOperator(r.word) THEN Close(r) ELSE r, c)
ShellWords(s) ==
  LET r == Close(FoldLeft(Read, [done |-> <<>>, words |-> <<>>, word |-> Nothing, quote |-> Nothing], s))
  IN  SelectSeq(Append(r.done, r.words), LAMBDA w : w # <<>>)

\* Quotes are closed and hold neither quotes nor redirections; a word that begins with a
\* quote ends with it.
Tidy(s) ==
  LET open == Open(s)
  IN  /\ Last(open) = Nothing
      /\ \A i \in DOMAIN s : open[i] # Nothing => s[i] = open[i] \/ s[i] \notin Quotes \cup Symbols
      /\ \A i \in DOMAIN s :
           s[i] \in Quotes /\ open[i] # Nothing
             => \/ i = Len(s) \/ s[i + 1] \in Whitespace \cup Symbols \cup {"|"}
                \/ \E j \in 1 .. i : /\ \A k \in j .. i : open[k] # Nothing \/ s[k] \notin Whitespace \cup Symbols \cup {"|"}
                                     /\ s[j] \notin Quotes /\ open[j] = Nothing

\* The words of a command as its arguments and its redirections hold them.
Roles(words) ==
  [args |-> SelectSeq([k \in DOMAIN words |-> IF words[k] \in Operators \/ (k > 1 /\ words[k - 1] \in Operators)
                                              THEN Nothing ELSE words[k]], LAMBDA w : w # Nothing),
   redirections |-> SelectSeq([k \in DOMAIN words |-> IF k > 1 /\ words[k] \notin Operators /\ words[k - 1] \in Operators
                                                      THEN <<words[k - 1], words[k]>> ELSE Nothing], LAMBDA w : w # Nothing)]

\* A line is read as a shell reads it, for the lines that this one means to read: its
\* variables and the exit status are put in, its commands are cut at the bars that are
\* not quoted, and of the words of each, with their quotes off, every one is an argument,
\* an operator or the file of the operator before it.  And on every line without tabs the
\* arguments fit into the array that was made for them, the spaced line into twice its length.
LineIsUnderstood ==
  /\ pc = "space" /\ Plain(line) => message = ShellExpanded(line) /\ ~overrun
  /\ pc = "run" /\ Dollars(line) = {} =>
       /\ Len(message) =< 2 * Len(line)
       /\ "\t" \notin {line[j] : j \in DOMAIN line} => \A k \in DOMAIN list : Len(list[k].args) =< list[k].word_count
       /\ Tidy(line) =>
            LET shell == ShellWords(line)
                mine  == SelectSeq(list, LAMBDA c : c.args # <<>> \/ c.redirections # <<>>)
                theirs == SelectSeq([k \in DOMAIN shell |-> Roles(shell[k])], LAMBDA c : c.args # <<>> \/ c.redirections # <<>>)
            IN  /\ Len(mine) = Len(theirs)
                /\ \A k \in DOMAIN mine : mine[k].args = theirs[k].args /\ mine[k].redirections = theirs[k].redirections
=============================================================================
