-------------------------------- MODULE Tokens --------------------------------
(***************************************************************************)
(* ServerRequestParserHelpers: how webserv cuts a text into tokens.  A     *)
(* text is a sequence of characters; a word with no character the code     *)
(* looks for stands as one.  Positions count from 1, so that the position  *)
(* behind the text is Len + 1, and 0 is std::string::npos.                 *)
(***************************************************************************)
EXTENDS Integers, Sequences, FiniteSetsExt, SequencesExt, TLC

Chars(s)      == {s[i] : i \in DOMAIN s}
From(s, i)    == SubSeq(s, i, Len(s))
LeastOf(S)    == IF S = {} THEN 0 ELSE Min(S)

\* std::string::find(), find_first_of(), find_first_not_of().
Find(s, d, i)   == LeastOf({j \in i .. Len(s) - Len(d) + 1 : SubSeq(s, j, j + Len(d) - 1) = d})
FindOf(s, S, i) == LeastOf({j \in i .. Len(s) : s[j] \in S})
NotOf(s, S, i)  == LeastOf({j \in i .. Len(s) : s[j] \notin S})

\* The token of s from start to end, and where to go on.  What is skipped are all the
\* characters of the delimiter, one by one, unless nothing else follows.
Token(s, start, end, delims, skip) ==
  IF end = 0 THEN [text |-> From(s, start), next |-> Len(s) + 1]
  ELSE [text |-> SubSeq(s, start, end - 1),
        next |-> IF skip /\ NotOf(s, delims, end) # 0 THEN NotOf(s, delims, end) ELSE end]

\* Ends at any of the delimiters.
get_token_with_delims(s, start, delims, skip) == Token(s, start, FindOf(s, delims, start), delims, skip)

\* Ends where the whole delimiter is found.
get_token_with_delim(s, start, delim, skip) == Token(s, start, Find(s, delim, start), Chars(delim), skip)

Blank == {" ", "\t"}

skip_ws(s, i) == IF NotOf(s, Blank, i) = 0 THEN Len(s) + 1 ELSE NotOf(s, Blank, i)

IsFold(s, i) == i + 2 =< Len(s) /\ s[i] = "\r" /\ s[i + 1] = "\n" /\ s[i + 2] \in Blank

\* unfold_string(): a line that begins with a blank goes on with the one before it.
unfold_string(s) ==
  FlattenSeq([i \in DOMAIN s |-> IF IsFold(s, i) THEN <<" ">>
                                 ELSE IF \E b \in 1 .. 2 : i > b /\ IsFold(s, i - b) THEN <<>> ELSE <<s[i]>>])

\* extract_mime(): what is behind the last dot, with the dot.
extract_mime(s) == LET dots == {i \in DOMAIN s : s[i] = "."} IN IF dots = {} THEN <<>> ELSE From(s, Max(dots))

-----------------------------------------------------------------------------
(* Percent encoding.                                                            *)

HexDigits == "0" :> 0 @@ "2" :> 2 @@ "3" :> 3 @@ "4" :> 4 @@ "9" :> 9 @@ "A" :> 10 @@ "C" :> 12 @@ "E" :> 14 @@ "F" :> 15

\* is_pos_hex(): of the two digits only the second one is looked at.
is_pos_hex(s, i) == i + 2 =< Len(s) /\ s[i] = "%" /\ s[i + 2] \in DOMAIN HexDigits

\* char_to_hex(): npos, which is -1, for what is no digit.
char_to_hex(c) == IF c \in DOMAIN HexDigits THEN HexDigits[c] ELSE -1

Octet(s, i) == (char_to_hex(s[i + 1]) * 16 + char_to_hex(s[i + 2])) % 256

\* Characters that have a meaning keep it when they were encoded.
Character(octet) == IF octet = 47 THEN "/" ELSE IF octet = 46 THEN "." ELSE ToString(octet)

Continuations(octet) ==
  CASE octet \in 194 .. 223 -> 1 [] octet \in 224 .. 239 -> 2 [] octet \in 240 .. 244 -> 3 [] OTHER -> 0

\* utf8_char_decoder(): the octets of one character, each of them encoded.
utf8_char_decoder(s, i) ==
  LET n  == Continuations(Octet(s, i))
      ok == \A k \in 1 .. n : is_pos_hex(s, i + 3 * k)
  IN  [ok       |-> ok,
       consumed |-> 3 * (n + 1),
       decoded  |-> IF ok THEN [k \in 1 .. n + 1 |-> Character(Octet(s, i + 3 * (k - 1)))] ELSE <<>>]

-----------------------------------------------------------------------------
(* parse_quoted_string(): from the quote at i on.  A status over 599 counts as  *)
(* no error, so that a text which is cut short is an empty one.                 *)

Unquoted(s, i) ==
  LET go[j \in Nat, out \in Seq(STRING)] ==
        IF j > Len(s) THEN <<>>
        ELSE IF s[j] = "\"" THEN out
        ELSE IF s[j] = "\\" /\ j < Len(s) THEN go[j + 2, Append(out, s[j + 1])]
        ELSE IF j + 2 =< Len(s) /\ s[j] \in Blank
        THEN IF NotOf(s, Blank, j + 3) = 0 THEN <<>> ELSE go[NotOf(s, Blank, j + 3), Append(out, " ")]
        ELSE go[j + 1, Append(out, s[j])]
  IN  go[i + 1, <<>>]
===============================================================================
