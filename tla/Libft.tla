------------------------------- MODULE Libft -------------------------------
(***************************************************************************)
(* 42_libft: the functions that walk over memory, cut text, turn numbers   *)
(* into text and back, and copy lists.  A step is one call.                *)
(*                                                                         *)
(* Memory is a sequence of characters, in which a text ends at NUL.  What  *)
(* counts from 0 in the code counts from 0 here.  A text that is allocated *)
(* is given with the room that was made for it.                            *)
(***************************************************************************)
EXTENDS Integers, Sequences, SequencesExt, FiniteSets

CONSTANTS
  NUL,                \* the character that ends a text
  NULL,               \* no pointer
  Order,              \* characters as numbers
  Digits,             \* the ten digits, from "0"
  Blanks,             \* white space
  INT_MAX, LowestText,
  Calls               \* the calls that are made: a function and its arguments

VARIABLES
  call,               \* the call
  result              \* <<what it gave>>, or << >> before

vars == <<call, result>>

Least(a, b)       == IF a < b THEN a ELSE b
Upto(n)           == [k \in 1 .. n |-> k - 1]
C(s)              == Append(s, NUL)
At(s, i)          == C(s)[i + 1]
From(s, i)        == SubSeq(s, i + 1, Len(s))
First(s, Test(_)) == IF SelectInSeq(s, Test) = 0 THEN Len(s) ELSE SelectInSeq(s, Test) - 1
Over(m, n, s)     == [k \in DOMAIN m |-> IF k =< n THEN s[k] ELSE m[k]]
Text(m)           == SubSeq(m, 1, First(m, LAMBDA c : c = NUL))

-----------------------------------------------------------------------------
(* Memory, and text in memory that is there already.                            *)

\* Byte by byte, from the end when the target is behind the source.
ft_memmove_forward(m, dst, src, len) ==                \* mutant: always from the beginning
  FoldLeft(LAMBDA n, k : [n EXCEPT ![dst + k + 1] = n[src + k + 1]], m, Upto(len))
ft_memmove(m, dst, src, len) ==
  FoldLeft(LAMBDA n, k : [n EXCEPT ![dst + k + 1] = n[src + k + 1]], m, IF dst > src THEN Reverse(Upto(len)) ELSE Upto(len))

\* The difference of the first two that differ, before both end.
ft_strncmp(s, t, until) ==
  LET compare[i \in Nat] ==
        IF i = until \/ (At(s, i) = NUL /\ At(t, i) = NUL) THEN 0
        ELSE IF At(s, i) # At(t, i) THEN Order[At(s, i)] - Order[At(t, i)]
        ELSE compare[i + 1]
  IN compare[0]

\* As many as there is room for, and then the last of them makes room for the end.
ft_strlcpy(dst, src, dstsize) ==
  LET i == Least(dstsize, Len(src))
  IN [value |-> Len(src),
      memory |-> IF dstsize = 0 THEN dst
                 ELSE [Over(dst, i, src) EXCEPT ![IF dstsize =< Len(src) THEN dstsize ELSE i + 1] = NUL]]

ft_strlcat(dst, src, dstsize) ==
  LET dest_length == Len(Text(dst))
      j    == Least(dstsize - dest_length, Len(src))
      last == IF dest_length + j = dstsize /\ j > 0 THEN dest_length + j ELSE dest_length + j + 1
  IN IF dstsize < dest_length THEN [value |-> dstsize + Len(src), memory |-> dst]
     ELSE [value |-> dest_length + Len(src),
           memory |-> [SubSeq(dst, 1, dest_length) \o Over(From(dst, dest_length), j, src) EXCEPT ![last] = NUL]]

\* The first place of small within the first len of big.
ft_strnstr(big, small, len) ==
  LET search[i \in Nat] ==
        IF i = Len(big) \/ Len(small) > len - i THEN NULL
        ELSE IF ft_strncmp(From(big, i), small, Len(small)) = 0 THEN <<i>>
        ELSE search[i + 1]
  IN IF small = <<>> THEN <<0>> ELSE search[0]

-----------------------------------------------------------------------------
(* Text that is allocated.                                                      *)

ft_substr_end(s, start, len) ==                        \* mutant: no room for the end
  LET rest == Len(s) - start
  IN [room |-> IF len = 0 \/ start >= Len(s) THEN 1 ELSE IF len > rest THEN rest ELSE len + 1,
      text |-> SubSeq(s, start + 1, Least(start + len, Len(s)))]
ft_substr(s, start, len) ==
  LET rest == Len(s) - start
  IN [room |-> IF len = 0 \/ start >= Len(s) THEN 1 ELSE IF len > rest THEN rest + 1 ELSE len + 1,
      text |-> SubSeq(s, start + 1, Least(start + len, Len(s)))]

\* The end of the text is found in every set.
ft_strchr(set, c) == Contains(C(set), c)

ft_strtrim(s, set) ==
  LET start == First(C(s), LAMBDA c : ~ft_strchr(set, c))
      end   == Len(s) - First(Reverse(s), LAMBDA c : ~ft_strchr(set, c))
      room  == end - start + 1
  IN IF start > Len(s) THEN [room |-> 1, text |-> <<>>]
     ELSE [room |-> room, text |-> Text(ft_strlcpy([k \in 1 .. room |-> NULL], From(s, start), room).memory)]

\* One walk counts the words, another cuts them.  The memory of a word may not be had:
\* the words before it are freed.
word_counter(s, delimiter) ==
  FoldLeft(LAMBDA w, c : [words |-> w.words + IF c # delimiter /\ ~w.in_word THEN 1 ELSE 0, in_word |-> c # delimiter],
           [words |-> 0, in_word |-> FALSE], s).words

word_length(s, delimiter) == First(s, LAMBDA c : c = delimiter)

ft_split(s, delimiter, fails) ==
  LET cut[i \in Nat] ==
        IF i >= Len(s) THEN <<>>
        ELSE IF At(s, i) = delimiter THEN cut[i + 1]
        ELSE <<ft_substr(From(s, i), 0, word_length(From(s, i), delimiter)).text>> \o cut[i + word_length(From(s, i), delimiter)]
      memory == Append([k \in DOMAIN cut[0] |-> IF k = fails THEN NULL ELSE cut[0][k]], NULL)
  IN [room  |-> word_counter(s, delimiter) + 1,
      text  |-> IF fails \in DOMAIN cut[0] THEN NULL ELSE cut[0],
      freed |-> IF fails \in DOMAIN cut[0] THEN First(memory, LAMBDA w : w = NULL) ELSE 0,
      had   |-> IF fails \in DOMAIN cut[0] THEN fails - 1 ELSE Len(cut[0])]

-----------------------------------------------------------------------------
(* Numbers.  An int goes from -INT_MAX - 1 to INT_MAX; one that leaves these     *)
(* comes back from the other end, as gcc has it.                                 *)

INT_MIN == -INT_MAX - 1
AsInt(n)  == ((n - INT_MIN) % (2 * INT_MAX + 2)) + INT_MIN
Abs(n)  == IF n < 0 THEN -n ELSE n

ft_num_multi_digits(n) ==
  LET count[m \in Nat] == IF m = 0 THEN 0 ELSE 1 + count[m \div 10]
  IN IF n = INT_MIN THEN Len(LowestText) ELSE (IF n < 0 THEN 1 ELSE 0) + (IF n = 0 THEN 1 ELSE count[Abs(n)])

\* From the last digit to the first, which is behind the sign.
ft_itoa(n) ==
  LET multidigit == ft_num_multi_digits(n)
  IN [room |-> multidigit + 1,
      text |-> IF n = INT_MIN THEN LowestText
               ELSE [k \in 1 .. multidigit |-> IF k = 1 /\ n < 0 THEN "-" ELSE Digits[((Abs(n) \div 10 ^ (multidigit - k)) % 10) + 1]]]

\* The digits of the rest first; the lowest number is written as text.
ft_putnbr_fd(n) ==
  LET put[m \in Nat] == (IF m > 9 THEN put[m \div 10] ELSE <<>>) \o <<Digits[(m % 10) + 1]>>
  IN IF n = INT_MIN THEN LowestText ELSE IF n < 0 THEN <<"-">> \o put[-n] ELSE put[n]

ft_atoi(s) ==
  LET sign   == First(s, LAMBDA c : c \notin Blanks)
      number == From(s, IF At(s, sign) \in {"+", "-"} THEN sign + 1 ELSE sign)
      integer == FoldLeft(LAMBDA n, c : AsInt(n * 10 + First(Digits, LAMBDA d : d = c)), 0,
                          SubSeq(number, 1, First(number, LAMBDA c : ~Contains(Digits, c))))
  IN AsInt(IF At(s, sign) = "-" THEN -integer ELSE integer)

-----------------------------------------------------------------------------
(* Lists.  A node may not be had: what was copied until then is deleted.         *)

ft_lstmap(list, fails) ==
  FoldLeft(LAMBDA new, i : IF new.value = NULL THEN new
                           ELSE IF i = fails THEN [value |-> NULL, deleted |-> <<list[i]>> \o new.value]
                           ELSE [new EXCEPT !.value = Append(@, list[i])],
           [value |-> <<>>, deleted |-> <<>>], [i \in DOMAIN list |-> i])

-----------------------------------------------------------------------------
Called(fn) == result = <<>> /\ call.fn = fn /\ UNCHANGED call
Gives(r)   == result' = <<r>>

Memmove == Called("memmove") /\ Gives(ft_memmove(call.m, call.dst, call.src, call.len))
Strncmp == Called("strncmp") /\ Gives(ft_strncmp(call.s, call.t, call.len))
Strlcpy == Called("strlcpy") /\ Gives(ft_strlcpy(call.m, call.s, call.len))
Strlcat == Called("strlcat") /\ Gives(ft_strlcat(call.m, call.s, call.len))
Strnstr == Called("strnstr") /\ Gives(ft_strnstr(call.s, call.t, call.len))
Substr  == Called("substr") /\ Gives(ft_substr(call.s, call.start, call.len))
Strtrim == Called("strtrim") /\ Gives(ft_strtrim(call.s, call.t))
Split   == Called("split") /\ Gives(ft_split(call.s, call.delimiter, call.fails))
Itoa    == Called("itoa") /\ Gives(ft_itoa(call.n))
Putnbr  == Called("putnbr") /\ Gives(ft_putnbr_fd(call.n))
Atoi    == Called("atoi") /\ Gives(ft_atoi(call.s))
Lstmap  == Called("lstmap") /\ Gives(ft_lstmap(call.list, call.fails))

Init == call \in Calls /\ result = <<>>

Next == \/ Memmove \/ Strncmp \/ Strlcpy \/ Strlcat \/ Strnstr
        \/ Substr \/ Strtrim \/ Split \/ Itoa \/ Putnbr \/ Atoi \/ Lstmap

Spec == Init /\ [][Next]_vars

-----------------------------------------------------------------------------
(* What the functions are for, said without walking.                            *)

Gave(fn, Is(_)) == result # <<>> /\ call.fn = fn => Is(result[1])
Fits(r)         == Len(r.text) + 1 =< r.room
All(s, set)     == \A i \in DOMAIN s : Contains(set, s[i])
Lowest(S)       == CHOOSE i \in S : \A j \in S : i =< j

Moved(m) ==
  m = [i \in DOMAIN call.m |-> IF i \in call.dst + 1 .. call.dst + call.len THEN call.m[i - call.dst + call.src] ELSE call.m[i]]

\* Texts are in the order of the first characters in which they differ.
Compared(n) ==
  LET s == [i \in 1 .. call.len |-> IF i =< Len(call.s) THEN call.s[i] ELSE NUL]
      t == [i \in 1 .. call.len |-> IF i =< Len(call.t) THEN call.t[i] ELSE NUL]
      differ == {i \in DOMAIN s : s[i] # t[i]}
  IN IF differ = {} THEN n = 0 ELSE (n < 0) = (Order[s[Lowest(differ)]] < Order[t[Lowest(differ)]]) /\ n # 0

\* As BSD has them: cut to what fits and ended; nothing else is touched.  Nothing is
\* said of what ft_strlcat() returns where the text did not fit before, or there is no room:
\* its comment (ft_strlcat.c:18) and its code differ there.
Copied(r) ==
  LET kept == SubSeq(call.s, 1, Least(Len(call.s), call.len - 1))
  IN r.value = Len(call.s) /\ r.memory = IF call.len = 0 THEN call.m ELSE C(kept) \o From(call.m, Len(kept) + 1)

Joined(r) ==
  LET had  == Text(call.m)
      kept == SubSeq(call.s, 1, Least(Len(call.s), call.len - Len(had) - 1))
  IN /\ r.memory = IF call.len =< Len(had) THEN call.m ELSE C(had \o kept) \o From(call.m, Len(had) + Len(kept) + 1)
     /\ call.len > 0 /\ call.len >= Len(had) => r.value = Len(had) + Len(call.s)

Found(r) ==
  LET places == {i \in 0 .. Len(call.s) : i + Len(call.t) =< Least(call.len, Len(call.s)) /\ SubSeq(call.s, i + 1, i + Len(call.t)) = call.t}
  IN r = IF call.t = <<>> THEN <<0>> ELSE IF places = {} THEN NULL ELSE <<Lowest(places)>>

Cut(r) == Fits(r) /\ Len(r.text) = Cardinality({k \in 1 .. call.len : call.start + k =< Len(call.s)}) /\ IsPrefix(r.text, From(call.s, call.start))

Trimmed(r) ==
  /\ Fits(r)
  /\ \E i, j \in 0 .. Len(call.s) :
       /\ i =< j /\ r.text = SubSeq(call.s, i + 1, j)
       /\ All(SubSeq(call.s, 1, i), call.t) /\ All(From(call.s, j), call.t)
       /\ (i = j) \/ (~Contains(call.t, call.s[i + 1]) /\ ~Contains(call.t, call.s[j]))

\* The words are all there, or none and nothing is left allocated.
Parted(r) ==
  LET starts  == {i \in DOMAIN call.s : call.s[i] # call.delimiter /\ (i = 1 \/ call.s[i - 1] = call.delimiter)}
      Word(i) == SubSeq(call.s, i, Lowest({j \in i .. Len(call.s) + 1 : j > Len(call.s) \/ call.s[j] = call.delimiter}) - 1)
  IN IF r.text = NULL THEN r.freed = r.had
     ELSE /\ Fits(r) /\ Len(r.text) = Cardinality(starts)
          /\ \A i \in starts : r.text[Cardinality({j \in starts : j =< i})] = Word(i)

\* A numeral has no digit too many, and is read again as the number.
Numeral(n, text) == ft_atoi(text) = n /\ (text[1] = "0" => n = 0) /\ Contains(text, "-") = (n < 0) /\ ~Contains(text, "+")

\* What was copied is in the new list, or deleted once.
Kept(r) ==
  IF call.fails \notin DOMAIN call.list THEN r.value = call.list /\ r.deleted = <<>>
  ELSE r.value = NULL /\ \A x \in ToSet(call.list) :
         Len(SelectSeq(r.deleted, LAMBDA d : d = x)) = Len(SelectSeq(SubSeq(call.list, 1, call.fails), LAMBDA d : d = x))

\* Each function gives what it is for, and writes no more than was allocated: also for
\* memory that overlaps, sizes of nothing, texts that are cut, words that cannot be
\* allocated, and the lowest number (42_libft).
LibraryAgrees ==
  /\ Gave("memmove", Moved) /\ Gave("strncmp", Compared) /\ Gave("strlcpy", Copied) /\ Gave("strlcat", Joined)
  /\ Gave("strnstr", Found) /\ Gave("substr", Cut) /\ Gave("strtrim", Trimmed) /\ Gave("split", Parted)
  /\ Gave("itoa", LAMBDA r : Fits(r) /\ Numeral(call.n, r.text)) /\ Gave("putnbr", LAMBDA r : Numeral(call.n, r))
  /\ Gave("atoi", LAMBDA n : n = call.n) /\ Gave("lstmap", Kept)
=============================================================================
