------------------------------ MODULE NextLine ------------------------------
(***************************************************************************)
(* get_next_line() of 42_get_next_line: a call reads until it has a line,  *)
(* gives it and keeps what it read beyond it for the next call.  The kept  *)
(* text is one static for all descriptors, or in the bonus one for each.   *)
(* A step is the entry of a call, one read(), or the return.               *)
(***************************************************************************)
EXTENDS Integers, Sequences, SequencesExt

CONSTANTS
  Fds,           \* descriptors that are read
  NL,            \* the newline
  NULL,
  Texts,         \* what a descriptor may have to read
  BUFFER_SIZE    \* positive

VARIABLES
  place,     \* which my_static a descriptor uses
  held,      \* each my_static, a text or NULL
  call,      \* the call going on: its descriptor and read_val, or NULL
  rest,      \* what a descriptor still has to read
  given,     \* the lines it has given
  ended,     \* it has given NULL, for the end
  spoiled,   \* a read of it has failed, or another descriptor has used its text (observed)
  user       \* the descriptor whose text a my_static holds (observed)

vars == <<place, held, call, rest, given, ended, spoiled, user>>

\* What a caller finds: texts to read, and a NULL that is no text.
Chars == STRING
ConstantsAssumption == Texts \subseteq Seq(Chars) /\ NULL \notin Seq(Chars) /\ BUFFER_SIZE \in Nat

Text(s) == IF s = NULL THEN <<>> ELSE s

\* ft_strchr(): where the newline is, 0 when there is none.
ft_strchr(s) == SelectInSeq(Text(s), LAMBDA c : c = NL)

Held(fd) == held[place[fd]]

-----------------------------------------------------------------------------
\* A call looks first whether the descriptor can be read at all.
Call(fd) ==
  /\ call = NULL
  /\ call' = [fd |-> fd, read_val |-> 1]
  /\ user' = [user EXCEPT ![place[fd]] = fd]
  /\ spoiled' = IF Held(fd) # NULL /\ user[place[fd]] # fd
                THEN [f \in Fds |-> spoiled[f] \/ f \in {fd, user[place[fd]]}] ELSE spoiled
  /\ UNCHANGED <<place, held, rest, given, ended>>

\* A descriptor that is not open: the text that is kept is freed.
Refused(fd) ==
  /\ call = NULL
  /\ held' = [held EXCEPT ![place[fd]] = NULL]
  /\ spoiled' = [f \in Fds |-> spoiled[f] \/ (Held(fd) # NULL /\ f \in {fd, user[place[fd]]})]
  /\ UNCHANGED <<place, call, rest, given, ended, user>>

\* ft_read() reads as long as there is no newline and the end has not been seen.
Reading == call # NULL /\ ft_strchr(Held(call.fd)) = 0 /\ call.read_val > 0

\* create_copy_return(): what read() gave behind what was kept.
Read(n) ==
  /\ Reading /\ n =< Len(rest[call.fd]) /\ (n = 0 <=> rest[call.fd] = <<>>)
  /\ held' = [held EXCEPT ![place[call.fd]] = Text(@) \o SubSeq(rest[call.fd], 1, n)]
  /\ rest' = [rest EXCEPT ![call.fd] = SubSeq(@, n + 1, Len(@))]
  /\ call' = [call EXCEPT !.read_val = n]
  /\ UNCHANGED <<place, given, ended, spoiled, user>>

ReadFails ==
  /\ Reading
  /\ held' = [held EXCEPT ![place[call.fd]] = NULL]
  /\ spoiled' = [spoiled EXCEPT ![call.fd] = TRUE]
  /\ call' = NULL
  /\ UNCHANGED <<place, rest, given, ended, user>>

\* ft_copy_until_n(): up to the newline; everything when there is none.
ft_copy_until_n(s) ==
  CASE ft_strchr(s) # 0 -> SubSeq(s, 1, ft_strchr(s)) [] s = <<>> -> NULL [] OTHER -> s

\* ft_static_handler(): what is behind the newline, which may be nothing.
ft_static_handler_all(s) == IF ft_strchr(s) # 0 THEN SubSeq(s, ft_strchr(s), Len(s)) ELSE NULL    \* mutant: off by one
ft_static_handler(s) == IF ft_strchr(s) # 0 THEN SubSeq(s, ft_strchr(s) + 1, Len(s)) ELSE NULL

Return ==
  /\ call # NULL /\ ~Reading
  /\ \E line \in {ft_copy_until_n(Held(call.fd))} :
       IF line = NULL THEN ended' = [ended EXCEPT ![call.fd] = TRUE] /\ given' = given
       ELSE given' = [given EXCEPT ![call.fd] = Append(@, line)] /\ ended' = ended
  /\ held' = [held EXCEPT ![place[call.fd]] = ft_static_handler(@)]
  /\ call' = NULL
  /\ UNCHANGED <<place, rest, spoiled, user>>

\* The caller stops at the first NULL.
Wanted(fd) == ~ended[fd]

Init ==
  /\ place \in {[f \in Fds |-> "my_static"], [f \in Fds |-> f]}
  /\ held = [p \in Fds \cup {"my_static"} |-> NULL]
  /\ call = NULL
  /\ rest \in [Fds -> Texts]
  /\ given = [f \in Fds |-> <<>>]
  /\ ended = [f \in Fds |-> FALSE]
  /\ spoiled = [f \in Fds |-> FALSE]
  /\ user = [p \in Fds \cup {"my_static"} |-> NULL]

Next ==
  \/ \E fd \in Fds : Wanted(fd) /\ ~spoiled[fd] /\ (Call(fd) \/ Refused(fd))
  \/ \E n \in 0 .. BUFFER_SIZE : Read(n)
  \/ ReadFails
  \/ Return

Spec == Init /\ [][Next]_vars

-----------------------------------------------------------------------------
(* Properties *)

Kept(fd)   == Text(IF user[place[fd]] = fd THEN Held(fd) ELSE NULL)
Joined(fd) == FlattenSeq(given[fd]) \o Kept(fd) \o rest[fd]

\* Whatever read() returns at a time, and with the bonus whichever descriptor is asked in
\* between, as long as no read has failed no character is lost, doubled or moved: a step
\* leaves the lines given, the text kept and the text to read the same when they are put
\* one behind the other.  Every line but the last ends in its only newline, and NULL is
\* given at the end alone.
NothingLost == \A fd \in Fds : ~spoiled'[fd] => Joined(fd)' = Joined(fd)
IsLine(l, last) ==
  /\ l # <<>>
  /\ \A i \in DOMAIN l : l[i] = NL => i = Len(l)
  /\ Last(l) = NL \/ last
LinesAreGiven ==
  \A fd \in Fds : ~spoiled[fd] =>
    /\ \A i \in DOMAIN given[fd] : IsLine(given[fd][i], i = Len(given[fd]) /\ rest[fd] = <<>>)
    /\ ~Wanted(fd) => rest[fd] = <<>>
=============================================================================
