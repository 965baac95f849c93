-------------------------------- MODULE Upload --------------------------------
(***************************************************************************)
(* Files that clients of webserv upload with POST multipart/form-data.     *)
(*                                                                         *)
(* A step is one epoll event of a client: what has arrived is read and     *)
(* parsed (IOClientHandler::read_and_parse(), ServerRequestParser::parse(),*)
(* RequestMultipartParser::feed() and apply()) and the request, complete   *)
(* or not, is answered (handle_default_request() and, in ServerResponse,   *)
(* handle_file_upload()).  Uploads of several clients and deletions of     *)
(* files interleave between the events.                                    *)
(*                                                                         *)
(* Text is a sequence of units: NL is "\r\n", BB "--boundary", DD "--", a   *)
(* file name stands for the header lines of a part, and anything else is   *)
(* content.  HEAD is the header of the request.  A unit arrives whole.     *)
(***************************************************************************)
EXTENDS Integers, Sequences, SequencesExt, FiniteSets, FiniteSetsExt

CONSTANTS
  Clients,
  Files,             \* names of files of one upload location
  Bodies,            \* what each client may upload: sets of sequences of [file, data]
  OLD,               \* content of a file that was there before
  Deletes,           \* number of DELETE requests other clients make
  HEAD, NL, BB, DD,  \* units of text
  NONE               \* no such file

VARIABLES
  up,       \* [Clients -> the connection, its parser and its request]
  disk,     \* [Files -> content or NONE]
  deletes   \* DELETE requests made

vars == <<up, disk, deletes>>

-----------------------------------------------------------------------------
(* What is sent *)

StartBoundary == <<BB, NL>>
EndBoundary   == <<NL, BB, DD, NL>>

PartText(p) == StartBoundary \o <<p.file, NL, NL>> \o p.data \o <<NL>>
Text(body)  == <<HEAD>> \o FlattenSeq([i \in DOMAIN body |-> PartText(body[i])]) \o <<BB, DD, NL>>

-----------------------------------------------------------------------------
(* RequestMultipartParser.  q is the parser: buffer, parts (_content_data),    *)
(* first (_first_header_found), finished, and status, the result of feed().    *)

Occurs(text, key) == {i \in 1 .. Len(text) - Len(key) + 1 : SubSeq(text, i, i + Len(key) - 1) = key}
Before(text, i)   == SubSeq(text, 1, i - 1)
From(text, i)     == SubSeq(text, i, Len(text))

Extend(part, d)   == [part EXCEPT !.data = @ \o d]
Finish(part)      == [part EXCEPT !.fin = TRUE]
WithLast(s, part) == [s EXCEPT ![Len(s)] = part]

\* _last_content is not NULL and not finished.  When apply() has moved the part it
\* points to, what is read there is undefined: stale.
LastIsOpen(q, stale) ==
  IF q.parts = <<>> THEN q.first /\ stale ELSE ~Last(q.parts).fin

EndFound(q) ==
  [q EXCEPT !.parts = WithLast(@, Finish(Extend(Last(@), Before(q.buffer, Min(Occurs(q.buffer, EndBoundary)))))),
            !.buffer = <<>>, !.finished = TRUE]

\* The next boundary ends the part, with the line break before it.
FinishContent(q, i) ==
  IF i = 1 \/ q.buffer[i - 1] # NL
  THEN [q EXCEPT !.status = "bad"]
  ELSE [q EXCEPT !.parts = WithLast(@, Finish(Extend(Last(@), Before(q.buffer, i - 1)))),
                 !.buffer = From(@, i)]

NewPart(file) == [file |-> file, data |-> <<>>, fin |-> FALSE, created |-> FALSE]

BodyWithHeader(q, i) ==
  IF Occurs(q.buffer, <<NL, NL>>) = {}
  THEN [q EXCEPT !.status = "not ready"]
  ELSE [q EXCEPT !.parts = Append(@, NewPart(q.buffer[i + Len(StartBoundary)])),
                 !.buffer = From(@, Min(Occurs(@, <<NL, NL>>)) + 2),
                 !.first = TRUE]

\* What cannot be the begin of a boundary is content of the part.
Window == Len(EndBoundary)

BodyWithoutBoundary(q) ==
  IF Window > Len(q.buffer)
  THEN [q EXCEPT !.status = "not ready"]
  ELSE LET n == Len(q.buffer) - Window
       IN  [q EXCEPT !.parts = WithLast(@, Extend(Last(@), SubSeq(q.buffer, 1, n))),
                     !.buffer = From(@, n + 1), !.status = "not ready"]

FeedOnce(q, stale) ==
  LET starts == Occurs(q.buffer, StartBoundary)
      ends   == Occurs(q.buffer, EndBoundary)
  IN  IF starts # {}
      THEN IF LastIsOpen(q, stale) THEN FinishContent(q, Min(starts)) ELSE BodyWithHeader(q, Min(starts))
      ELSE IF ends # {} THEN EndFound(q)
      ELSE IF ~q.first /\ Len(q.buffer) >= Len(StartBoundary) THEN [q EXCEPT !.status = "bad"]
      ELSE BodyWithoutBoundary(q)

\* Text that is not longer than the end boundary is left for the next call.
More(buffer) == Len(buffer) > Len(EndBoundary)

GoesOn(r) == r.status = "ok" /\ ~r.finished /\ More(r.buffer)

\* A turn that another one follows takes something out of the buffer.
FeedLoop(q, stale) ==
  LET turn[n \in 1 .. Len(q.buffer) + 1] ==
        IF n = 1 THEN FeedOnce(q, stale)
        ELSE LET r == turn[n - 1] IN IF GoesOn(r) THEN FeedOnce(r, stale) ELSE r
  IN  turn[Len(q.buffer) + 1]

Feed(q, text, stale) == FeedLoop([q EXCEPT !.buffer = @ \o text, !.status = "ok"], stale)

(* apply(): items is request.content_data.  It is called after every feed() that    *)
(* did not fail: "status != DataIsNotReady" compares the operator bool with 610.     *)

AddNew(items, part) ==
  IF \E i \in DOMAIN items : items[i].file = part.file THEN items ELSE Append(items, part)

Cleared(parts) ==
  IF parts = <<>> \/ Last(parts).fin THEN <<>> ELSE <<[Last(parts) EXCEPT !.data = <<>>]>>

Merges(items) == items # <<>> /\ ~Last(items).fin

\* The last item waits for more: only the front part is taken, and only that is removed.
Merged(items, part) ==
  WithLast(items, [Extend(Last(items), part.data) EXCEPT !.fin = part.fin])
LeftOf(parts) == IF parts[1].fin THEN Tail(parts) ELSE [parts EXCEPT ![1].data = <<>>]

Applied(parts, items) ==
  IF parts = <<>> THEN [parts |-> parts, items |-> items]
  ELSE IF Merges(items) THEN [parts |-> LeftOf(parts), items |-> Merged(items, parts[1])]
  ELSE [parts |-> Cleared(parts), items |-> FoldLeft(AddNew, items, parts)]

-----------------------------------------------------------------------------
(* handle_multipart_upload(): s is what it has come to - the items left, the    *)
(* files and the status; broken are the files that cannot be opened now.        *)

\* A file that somebody else has made is not touched.
Conflict_none(item, files) == FALSE   \* mutant: it is not asked for
Conflict(item, files) == files[item.file] # NONE /\ ~item.created

\* save_uploaded_file() appends.
Saved(item, files) ==
  [files EXCEPT ![item.file] = IF @ = NONE THEN item.data ELSE @ \o item.data]

\* What is in the items, once it has been saved or not.
Kept_whole(item) == [item EXCEPT !.created = TRUE]  \* mutant: what is saved is not removed
Kept(item) == [item EXCEPT !.created = TRUE, !.data = <<>>]

\* One turn of its loop, for the first item that is left.
Save(s, item, broken) ==
  LET opened == item.file \notin broken
      files  == IF opened THEN Saved(item, s.disk) ELSE s.disk
  IN  IF s.stop THEN s
      ELSE IF Conflict(item, s.disk) THEN [s EXCEPT !.status = 409, !.stop = TRUE]
      ELSE IF item.fin
      THEN [s EXCEPT !.disk = files, !.items = Tail(@), !.status = IF opened THEN 200 ELSE 400]
      ELSE [s EXCEPT !.disk = files, !.items = <<Kept(item)>>, !.status = 100, !.stop = TRUE]

MultipartUpload(items, broken) ==
  LET Turn(s, item) == Save(s, item, broken)
  IN  FoldLeft(Turn, [items |-> items, disk |-> disk, status |-> 100, stop |-> FALSE], items)

FileUpload(items, broken) ==
  IF items = <<>> THEN [items |-> items, disk |-> disk, status |-> 400, stop |-> TRUE]
  ELSE MultipartUpload(items, broken)

-----------------------------------------------------------------------------
(* One event of client c: u is the connection when the text has been parsed.      *)

\* transfered_length >= content_length
Ready(u) == u.left = <<>>

\* handle_default_request().  100 is not sent; an error closes the connection; a
\* request that is ready is reset.
Respond(c, u, broken) ==
  LET s == FileUpload(u.items, broken)
      lost == \E i \in DOMAIN u.items :
                u.items[i].file \in broken /\ (u.items[i].data # <<>> \/ ~u.items[i].created)
  IN  /\ disk' = s.disk
      /\ up' = [up EXCEPT ![c] =
           [u EXCEPT !.items   = s.items,
                     !.replies = IF s.status = 100 THEN @ ELSE Append(@, s.status),
                     !.lost    = @ \/ lost,
                     !.state   = IF s.status >= 400 THEN "closed"
                                 ELSE IF Ready(u) THEN "over" ELSE @]]

Refuse(c, u) ==
  /\ up' = [up EXCEPT ![c] = [u EXCEPT !.replies = Append(@, 400), !.state = "closed"]]
  /\ UNCHANGED disk

Parsed(u, n, stale) ==
  LET text == SubSeq(u.left, 1, n)
      q    == Feed(u.parser, IF u.head THEN text ELSE Tail(text), stale)
      a    == Applied(q.parts, u.items)
  IN  [u EXCEPT !.left = From(@, n + 1), !.head = TRUE,
                !.parser = IF q.status = "bad" THEN q ELSE [q EXCEPT !.parts = a.parts],
                !.items = IF q.status = "bad" THEN @ ELSE a.items]

\* n units have arrived.
Read(c) ==
  /\ up[c].state = "open"
  /\ ~up[c].parser.finished
  /\ \E n \in 1 .. Len(up[c].left), stale \in BOOLEAN, broken \in SUBSET Files :
       LET u == Parsed(up[c], n, stale)
       IN  IF u.parser.status = "bad" THEN Refuse(c, u) ELSE Respond(c, u, broken)
  /\ UNCHANGED deletes

\* Nothing has arrived, but the socket can be written to.
Writable(c) ==
  /\ up[c].state = "open" /\ up[c].head
  /\ \E broken \in SUBSET Files : Respond(c, up[c], broken)
  /\ UNCHANGED deletes

\* handle_file_delete(), for a request of somebody else.
Delete(f) ==
  /\ deletes < Deletes
  /\ disk[f] # NONE
  /\ disk' = [disk EXCEPT ![f] = NONE]
  /\ deletes' = deletes + 1
  /\ UNCHANGED up

Finished == (\A c \in Clients : up[c].state # "open") /\ UNCHANGED vars

NewParser == [buffer |-> <<>>, parts |-> <<>>, first |-> FALSE, finished |-> FALSE, status |-> "ok"]

NewUpload(body) ==
  [state |-> "open", body |-> body, left |-> Text(body), head |-> FALSE, parser |-> NewParser,
   items |-> <<>>, replies |-> <<>>, lost |-> FALSE]

Init ==
  /\ \E body \in [Clients -> UNION {Bodies[c] : c \in Clients}] :
       /\ \A c \in Clients : body[c] \in Bodies[c]
       /\ up = [c \in Clients |-> NewUpload(body[c])]
  /\ disk \in [Files -> {NONE, OLD}]
  /\ deletes = 0

Next ==
  \/ \E c \in Clients : Read(c) \/ Writable(c)
  \/ \E f \in Files : Delete(f)
  \/ Finished

Spec == Init /\ [][Next]_vars
-----------------------------------------------------------------------------
(* What clients send: a form of one file that has a content, in which there is no *)
(* boundary; the units are told apart, and no content is what stands for no file.  *)

FormOK(body) ==
  LET part == body[1]
  IN  /\ body = <<[file |-> part.file, data |-> part.data]>>
      /\ part.file \in Files \ {NL, BB}
      /\ part.data \in Seq(Range(part.data)) /\ part.data # <<>>
      /\ BB \notin Range(part.data)
      /\ \A n \in 0 .. Len(part.data) : SubSeq(part.data, 1, n) # NONE

ConstantsAssumption ==
  /\ NL # BB /\ NL # DD /\ BB # DD
  /\ \A c \in Clients : \A body \in Bodies[c] : FormOK(body)

-----------------------------------------------------------------------------
(* Properties *)

Sent(c) == {up[c].body[i] : i \in DOMAIN up[c].body}

\* Nobody has deleted a file, and each piece for file f could be written.
Intact(f) ==
  deletes = 0 /\ \A c \in Clients : up[c].lost => \A p \in Sent(c) : p.file # f

\* A file of the location is an old one or the begin of one part that somebody sent:
\* boundaries and headers never get into it, nothing comes twice or out of order, and
\* uploads of one name never mix.
PrefixOnDisk ==
  \A f \in Files : Intact(f) =>
    \/ disk[f] \in {NONE, OLD}
    \/ \E c \in Clients : \E p \in Sent(c) : p.file = f /\ IsPrefix(disk[f], p.data)

\* When an upload is over and its last answer is 200, every file of it is there, whole.
AcceptedIsWhole ==
  \A c \in Clients :
    up[c].state = "over" /\ up[c].replies # <<>> /\ Last(up[c].replies) = 200
      => \A p \in Sent(c) : Intact(p.file) => disk[p.file] = p.data

\* The client gets one answer, and its request is not reset before that.
OneReply ==
  \A c \in Clients : Len(up[c].replies) <= 1 /\ (up[c].state = "over" => up[c].replies # <<>>)
=============================================================================
