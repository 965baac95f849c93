------------------------------- MODULE Reading -------------------------------
(***************************************************************************)
(* One connection of webserv from its bytes to its answers: what arrives   *)
(* is given to the parser of the header (RequestHeaderParser), which gives *)
(* what is behind the header to the parser of the body                     *)
(* (RequestRawBodyParser; a multipart body is the matter of Upload), and   *)
(* the request is answered when it is complete or refused.                 *)
(*                                                                         *)
(* A step is one epoll event, IOClientHandler::handle().  The socket has   *)
(* room for what is written, so that every event is one to write as well.  *)
(***************************************************************************)
EXTENDS Fields

CONSTANTS
  Dialogues,    \* sequences of requests a client may send: [head, body, meant],
                \* where meant is [code, fields], the fields that are not as in Request
  Config,       \* the server's block, see Fields
  Pieces,       \* how much one read may find, when it does not find all there is
  INT_MAX       \* the greatest int, 2^31 - 1 in the code

VARIABLES
  asked,        \* the requests this client sends
  patient,      \* it waits for each answer before it sends the next request
  taken,        \* how much of what it sends has been read
  c,            \* the connection: its parser and its request
  status,       \* _status, of the last event that was read
  answers,      \* what was answered to
  phase         \* "open", "closed", "upload" or "loops"

vars == <<asked, patient, taken, c, status, answers, phase>>

Text(r) == r.head \o r.body
Stream  == FlattenSeq([k \in DOMAIN asked |-> Text(asked[k])])

-----------------------------------------------------------------------------
(* parse_complete_header().  code 0 is a loop without an end.                    *)

Methods   == {"GET", "POST", "DELETE"}
Protocols == {"HTTP/1.0", "HTTP/1.1", "HTTP/2.0"}
Supported == {"HTTP/1.0", "HTTP/1.1"}

Found(r, a) == [r EXCEPT !.path = a.path, !.queries = a.queries, !.mime = extract_mime(get_filename(a.path))]

AddressLine(r, m, a, p) ==
  IF ~a.ok THEN Bad(r, 400)
  ELSE IF p \notin {<<n>> : n \in Protocols} THEN Bad(Found(r, a), 400)
  ELSE IF p \notin {<<n>> : n \in Supported} THEN Bad(Found(r, a), 505)
  ELSE Good([Found(r, a) EXCEPT !.method = m[1]])

parse_request_line(r, line) ==
  LET m == get_token_with_delims(line, 1, {" "}, TRUE)
      u == get_token_with_delim(line, m.next, <<" ">>, TRUE)
      p == From(line, u.next)
  IN  IF m.text = <<>> \/ u.text = <<>> \/ p = <<>> THEN Bad(r, 400)
      ELSE IF m.text \notin {<<n>> : n \in Methods} THEN Bad(r, 501)
      ELSE AddressLine(r, m.text, parse_absolute_path(u.text), p)

Form(t) == t.type = <<"multipart">> /\ t.subtype = <<"form-data">>

is_request_valid(r) ==
  LET max == get_location_max_body_size(r.path, Config)
  IN  IF r.method = "POST" /\ r.length = 0 THEN Bad(r, 400)
      ELSE IF Form(r.type) /\ ~\E i \in DOMAIN r.type.parameters : r.type.parameters[i][1] = <<"boundary">> THEN Bad(r, 400)
      ELSE IF r.method = "POST" /\ max > 0 /\ max < r.length THEN Bad(r, 413)
      ELSE Good(r)

\* The names and values of the fields.  A name ends at ": "; where that is missing, the
\* name goes on into the next line.
Fields(s, start) ==
  LET go[i \in Nat, out \in Seq(Seq(Seq(STRING)))] ==
        LET n == get_token_with_delim(s, i, <<":", " ">>, TRUE)
            v == get_token_with_delim(s, n.next, CRLF, TRUE)
            o == Append(out, <<n.text, v.text>>)
        IN  IF v.next > Len(s) THEN o ELSE go[v.next, o]
  IN  go[start, <<>>]

\* get_cgi_bin() finds out whether the path is that of a script.
WithCgi(r) == [r EXCEPT !.cgi = get_cgi_bin(r.path, Config) # <<>>]

\* Each parser has what the one before it made of the request, if that was no refusal.
AddField(got, f) == IF got.code # 200 THEN got ELSE ParseField(got.request, f[1], f[2])

AllFields(first, s, start) ==
  IF first.code # 200 THEN first ELSE FoldLeft(AddField, Good(WithCgi(first.request)), Fields(s, start))

Checked(got, unfolded) ==
  IF got.code # 200 THEN got ELSE IF unfolded THEN Bad(got.request, 0) ELSE is_request_valid(got.request)

HeaderOf(r, s, line) == AllFields(parse_request_line(r, line.text), s, line.next)

\* The length that ends the loop over the fields is taken before the header is unfolded.
parse_complete_header(r, buffer) ==
  LET s == unfold_string(buffer)
  IN  Checked(HeaderOf(r, s, get_token_with_delim(s, 1, CRLF, TRUE)), Len(s) < Len(buffer))

-----------------------------------------------------------------------------
(* ServerRequestParser::parse().  The connection holds the buffer of the header *)
(* parser, whether the header has been parsed, the request, whether its body is  *)
(* of a form, and what the parser of a raw body has counted.                      *)

Fresh == [buffer |-> <<>>, headed |-> FALSE, request |-> Request, raw |-> FALSE, size |-> 0, moved |-> 0, form |-> FALSE]

\* parser.is_finished(): a raw body never is.
Finished(d) == d.headed /\ ~d.raw /\ ~d.form

is_request_ready(d) == d.moved >= d.request.length

\* A length is 64 bits wide, and the parser of a raw body keeps it in an int.
AsInt(length) == ((length + INT_MAX + 1) % (2 * (INT_MAX + 1))) - (INT_MAX + 1)

\* What is counted of a length l, of n characters of which size were there before.
Counted(l, n) == IF n > l THEN l ELSE n

\* transfered_length is 64 bits wide, without a sign.
Added(moved, size) == (moved + size) % (MaxLength + 1)

\* feed() and apply() of RequestRawBodyParser: apply() adds all that has been counted so
\* far.  A read is small enough for its sum with that not to leave the int.
FeedRaw(d, n) ==
  LET size == Counted(AsInt(d.request.length), d.size + n)
  IN  [d EXCEPT !.size = size, !.moved = Added(@, size)]

\* create_body_parser()
WithBody(d) ==
  IF d.request.cgi THEN [d EXCEPT !.raw = TRUE]
  ELSE IF d.request.method # "POST" THEN d
  ELSE IF Form(d.request.type) THEN [d EXCEPT !.form = TRUE] ELSE [d EXCEPT !.raw = TRUE]

\* feed(): where the header ends in what has been read so far, and where the body begins
\* in what has just been read.
EndIn_new(buffer, content) ==                          \* mutant: the end is looked for in the new part alone
  LET end == Find(content, HeadEnd, 1) IN IF end = 0 THEN 0 ELSE Len(buffer) + end
EndIn(buffer, content) == Find(buffer \o content, HeadEnd, 1)

BodyStart_all(buffer, end) == end + Len(HeadEnd)       \* mutant: a position in all that has been read
BodyStart(buffer, end) == end + Len(HeadEnd) - Len(buffer)

\* What parse() makes of what has been read: the connection, the status of the read, and
\* the part of it that is body.
Fed(d, body) == [d |-> IF d.raw THEN FeedRaw(d, Len(body)) ELSE d, code |-> 200, body |-> body]

WithHeader(d, got, body) ==
  IF got.code # 200 THEN [d |-> [d EXCEPT !.request = got.request], code |-> got.code, body |-> <<>>]
  ELSE Fed(WithBody([d EXCEPT !.headed = TRUE, !.request = got.request]), body)

parse(d, content) ==
  LET all  == d.buffer \o content
      end  == EndIn(d.buffer, content)
      head == SubSeq(all, 1, end - 1)
  IN  IF d.headed THEN Fed(d, content)
      ELSE IF end = 0 THEN [d |-> [d EXCEPT !.buffer = all], code |-> 610, body |-> <<>>]
      ELSE WithHeader([d EXCEPT !.buffer = head], parse_complete_header(d.request, head), From(content, BodyStart(d.buffer, end)))

-----------------------------------------------------------------------------
(* IOClientHandler::handle()                                                     *)

Answered(d, code) == Append(answers, [code |-> code, request |-> d.request])

Closed(d) == c' = d /\ phase' = "closed"
Stays(d)  == c' = d /\ phase' = "open"

\* reset()
NextRequest == Stays(Fresh)

Started == 1       \* the code of an answer that comes from a script

\* handle_cgi_request(): a script is started even for a request that was refused.
RunScript(d, code) ==
  /\ d.request.cgi
  /\ IF is_request_ready(d)
     THEN answers' = Answered(d, Started) /\ (IF code = 200 THEN NextRequest ELSE Closed(d))
     ELSE UNCHANGED answers /\ (IF code = 200 THEN Stays(d) ELSE Closed(d))

\* generate_response(): these do not look at the method, the others refuse a raw body.
AnyMethod(r) ==
  \/ r.path \in {<<"/", "login">>, <<"/", "session">>, <<"/", "logout">>}
  \/ r.path = <<"/">> /\ \A i \in DOMAIN Config.locations : Config.locations[i].path # <<"/">>

\* handle_default_request(): what is answered may be an error (400 stands for each), which
\* closes.  A request that is not ready, since its body is not there or is never read, is
\* answered at each event.
Reply(d, code) ==
  /\ ~d.request.cgi /\ ~d.form
  /\ IF code = 200 /\ ~d.headed THEN Stays(d) /\ UNCHANGED answers
     ELSE \/ answers' = Answered(d, IF d.raw THEN 400 ELSE code) /\ Closed(d)
          \/ /\ code = 200 /\ (d.raw => AnyMethod(d.request))
             /\ answers' = Answered(d, 200)
             /\ IF is_request_ready(d) THEN NextRequest ELSE Stays(d)

\* An upload: what is left of the read is the beginning of its body.
HandOver(d, body) ==
  /\ d.form
  /\ answers' = Append(answers, [code |-> 100, request |-> d.request, body |-> body])
  /\ c' = d /\ phase' = "upload"

Handle(d, code, body) ==
  /\ status' = code
  /\ IF code = 610 THEN Stays(d) /\ UNCHANGED answers
     ELSE IF code = 0 THEN c' = d /\ phase' = "loops" /\ UNCHANGED answers
     ELSE RunScript(d, code) \/ Reply(d, code) \/ HandOver(d, body)

Parsed(p) == Handle(p.d, p.code, p.body)

\* Where each of the requests ends.
Lengths[k \in 0 .. Len(asked)] == IF k = 0 THEN 0 ELSE Lengths[k - 1] + Len(Text(asked[k]))

\* How far the client has come: the one that waits sends nothing behind the request it
\* has no answer to.
MaySend == IF patient /\ Len(answers) < Len(asked) THEN Lengths[Len(answers) + 1] ELSE Lengths[Len(asked)]

\* Something has arrived, n characters of it.
Read(n) ==
  /\ phase = "open" /\ ~c.request.cgi /\ ~Finished(c)
  /\ n > 0 /\ taken + n =< MaySend
  /\ Parsed(parse(c, SubSeq(Stream, taken + 1, taken + n)))
  /\ taken' = taken + n
  /\ UNCHANGED <<asked, patient>>

\* Nothing is read: there is room to write.
MayWrite ==
  /\ phase = "open"
  /\ Len(answers) =< Len(asked)
  /\ Handle(c, status, <<>>)
  /\ UNCHANGED <<asked, patient, taken>>

Init ==
  /\ asked \in Dialogues
  /\ patient \in BOOLEAN
  /\ taken = 0 /\ c = Fresh /\ status = 200 /\ answers = <<>> /\ phase = "open"

Next == (\E n \in Pieces \cup {Len(Stream) - taken, MaySend - taken} : Read(n)) \/ MayWrite

Spec == Init /\ [][Next]_vars

-----------------------------------------------------------------------------
\* Whatever the pieces in which a header arrives, the request that is answered is the one
\* the client meant, field by field, or is refused for the reason it should be; what is
\* behind the header is the body (RequestHeaderParser::feed(), parse_complete_header()).
\* The n-th answer is to the n-th request of a client that waits for its answers, and the
\* first one is so for every client.  One that says it has a body where none is read is
\* answered over and over, and the script of a refused request is started all the same.
\* What comes after the answer to a raw body where any method will do is not looked at: the
\* body is counted more than once, and a rest of it may be taken for a request.
AsMeant(a, r) ==
  /\ r.meant.code # 200 => a.code = r.meant.code \/ (a.code = Started /\ a.request.cgi)
  /\ r.meant.code = 200 => a.request = r.meant.fields @@ Request
  /\ a.code = 100 => a.body = SubSeq(r.body, 1, Len(a.body))

RequestOf(n) == asked[Min({n, Len(asked)})]

RawBody(q)   == ~q.cgi /\ q.method = "POST" /\ ~Form(q.type)
Tolerated(r) == r.meant.code = 200 /\ RawBody(r.meant.fields @@ Request) /\ AnyMethod(r.meant.fields @@ Request)

\* The n-th answer is one to a request of the client.
Owed(n) == n =< Len(asked) \/ ~Tolerated(asked[Len(asked)])

HeadIsUnderstood ==
  \A n \in DOMAIN answers : (patient /\ Owed(n)) \/ n = 1 => AsMeant(answers[n], RequestOf(n))

\* No request waits with nothing left to read: as long as one of a client that waits for
\* its answers is neither answered nor handed over, a part of it has not arrived
\* (IOClientHandler::handle(), reset()).  Two are left: a header with a folded line, in
\* which the parser loops, and one of a script whose body was not in the same read as the
\* end of the header, which is never started.
BodyIsLate == c.request.cgi /\ ~is_request_ready(c)
Settled    == phase # "open" \/ Len(answers) >= Len(asked) \/ BodyIsLate

EveryHeadIsAnswered == patient /\ taken = MaySend => Settled

\* Both.
RequestIsAnswered == HeadIsUnderstood /\ EveryHeadIsAnswered

\* What the clients say: the parser, given the whole header of a request, makes of it what
\* is meant, or loops; a header has one end; no request has more of a body than it announces,
\* and none of a script announces more than an int can count; and one that others follow is
\* no form and has no body that nobody reads or that is answered before it is there.
Understood(r) == parse_complete_header(Request, SubSeq(r.head, 1, Len(r.head) - Len(HeadEnd)))

HeaderOK(r) ==
  /\ r.head \in Seq(Chars(r.head)) /\ r.body \in Seq(Chars(r.body))
  /\ Len(r.head) >= Len(HeadEnd) /\ Find(r.head, HeadEnd, 1) = Len(r.head) - Len(HeadEnd) + 1

MeaningOK(r, got) ==
  /\ got.code # 0 => got.code = r.meant.code
  /\ got.code = 200 => got.request = r.meant.fields @@ Request /\ Len(r.body) =< got.request.length
  /\ got.code \notin {100, 610} /\ got.request.length \in Nat
  /\ got.request.cgi => got.request.length =< INT_MAX

MayBeFollowed(q) == q.cgi \/ IF q.method = "POST" THEN ~Form(q.type) /\ ~AnyMethod(q) ELSE q.length = 0

DialogueOK(talk) ==
  /\ Len(talk) \in Nat /\ Len(talk) > 0 /\ DOMAIN talk = 1 .. Len(talk)
  /\ \A i \in 1 .. Len(talk) :
       /\ HeaderOK(talk[i]) /\ MeaningOK(talk[i], Understood(talk[i]))
       /\ i < Len(talk) /\ Understood(talk[i]).code = 200 => MayBeFollowed(Understood(talk[i]).request)

ConstantsAssumption ==
  /\ MaxLength \in Nat /\ INT_MAX \in Nat /\ INT_MAX =< MaxLength
  /\ Pieces \subseteq Nat /\ \A talk \in Dialogues : DialogueOK(talk)

\* A folded line is one line: the header is unfolded before its fields are read ("remove
\* \r\n + ws", RequestHeaderParser.cpp:665), and the request is answered like any other.
FoldedIsRead == phase # "loops"

\* transfered_length is the "length of the whole request that was transfered"
\* (ServerRequest.hpp:79): of a client with one request, it is no more than what has come
\* behind the header, if an int can count that.
BodyIsCountedOnce ==
  phase = "open" /\ Len(asked) = 1 /\ c.raw /\ c.request.length =< INT_MAX => c.moved =< taken - Len(asked[1].head)
===============================================================================
